------------------------- MODULE MessageRouter_proofs -------------------------
(****************************************************************************)
(* Lemmas about MessageRouter, for any handlers, priorities and custom      *)
(* can_handle: the list is the registrations in force, sorted by priority   *)
(* and stably.                                                              *)
(****************************************************************************)
EXTENDS MessageRouter, SequenceTheorems, FiniteSetTheorems, WellFoundedInduction, TLAPS

-----------------------------------------------------------------------------
(* Numbers and sequences.                                                   *)

\* A set of natural numbers has a least one.
LEMMA LeastOf ==
    ASSUME NEW T, T \subseteq Nat, T # {}
    PROVE  \E n \in T : \A k \in T : n <= k
<1>1. PICK n \in T : \A k \in T : ~ (<<k, n>> \in OpToRel(<, Nat))
  BY NatLessThanWellFounded, WFMin, Zenon
<1>2. \A k \in T : ~ (k < n)
  BY <1>1 DEF OpToRel
<1> QED BY <1>2

\* What InsertAt makes: the elements before, the new one, and the others.
LEMMA InsertAtElements ==
    ASSUME NEW S, NEW q \in Seq(S), NEW x \in S, NEW n \in 1..Len(q)+1
    PROVE  /\ InsertAt(q, n, x) \in Seq(S)
           /\ Len(InsertAt(q, n, x)) = Len(q) + 1
           /\ \A i \in 1..Len(q)+1 :
                 InsertAt(q, n, x)[i] = IF i < n THEN q[i] ELSE IF i = n THEN x ELSE q[i-1]
<1> DEFINE a == SubSeq(q, 1, n-1)
           b == SubSeq(q, n, Len(q))
           ax == Append(a, x)
<1>0. Len(q) \in Nat /\ n \in Nat /\ n >= 1 /\ n <= Len(q) + 1
  BY LenProperties
<1>1. a \in Seq(S) /\ Len(a) = n-1 /\ \A i \in 1..n-1 : a[i] = q[i]
  BY <1>0, SubSeqProperties, n-1 \in Nat, SMTT(30)
<1>2. b \in Seq(S) /\ Len(b) = Len(q)-n+1 /\ \A i \in 1..Len(q)-n+1 : b[i] = q[n+i-1]
  BY <1>0, SubSeqProperties, SMTT(30)
<1> HIDE DEF a, b
<1>3. /\ ax \in Seq(S) /\ Len(ax) = n
      /\ \A i \in 1..n-1 : ax[i] = q[i]
      /\ ax[n] = x /\ ax = a \o <<x>>
  BY <1>0, <1>1, AppendProperties, AppendIsConcat, SMTT(30)
<1> HIDE DEF ax
<1> DEFINE r == ax \o b
<1>4. /\ r \in Seq(S) /\ Len(r) = Len(q) + 1
      /\ \A i \in 1..Len(q)+1 : r[i] = IF i <= n THEN ax[i] ELSE b[i - n]
  <2>1. /\ ax \o b \in Seq(S)
        /\ Len(ax \o b) = Len(ax) + Len(b)
        /\ \A i \in 1..Len(ax)+Len(b) :
              (ax \o b)[i] = IF i <= Len(ax) THEN ax[i] ELSE b[i - Len(ax)]
    BY <1>2, <1>3, ConcatProperties, Zenon
  <2>2. Len(ax) = n /\ Len(ax) + Len(b) = Len(q) + 1
    BY <1>0, <1>2, <1>3
  <2> QED BY <2>1, <2>2
<1> HIDE DEF r
<1>5. ASSUME NEW i \in 1..Len(q)+1
      PROVE  r[i] = IF i < n THEN q[i] ELSE IF i = n THEN x ELSE q[i-1]
  <2>1. CASE i < n
    <3>1. i \in 1..n-1 /\ i <= n
      BY <1>0, <2>1
    <3>2. r[i] = ax[i] /\ ax[i] = q[i]
      BY <1>3, <1>4, <3>1
    <3> QED BY <2>1, <3>2
  <2>2. CASE i = n
    BY <1>0, <1>3, <1>4, <2>2
  <2>3. CASE i > n
    <3>1. i - n \in 1..Len(q)-n+1 /\ n + (i - n) - 1 = i - 1 /\ r[i] = b[i - n]
      BY <1>0, <1>4, <2>3
    <3> QED BY <1>2, <2>3, <3>1
  <2> QED BY <1>0, <2>1, <2>2, <2>3
<1>6. InsertAt(q, n, x) = r
  BY <1>3 DEF InsertAt, a, b, r
<1> QED BY <1>4, <1>5, <1>6

\* What RemoveAt leaves: the elements before and after the position.
LEMMA RemoveAtElements ==
    ASSUME NEW S, NEW q \in Seq(S), NEW n \in 1..Len(q)
    PROVE  /\ RemoveAt(q, n) \in Seq(S)
           /\ Len(RemoveAt(q, n)) = Len(q) - 1
           /\ \A i \in 1..Len(q)-1 :
                 RemoveAt(q, n)[i] = IF i < n THEN q[i] ELSE q[i+1]
<1> DEFINE a == SubSeq(q, 1, n-1)
           b == SubSeq(q, n+1, Len(q))
<1>0. Len(q) \in Nat /\ n \in Nat /\ n >= 1 /\ n <= Len(q)
  BY LenProperties
<1>1. a \in Seq(S) /\ Len(a) = n-1 /\ \A i \in 1..n-1 : a[i] = q[i]
  BY <1>0, SubSeqProperties, n-1 \in Nat, SMTT(30)
<1>2. b \in Seq(S) /\ Len(b) = Len(q)-n /\ \A i \in 1..Len(q)-n : b[i] = q[n+i]
  BY <1>0, SubSeqProperties, SMTT(30)
<1> HIDE DEF a, b
<1>3. /\ a \o b \in Seq(S)
      /\ Len(a \o b) = Len(q) - 1
      /\ \A i \in 1..Len(q)-1 : (a \o b)[i] = IF i < n THEN q[i] ELSE q[i+1]
  <2>1. /\ a \o b \in Seq(S)
        /\ Len(a \o b) = Len(a) + Len(b)
        /\ \A i \in 1..Len(a)+Len(b) :
              (a \o b)[i] = IF i <= Len(a) THEN a[i] ELSE b[i - Len(a)]
    BY <1>1, <1>2, ConcatProperties, Zenon
  <2>2. ASSUME NEW i \in 1..Len(q)-1
        PROVE  (a \o b)[i] = IF i < n THEN q[i] ELSE q[i+1]
    <3>1. CASE i < n
      BY <1>0, <1>1, <1>2, <2>1, <3>1
    <3>2. CASE ~ i < n
      <4>1. /\ i - (n-1) \in 1..Len(q)-n /\ n + (i - (n-1)) = i + 1
            /\ (a \o b)[i] = b[i - (n-1)]
        BY <1>0, <1>1, <1>2, <2>1, <3>2
      <4> QED BY <1>2, <3>2, <4>1
    <3> QED BY <3>1, <3>2
  <2> QED BY <1>0, <1>1, <1>2, <2>1, <2>2
<1> QED BY <1>3 DEF RemoveAt, a, b

\* n is the place of the first x in q.
FirstAt(q, x, n) == n \in 1..Len(q) /\ q[n] = x /\ \A j \in 1..n-1 : q[j] # x

\* list.remove takes the first of the elements that are x.
LEMMA WithoutElements ==
    ASSUME NEW S, NEW q \in Seq(S), NEW x, Contains(q, x)
    PROVE  \E n \in 1..Len(q) :
              /\ FirstAt(q, x, n)
              /\ Without(q, x) \in Seq(S)
              /\ Len(Without(q, x)) = Len(q) - 1
              /\ \A i \in 1..Len(q)-1 :
                    Without(q, x)[i] = IF i < n THEN q[i] ELSE q[i+1]
<1> DEFINE P(i) == q[i] = x /\ \A j \in 1..i-1 : q[j] # x
           n == CHOOSE i \in 1..Len(q) : P(i)
           T == {i \in 1..Len(q) : q[i] = x}
<1>1. T # {} /\ T \subseteq Nat
  BY DEF Contains
<1>2. PICK m \in T : \A k \in T : m <= k
  BY <1>1, LeastOf, Zenon
<1>3. m \in 1..Len(q) /\ P(m)
  BY <1>2, LenProperties
<1>4. n \in 1..Len(q) /\ P(n)
  BY <1>3, Zenon
<1>5. Without(q, x) = RemoveAt(q, n)
  BY Zenon DEF Without
<1> HIDE DEF n
<1>6. FirstAt(q, x, n)
  BY <1>4 DEF FirstAt
<1>7. /\ n \in 1..Len(q) /\ RemoveAt(q, n) \in Seq(S)
      /\ Len(RemoveAt(q, n)) = Len(q) - 1
      /\ \A i \in 1..Len(q)-1 : RemoveAt(q, n)[i] = IF i < n THEN q[i] ELSE q[i+1]
  BY <1>4, RemoveAtElements, Zenon
<1> QED BY <1>5, <1>6, <1>7, Zenon

\* Removing a handler leaves a list of handlers.
LEMMA WithoutType ==
    ASSUME NEW S, NEW q \in Seq(S), NEW x
    PROVE  Without(q, x) \in Seq(S)
<1>1. CASE Contains(q, x)
  BY <1>1, WithoutElements, Zenon
<1>2. CASE ~ Contains(q, x)
  BY <1>2, Zenon DEF Without
<1> QED BY <1>1, <1>2

\* Adding one does too.
LEMMA PlacedType ==
    ASSUME NEW q \in Seq(Handler), NEW x \in Handler
    PROVE  Placed(q, x) \in Seq(Handler)
<1> DEFINE before == {i \in 1..Len(q) : Priority[q[i]] <= Priority[x]}
           n == Cardinality(before) + 1
<1>1. Len(q) \in Nat
  BY LenProperties
<1>2. IsFiniteSet(1..Len(q)) /\ Cardinality(1..Len(q)) = Len(q)
  BY <1>1, FS_Interval
<1>3. before \in SUBSET (1..Len(q))
  OBVIOUS
<1> HIDE DEF before
<1>4. IsFiniteSet(before) /\ Cardinality(before) <= Len(q)
  BY <1>2, <1>3, FS_Subset
<1>5. n \in 1..Len(q)+1
  BY <1>1, <1>4, FS_CardinalityType
<1>6. Placed(q, x) = InsertAt(q, n, x)
  BY DEF Placed, before
<1> HIDE DEF n
<1> QED BY <1>5, <1>6, InsertAtElements

-----------------------------------------------------------------------------
(* The list is a stable arrangement of the registrations.                   *)

\* Position j of o comes before position k.
Precedes(o, j, k) ==
    \/ Priority[o[j]] < Priority[o[k]]
    \/ Priority[o[j]] = Priority[o[k]] /\ j < k

\* p says which registration each position of h is.
Arranges(p, h, o) ==
    /\ p \in [1..Len(h) -> 1..Len(o)]
    /\ \A k \in 1..Len(o) : \E i \in 1..Len(h) : p[i] = k
    /\ \A i \in 1..Len(h) : h[i] = o[p[i]]
    /\ \A i, j \in 1..Len(h) : i < j => Precedes(o, p[i], p[j])

Arranged(h, o) == \E p : Arranges(p, h, o)

\* A handler placed into the list goes with one registered last.
LEMMA PlacedArranged ==
    ASSUME NEW h \in Seq(Handler), NEW o \in Seq(Handler), NEW x \in Handler,
           Arranged(h, o)
    PROVE  /\ Placed(h, x) \in Seq(Handler)
           /\ Arranged(Placed(h, x), Append(o, x))
<1>0. /\ Len(h) \in Nat /\ Len(o) \in Nat
      /\ \A i \in 1..Len(h) : Priority[h[i]] \in Int
      /\ \A i \in 1..Len(o) : Priority[o[i]] \in Int
      /\ Priority[x] \in Int
  BY RouterAssumption, ElementOfSeq, LenProperties
<1>1. PICK p : Arranges(p, h, o)
  BY DEF Arranged
<1>2. /\ \A i \in 1..Len(h) : p[i] \in 1..Len(o) /\ h[i] = o[p[i]]
      /\ \A k \in 1..Len(o) : \E i \in 1..Len(h) : p[i] = k
      /\ \A i, j \in 1..Len(h) : i < j => Precedes(o, p[i], p[j])
  BY <1>1 DEF Arranges
<1>3. \A i, j \in 1..Len(h) : i < j => Priority[h[i]] <= Priority[h[j]]
  <2> SUFFICES ASSUME NEW i \in 1..Len(h), NEW j \in 1..Len(h), i < j
               PROVE  Priority[h[i]] <= Priority[h[j]]
    OBVIOUS
  <2>1. Precedes(o, p[i], p[j]) /\ h[i] = o[p[i]] /\ h[j] = o[p[j]]
    BY <1>2
  <2>2. Priority[h[i]] \in Int /\ Priority[h[j]] \in Int
    BY <1>0
  <2> QED BY <2>1, <2>2 DEF Precedes
<1> DEFINE T == {k \in 1..Len(h)+1 : k = Len(h) + 1 \/ Priority[h[k]] > Priority[x]}
           before == {i \in 1..Len(h) : Priority[h[i]] <= Priority[x]}
<1>4. T \subseteq Nat /\ T # {}
  BY <1>0
<1>5. PICK n \in T : \A k \in T : n <= k
  BY <1>4, LeastOf, Zenon
<1>6. /\ n \in 1..Len(h)+1
      /\ \A i \in 1..Len(h) : i < n => Priority[h[i]] <= Priority[x]
      /\ \A i \in 1..Len(h) : n <= i => Priority[x] < Priority[h[i]]
  <2>1. n \in 1..Len(h)+1 /\ (n = Len(h) + 1 \/ Priority[h[n]] > Priority[x])
    BY <1>5
  <2>2. ASSUME NEW i \in 1..Len(h), i < n PROVE Priority[h[i]] <= Priority[x]
    BY <1>0, <1>5, <2>1, <2>2
  <2>3. ASSUME NEW i \in 1..Len(h), n <= i PROVE Priority[x] < Priority[h[i]]
    <3>1. n \in 1..Len(h) /\ Priority[x] < Priority[h[n]]
      BY <1>0, <2>1, <2>3
    <3> QED BY <1>0, <1>3, <2>3, <3>1
  <2> QED BY <2>1, <2>2, <2>3
<1> HIDE DEF T
<1>7. Cardinality(before) + 1 = n
  <2>1. before = 1..n-1
    <3> SUFFICES ASSUME NEW i PROVE i \in before <=> i \in 1..n-1
      BY Zenon
    <3>1. i \in 1..n-1 <=> i \in 1..Len(h) /\ i < n
      BY <1>0, <1>6
    <3>2. ASSUME i \in 1..Len(h), ~ i < n PROVE ~ Priority[h[i]] <= Priority[x]
      <4>1. Priority[x] < Priority[h[i]] /\ Priority[x] \in Int /\ Priority[h[i]] \in Int
        BY <1>0, <1>6, <3>2
      <4> QED BY <4>1
    <3> QED BY <1>6, <3>1, <3>2, Zenon
  <2>2. n \in Nat /\ n-1 \in Nat /\ 1 \in Int
    BY <1>0, <1>6
  <2>3. Cardinality(1..n-1) = n-1
    BY <2>2, FS_Interval
  <2> HIDE DEF before
  <2> QED BY <2>1, <2>2, <2>3
<1> DEFINE g == Placed(h, x)
<1>8. g = InsertAt(h, n, x)
  <2>1. g = InsertAt(h, Cardinality(before) + 1, x)
    BY Zenon DEF Placed
  <2> HIDE DEF g, before
  <2> QED BY <1>7, <2>1, Zenon
<1> HIDE DEF g, before
<1>9. /\ g \in Seq(Handler) /\ Len(g) = Len(h) + 1
      /\ \A i \in 1..Len(h)+1 :
            g[i] = IF i < n THEN h[i] ELSE IF i = n THEN x ELSE h[i-1]
  <2>1. n \in 1..Len(h)+1
    BY <1>6
  <2>2. /\ InsertAt(h, n, x) \in Seq(Handler) /\ Len(InsertAt(h, n, x)) = Len(h) + 1
        /\ \A i \in 1..Len(h)+1 :
              InsertAt(h, n, x)[i] = IF i < n THEN h[i] ELSE IF i = n THEN x ELSE h[i-1]
    BY <2>1, InsertAtElements, SMTT(30)
  <2> QED BY <1>8, <2>2, Zenon
<1> DEFINE a == Append(o, x)
<1>10. /\ Len(a) = Len(o) + 1
       /\ \A k \in 1..Len(o) : a[k] = o[k]
       /\ a[Len(o) + 1] = x
  BY <1>0, AppendProperties
<1> HIDE DEF a
<1> DEFINE r == [i \in 1..Len(h)+1 |->
                    IF i < n THEN p[i] ELSE IF i = n THEN Len(o) + 1 ELSE p[i-1]]
<1>11. ASSUME NEW i \in 1..Len(g)
       PROVE  /\ i < n => i \in 1..Len(h) /\ r[i] = p[i] /\ g[i] = h[i]
              /\ i = n => r[i] = Len(o) + 1 /\ g[i] = x
              /\ i > n => i-1 \in 1..Len(h) /\ r[i] = p[i-1] /\ g[i] = h[i-1]
  <2>1. Len(h) \in Nat /\ n \in 1..Len(h)+1 /\ i \in 1..Len(h)+1
    BY <1>0, <1>6, <1>9
  <2>2. r[i] = IF i < n THEN p[i] ELSE IF i = n THEN Len(o) + 1 ELSE p[i-1]
    BY <2>1
  <2>3. g[i] = IF i < n THEN h[i] ELSE IF i = n THEN x ELSE h[i-1]
    BY <1>9, <2>1, Zenon
  <2> HIDE DEF r
  <2> QED BY <2>1, <2>2, <2>3
<1> HIDE DEF r
<1>12. ASSUME NEW i \in 1..Len(g)
       PROVE  r[i] \in 1..Len(a) /\ g[i] = a[r[i]]
  <2>0. \A k \in 1..Len(h) : p[k] \in 1..Len(a) /\ h[k] = a[p[k]]
    <3> SUFFICES ASSUME NEW k \in 1..Len(h)
                 PROVE  p[k] \in 1..Len(a) /\ h[k] = a[p[k]]
      OBVIOUS
    <3>1. p[k] \in 1..Len(o) /\ h[k] = o[p[k]]
      BY <1>2
    <3>2. a[p[k]] = o[p[k]]
      BY <1>10, <3>1
    <3> QED BY <1>0, <1>10, <3>1, <3>2
  <2>1. CASE i < n
    BY <1>11, <2>0, <2>1
  <2>2. CASE i = n
    BY <1>0, <1>10, <1>11, <2>2
  <2>3. CASE i > n
    BY <1>11, <2>0, <2>3
  <2> QED BY <1>0, <1>6, <1>9, <2>1, <2>2, <2>3
<1>13. ASSUME NEW k \in 1..Len(a) PROVE \E i \in 1..Len(g) : r[i] = k
  <2>1. CASE k = Len(o) + 1
    BY <1>0, <1>6, <1>9, <1>11, <2>1
  <2>2. CASE k \in 1..Len(o)
    <3>1. PICK i \in 1..Len(h) : p[i] = k
      BY <1>2, <2>2
    <3>2. CASE i < n
      <4>1. i \in 1..Len(g)
        BY <1>0, <1>9
      <4> QED BY <1>11, <3>1, <3>2, <4>1
    <3>3. CASE i >= n
      <4>1. i+1 \in 1..Len(g) /\ i+1 > n /\ (i+1)-1 = i
        BY <1>0, <1>6, <1>9, <3>3
      <4> QED BY <1>11, <3>1, <4>1
    <3> QED BY <1>0, <1>6, <3>2, <3>3
  <2> QED BY <1>0, <1>10, <2>1, <2>2
<1>14. ASSUME NEW i \in 1..Len(g), NEW j \in 1..Len(g), i < j
       PROVE  Precedes(a, r[i], r[j])
  <2>0. i \in Nat /\ j \in Nat /\ n \in Nat
    BY <1>0, <1>6, <1>9
  <2>1. ASSUME NEW k \in 1..Len(o), NEW l \in 1..Len(o), Precedes(o, k, l)
        PROVE  Precedes(a, k, l)
    BY <1>10, <2>1 DEF Precedes
  <2>2. CASE i = n
    <3>1. j-1 \in 1..Len(h) /\ n <= j-1 /\ r[j] = p[j-1] /\ r[i] = Len(o)+1
      BY <1>11, <1>14, <2>0, <2>2
    <3>2. /\ Priority[x] < Priority[h[j-1]] /\ h[j-1] = o[p[j-1]]
          /\ p[j-1] \in 1..Len(o)
      BY <1>2, <1>6, <3>1
    <3> QED BY <1>10, <3>1, <3>2 DEF Precedes
  <2>3. CASE j = n
    <3>1. i \in 1..Len(h) /\ i < n /\ r[i] = p[i] /\ r[j] = Len(o)+1
      BY <1>11, <1>14, <2>0, <2>3
    <3>2. Priority[h[i]] <= Priority[x] /\ h[i] = o[p[i]] /\ p[i] \in 1..Len(o)
      BY <1>2, <1>6, <3>1
    <3> QED BY <1>0, <1>10, <3>1, <3>2 DEF Precedes
  <2>4. CASE i # n /\ j # n
    <3>1. \E s, u \in 1..Len(h) : s < u /\ r[i] = p[s] /\ r[j] = p[u]
      BY <1>11, <1>14, <2>0, <2>4
    <3> QED BY <1>2, <2>1, <3>1
  <2> QED BY <2>2, <2>3, <2>4
<1>15. r \in [1..Len(g) -> 1..Len(a)]
  <2>1. r = [i \in 1..Len(g) |-> r[i]]
    BY <1>9 DEF r
  <2> QED BY <1>12, <2>1
<1>16. Arranges(r, g, a)
  BY <1>12, <1>13, <1>14, <1>15 DEF Arranges
<1>17. Arranged(g, a)
  BY <1>16 DEF Arranged
<1> QED BY <1>9, <1>17 DEF g, a

\* The first x of the list is the first that was registered: both go.
LEMMA WithoutArranged ==
    ASSUME NEW h \in Seq(Handler), NEW o \in Seq(Handler), NEW x, Arranged(h, o)
    PROVE  /\ Without(h, x) \in Seq(Handler) /\ Without(o, x) \in Seq(Handler)
           /\ Arranged(Without(h, x), Without(o, x))
<1>0. Len(h) \in Nat /\ Len(o) \in Nat /\ \A i \in 1..Len(o) : Priority[o[i]] \in Int
  BY RouterAssumption, ElementOfSeq, LenProperties
<1>1. PICK p : Arranges(p, h, o)
  BY DEF Arranged
<1>2. /\ \A i \in 1..Len(h) : p[i] \in 1..Len(o) /\ h[i] = o[p[i]]
      /\ \A k \in 1..Len(o) : \E i \in 1..Len(h) : p[i] = k
      /\ \A i, j \in 1..Len(h) : i < j => Precedes(o, p[i], p[j])
  BY <1>1 DEF Arranges
<1>3. Contains(h, x) <=> Contains(o, x)
  <2>1. ASSUME Contains(h, x) PROVE Contains(o, x)
    <3>1. PICK i \in 1..Len(h) : h[i] = x
      BY <2>1, Zenon DEF Contains
    <3>2. p[i] \in 1..Len(o) /\ o[p[i]] = x
      BY <1>2, <3>1
    <3> QED BY <3>2, Zenon DEF Contains
  <2>2. ASSUME Contains(o, x) PROVE Contains(h, x)
    <3>1. PICK k \in 1..Len(o) : o[k] = x
      BY <2>2, Zenon DEF Contains
    <3>2. PICK i \in 1..Len(h) : p[i] = k
      BY <1>2
    <3>3. h[i] = x
      BY <1>2, <3>1, <3>2
    <3> QED BY <3>3, Zenon DEF Contains
  <2> QED BY <2>1, <2>2
<1>4. CASE ~ Contains(h, x)
  BY <1>3, <1>4, Zenon DEF Without
<1>5. CASE Contains(h, x)
  <2> DEFINE g == Without(h, x)
             a == Without(o, x)
  <2>1. PICK n \in 1..Len(h) :
            /\ FirstAt(h, x, n)
            /\ g \in Seq(Handler) /\ Len(g) = Len(h) - 1
            /\ \A i \in 1..Len(h)-1 : g[i] = IF i < n THEN h[i] ELSE h[i+1]
    BY <1>5, WithoutElements, Zenon
  <2>2. PICK m \in 1..Len(o) :
            /\ FirstAt(o, x, m)
            /\ a \in Seq(Handler) /\ Len(a) = Len(o) - 1
            /\ \A i \in 1..Len(o)-1 : a[i] = IF i < m THEN o[i] ELSE o[i+1]
    BY <1>3, <1>5, WithoutElements, Zenon
  <2> HIDE DEF g, a
  <2>3. p[n] = m
    <3>1. PICK i \in 1..Len(h) : p[i] = m
      BY <1>2
    <3>2. h[i] = x /\ h[n] = x /\ o[p[n]] = x /\ o[m] = x /\ p[n] \in 1..Len(o)
      BY <1>2, <2>1, <2>2, <3>1 DEF FirstAt
    <3>3. i >= n /\ p[n] >= m
      BY <1>0, <2>1, <2>2, <3>2 DEF FirstAt
    <3>4. ~ n < i
      <4>1. SUFFICES ASSUME n < i PROVE FALSE
        OBVIOUS
      <4>2. Precedes(o, p[n], m)
        BY <1>2, <3>1, <4>1
      <4> QED BY <1>0, <3>2, <3>3, <4>2 DEF Precedes
    <3> QED BY <1>0, <3>1, <3>3, <3>4
  <2>4. ASSUME NEW i \in 1..Len(h), NEW j \in 1..Len(h), i # j PROVE p[i] # p[j]
    <3>1. Precedes(o, p[i], p[j]) \/ Precedes(o, p[j], p[i])
      BY <1>0, <1>2, <2>4
    <3>2. p[i] \in 1..Len(o) /\ p[j] \in 1..Len(o)
      BY <1>2
    <3> QED BY <1>0, <3>1, <3>2 DEF Precedes
  \* Where a position after the removal was before it, and the reverse.
  <2> DEFINE s(i) == IF i < n THEN i ELSE i + 1
             d(k) == IF k < m THEN k ELSE k - 1
             r == [i \in 1..Len(g) |-> d(p[s(i)])]
  <2>5. ASSUME NEW i \in 1..Len(g)
        PROVE  s(i) \in 1..Len(h) /\ s(i) # n /\ g[i] = h[s(i)]
    BY <1>0, <2>1
  <2>6. ASSUME NEW k \in 1..Len(o), k # m
        PROVE  d(k) \in 1..Len(a) /\ a[d(k)] = o[k]
    <3>1. CASE k < m
      BY <1>0, <2>2, <3>1
    <3>2. CASE k > m
      <4>1. k-1 \in 1..Len(o)-1 /\ ~ k-1 < m /\ (k-1)+1 = k /\ ~ k < m
        BY <1>0, <3>2
      <4> QED BY <2>2, <4>1
    <3> QED BY <1>0, <2>6, <3>1, <3>2
  <2>7. ASSUME NEW i \in 1..Len(g)
        PROVE  /\ r[i] = d(p[s(i)]) /\ r[i] \in 1..Len(a) /\ g[i] = a[r[i]]
               /\ p[s(i)] \in 1..Len(o) /\ p[s(i)] # m
    <3>1. p[s(i)] \in 1..Len(o) /\ p[s(i)] # m /\ h[s(i)] = o[p[s(i)]]
      BY <1>2, <2>3, <2>4, <2>5
    <3>2. r[i] = d(p[s(i)])
      OBVIOUS
    <3> HIDE DEF r, s, d
    <3> QED BY <2>5, <2>6, <3>1, <3>2
  <2>8. ASSUME NEW k \in 1..Len(a) PROVE \E i \in 1..Len(g) : r[i] = k
    <3> DEFINE u == IF k < m THEN k ELSE k + 1
    <3>1. u \in 1..Len(o) /\ u # m /\ d(u) = k
      BY <1>0, <2>2
    <3>2. PICK j \in 1..Len(h) : p[j] = u
      BY <1>2, <3>1
    <3>3. j # n
      BY <2>3, <3>1, <3>2
    <3>4. PICK i \in 1..Len(g) : s(i) = j
      <4>1. CASE j < n
        <5>1. j \in 1..Len(g) /\ s(j) = j
          BY <1>0, <2>1, <4>1
        <5> QED BY <5>1
      <4>2. CASE j > n
        <5>1. j-1 \in 1..Len(g) /\ s(j-1) = j
          BY <1>0, <2>1, <4>2
        <5> QED BY <5>1
      <4>3. j < n \/ j > n
        BY <1>0, <2>1, <3>3
      <4> HIDE DEF s
      <4> QED BY <4>1, <4>2, <4>3, Zenon
    <3>5. r[i] = d(p[s(i)])
      BY <2>7
    <3> QED BY <3>1, <3>2, <3>4, <3>5
  <2>9. ASSUME NEW k \in 1..Len(o), NEW l \in 1..Len(o), k # m, l # m, Precedes(o, k, l)
        PROVE  Precedes(a, d(k), d(l))
    <3>1. a[d(k)] = o[k] /\ a[d(l)] = o[l]
      BY <2>6, <2>9
    <3>2. k < l => d(k) < d(l)
      BY <1>0, <2>9
    <3> HIDE DEF d
    <3> QED BY <2>9, <3>1, <3>2 DEF Precedes
  <2>10. ASSUME NEW i \in 1..Len(g), NEW j \in 1..Len(g), i < j
         PROVE  Precedes(a, r[i], r[j])
    <3>1. s(i) < s(j) /\ s(i) \in 1..Len(h) /\ s(j) \in 1..Len(h)
      BY <1>0, <2>1, <2>5, <2>10
    <3>2. Precedes(o, p[s(i)], p[s(j)])
      BY <1>2, <3>1
    <3> HIDE DEF r, s, d
    <3> QED BY <2>7, <2>9, <3>2
  <2>11. r \in [1..Len(g) -> 1..Len(a)]
    <3> HIDE DEF d, s
    <3> QED BY <2>7
  <2> HIDE DEF r, s, d
  <2>12. Arranges(r, g, a)
    BY <2>7, <2>8, <2>10, <2>11 DEF Arranges
  <2>13. Arranged(g, a)
    BY <2>12 DEF Arranged
  <2> QED BY <2>1, <2>2, <2>13 DEF g, a
<1> QED BY <1>4, <1>5

\* The first of an arrangement that stops a message comes before all others.
LEMMA ArrangedAnswers ==
    ASSUME Arranged(handlers, order), RouterTypeOK
    PROVE  AnsweredByPriority
<1> SUFFICES ASSUME NEW m \in Message
             PROVE  LET able == {i \in 1..Len(order) : Stops(order[i], m)}
                        Ahead(i, j) == \/ Priority[order[i]] < Priority[order[j]]
                                       \/ Priority[order[i]] = Priority[order[j]] /\ i <= j
                    IN  IF able = {} THEN Chosen(m) = None
                        ELSE \E i \in able : Chosen(m) = order[i]
                                             /\ \A j \in able : Ahead(i, j)
  BY DEF AnsweredByPriority
<1> DEFINE able == {i \in 1..Len(order) : Stops(order[i], m)}
           stop == {i \in 1..Len(handlers) : Stops(handlers[i], m)}
           first == CHOOSE i \in stop : \A j \in stop : i <= j
<1>0. Len(handlers) \in Nat /\ Len(order) \in Nat
  BY LenProperties DEF RouterTypeOK
<1>1. PICK p : Arranges(p, handlers, order)
  BY DEF Arranged
<1>2. /\ \A i \in 1..Len(handlers) : p[i] \in 1..Len(order) /\ handlers[i] = order[p[i]]
      /\ \A k \in 1..Len(order) : \E i \in 1..Len(handlers) : p[i] = k
      /\ \A i, j \in 1..Len(handlers) : i < j => Precedes(order, p[i], p[j])
  BY <1>1 DEF Arranges
<1>3. /\ \A i \in stop : p[i] \in able /\ handlers[i] = order[p[i]]
      /\ \A k \in able : \E i \in stop : p[i] = k
  BY <1>2
<1>4. CASE able = {}
  <2>1. stop = {}
    BY <1>3, <1>4
  <2>2. Chosen(m) = None
    BY <2>1, Zenon DEF Chosen
  <2> QED BY <1>4, <2>2
<1>5. CASE able # {}
  <2>1. stop # {} /\ stop \subseteq Nat
    BY <1>3, <1>5
  <2>2. \E i \in stop : \A j \in stop : i <= j
    <3> HIDE DEF stop
    <3> QED BY <2>1, LeastOf, Zenon
  <2>3. first \in stop /\ \A j \in stop : first <= j
    <3> HIDE DEF stop
    <3> QED BY <2>2, Zenon
  <2>4. Chosen(m) = handlers[first]
    BY <2>1, Zenon DEF Chosen
  <2> HIDE DEF first
  <2>5. p[first] \in able /\ Chosen(m) = order[p[first]]
    BY <1>3, <2>3, <2>4
  <2>6. ASSUME NEW k \in able
        PROVE  \/ Priority[order[p[first]]] < Priority[order[k]]
               \/ Priority[order[p[first]]] = Priority[order[k]] /\ p[first] <= k
    <3>1. PICK i \in stop : p[i] = k
      BY <1>3
    <3>2. CASE i = first
      BY <1>0, <3>1, <3>2
    <3>3. CASE first < i
      <4>1. Precedes(order, p[first], k)
        BY <1>2, <2>3, <3>1, <3>3
      <4>2. p[first] \in Nat /\ k \in Nat
        BY <2>5
      <4> QED BY <4>1, <4>2 DEF Precedes
    <3>4. first <= i /\ first \in Nat /\ i \in Nat
      BY <2>1, <2>3
    <3> QED BY <3>2, <3>3, <3>4
  <2> QED BY <1>5, <2>5, <2>6
<1> QED BY <1>4, <1>5

\* The list and the registrations stay sequences of handlers, the one a stable
\* arrangement of the other.
RouterInv == RouterTypeOK /\ Arranged(handlers, order)

\* The default handlers are in order.
LEMMA RouterInvInit == RouterInit => RouterInv
<1> SUFFICES ASSUME RouterInit PROVE RouterInv
  OBVIOUS
<1>1. /\ handlers = <<Ping, Health, Echo>> /\ order = handlers
      /\ handlers \in Seq(Handler) /\ Len(handlers) = 3
      /\ handlers[1] = Ping /\ handlers[2] = Health /\ handlers[3] = Echo
  BY DEF RouterInit, Handler
<1>2. Arranges([i \in 1..3 |-> i], handlers, order)
  BY <1>1, RouterAssumption DEF Arranges, Precedes
<1> QED BY <1>1, <1>2 DEF RouterInv, RouterTypeOK, Arranged

\* A step that leaves the router alone keeps its invariant.
LEMMA RouterInvKept ==
    ASSUME NEW h \in Handler, RouterInv, Register(h) \/ Unregister(h)
    PROVE  RouterInv'
<1>1. CASE Register(h)
  BY <1>1, PlacedArranged, AppendProperties DEF RouterInv, RouterTypeOK, Register
<1>2. CASE Unregister(h)
  BY <1>2, WithoutArranged DEF RouterInv, RouterTypeOK, Unregister
<1> QED BY <1>1, <1>2
=============================================================================
