------------------------ MODULE MotionProfile_proofs ------------------------
(****************************************************************************)
(* Machine-checked proofs about MotionProfile, for any limits, targets,     *)
(* ramp times, jerk ratios and step counts: not only for inputs that        *)
(* leave the arithmetic exact.                                              *)
(****************************************************************************)
EXTENDS MotionProfile, TLAPS

-----------------------------------------------------------------------------
(* Division that rounds down.                                               *)

\* The rest is not negative, and less than the divisor.
LEMMA Quotient ==
    ASSUME NEW a \in Int, NEW b \in Nat \ {0}
    PROVE  /\ a \div b \in Int
           /\ b * (a \div b) <= a
           /\ a < b * (a \div b) + b
  BY SMT

\* A larger number goes in at least as often.
LEMMA QuotientGrows ==
    ASSUME NEW a \in Int, NEW b \in Int, NEW d \in Nat \ {0}, a <= b
    PROVE  a \div d <= b \div d
<1>1. /\ a \div d \in Int /\ b \div d \in Int
      /\ d * (a \div d) <= a
      /\ b < d * (b \div d) + d
  BY Quotient
<1> DEFINE q == a \div d
           r == b \div d
<1>2. q \in Int /\ r \in Int /\ d * q < d * r + d
  BY <1>1, SMT
<1> HIDE DEF q, r
<1>3. d * q < d * (r + 1)
  BY <1>2
<1>4. q < r + 1
  BY <1>2, <1>3
<1> QED  BY <1>2, <1>4 DEF q, r

-----------------------------------------------------------------------------
(* The phases of a profile.                                                 *)

\* Three phases, a cruise or none, and three phases, one after the other.
LEMMA SixInARow ==
    ASSUME NEW x, NEW y, NEW z, NEW u, NEW v, NEW w
    PROVE  LET s == (<<x, y, z>> \o <<>>) \o <<u, v, w>>
           IN  /\ Len(s) = 6 /\ s[1] = x /\ s[2] = y /\ s[3] = z
               /\ s[4] = u /\ s[5] = v /\ s[6] = w
  OBVIOUS

\* With a cruise.
LEMMA SevenInARow ==
    ASSUME NEW x, NEW y, NEW z, NEW c, NEW u, NEW v, NEW w
    PROVE  LET s == (<<x, y, z>> \o <<c>>) \o <<u, v, w>>
           IN  /\ Len(s) = 7 /\ s[1] = x /\ s[2] = y /\ s[3] = z /\ s[4] = c
               /\ s[5] = u /\ s[6] = v /\ s[7] = w
  OBVIOUS

\* What calculate_s_curve_profile puts together.
LEMMA PhasesAre ==
    ASSUME NEW p \in Params
    PROVE  LET low == p.limits.low
               top == Clamped(p)
               up == Durations(p.accel, p.jerk)
               down == Durations(p.decel, p.jerk)
               ramp == Acceleration(up, low, top)
               c == Cruise(p, ramp)
               n == Len(Phases(p))
           IN /\ n = 6 + Len(c)
              /\ Phases(p)[1] = Phase(up.jerk, low, Lower(low, top), "s")
              /\ Phases(p)[2] = Phase(up.constant, Lower(low, top), Upper(top), "linear")
              /\ Phases(p)[3] = Phase(up.jerk, Upper(top), top, "s")
              /\ Len(c) = 1 => Phases(p)[4] = c[1]
              /\ Phases(p)[n-2] = Phase(down.jerk, top, Upper(top), "s")
              /\ Phases(p)[n-1] = Phase(down.constant, Upper(top), Lower(low, top), "linear")
              /\ Phases(p)[n] = Phase(down.jerk, Lower(low, top), low, "s")
<1> DEFINE low == p.limits.low
           top == Clamped(p)
           ramp == Acceleration(Durations(p.accel, p.jerk), low, top)
           fall == Deceleration(Durations(p.decel, p.jerk), low, top)
           c == Cruise(p, ramp)
           n == Len(Phases(p))
<1>1. Phases(p) = (ramp \o c) \o fall
  BY DEF Phases
<1>2. PICK x, y, z : /\ ramp = <<x, y, z>>
                     /\ x = Phase(Durations(p.accel, p.jerk).jerk, low, Lower(low, top), "s")
                     /\ y = Phase(Durations(p.accel, p.jerk).constant,
                                  Lower(low, top), Upper(top), "linear")
                     /\ z = Phase(Durations(p.accel, p.jerk).jerk, Upper(top), top, "s")
  BY DEF Acceleration
<1>3. PICK u, v, w : /\ fall = <<u, v, w>>
                     /\ u = Phase(Durations(p.decel, p.jerk).jerk, top, Upper(top), "s")
                     /\ v = Phase(Durations(p.decel, p.jerk).constant,
                                  Upper(top), Lower(low, top), "linear")
                     /\ w = Phase(Durations(p.decel, p.jerk).jerk, Lower(low, top), low, "s")
  BY DEF Deceleration
<1>4. c = <<>> \/ \E q : c = <<q>>
  <2> HIDE DEF ramp
  <2> QED  BY DEF Cruise
<1> HIDE DEF ramp, fall, c
<1>5. CASE c = <<>>
  <2>1. Phases(p) = (<<x, y, z>> \o <<>>) \o <<u, v, w>>
    BY <1>1, <1>2, <1>3, <1>5
  <2>2. /\ n = 6 /\ Phases(p)[1] = x /\ Phases(p)[2] = y /\ Phases(p)[3] = z
        /\ Phases(p)[4] = u /\ Phases(p)[5] = v /\ Phases(p)[6] = w
    BY <2>1, SixInARow
  <2>3. Len(c) = 0
    BY <1>5
  <2> HIDE DEF n
  <2>4. n - 2 = 4 /\ n - 1 = 5
    BY <2>2
  <2> QED  BY <1>2, <1>3, <2>2, <2>3, <2>4 DEF n, c, ramp, low, top
<1>6. ASSUME NEW q, c = <<q>>
      PROVE  /\ n = 7 /\ Len(c) = 1 /\ c[1] = q /\ Phases(p)[4] = q
             /\ Phases(p)[1] = x /\ Phases(p)[2] = y /\ Phases(p)[3] = z
             /\ Phases(p)[5] = u /\ Phases(p)[6] = v /\ Phases(p)[7] = w
  <2>1. Phases(p) = (<<x, y, z>> \o <<q>>) \o <<u, v, w>>
    BY <1>1, <1>2, <1>3, <1>6
  <2>2. Len(c) = 1 /\ c[1] = q
    BY <1>6
  <2> QED  BY <2>1, <2>2, SevenInARow
<1>7. CASE \E q : c = <<q>>
  <2>1. /\ n = 7 /\ Len(c) = 1 /\ Phases(p)[4] = c[1]
        /\ Phases(p)[1] = x /\ Phases(p)[2] = y /\ Phases(p)[3] = z
        /\ Phases(p)[5] = u /\ Phases(p)[6] = v /\ Phases(p)[7] = w
    BY <1>6, <1>7
  <2> HIDE DEF n
  <2>2. n - 2 = 5 /\ n - 1 = 6
    BY <2>1
  <2>3. /\ Phases(p)[n-2] = u /\ Phases(p)[n-1] = v /\ Phases(p)[n] = w
        /\ n = 6 + Len(c)
    BY <2>1, <2>2
  <2> QED  BY <1>2, <1>3, <2>1, <2>3 DEF n, c, ramp, low, top
<1> QED  BY <1>4, <1>5, <1>7

\* What MotionAssumption says of one input.
LEMMA InputTypes ==
    ASSUME NEW p \in Params
    PROVE  /\ p.limits.low \in Nat /\ p.limits.high \in Nat /\ p.limits.low <= p.limits.high
           /\ p.target \in Nat /\ p.accel \in Nat /\ p.decel \in Nat
           /\ p.jerk \in 0..100 /\ p.steps \in Nat
  BY MotionAssumption DEF Params

\* The target is brought within the calculator's limits.
LEMMA TargetWithinLimits ==
    ASSUME NEW p \in Params
    PROVE  Clamped(p) \in Nat /\ Clamped(p) >= p.limits.low /\ Clamped(p) <= p.limits.high
  BY InputTypes DEF Clamped, Larger, Smaller

\* No phase of a ramp has the duration zero.
LEMMA RampsTakeTime ==
    ASSUME NEW time \in Nat, NEW jerk \in 0..100
    PROVE  LET d == Durations(time, jerk) IN d.jerk \in Nat \ {0} /\ d.constant \in Nat \ {0}
<1>1. (time * jerk) \div 100 \in Int /\ (time * (100 - 2 * jerk)) \div 100 \in Int
  BY Quotient
<1> QED  BY <1>1 DEF Durations, Larger, Shortest

\* A ramp turns first between the minimum and the target, and then at 0.8 of the
\* target, which may be below the minimum.
LEMMA TurningPoints ==
    ASSUME NEW low \in Nat, NEW top \in Nat, low <= top
    PROVE  /\ Lower(low, top) \in low..top
           /\ Upper(top) \in 0..top
  BY DEF Lower, Upper

-----------------------------------------------------------------------------
(* Looking a frequency up.                                                  *)

Curves == {"s", "linear", "constant"}

\* A phase that a lookup can be asked about.
Curve(p) ==
    /\ p.duration \in Nat \ {0} /\ p.start \in Nat /\ p.end \in Nat /\ p.curve \in Curves
    /\ p.curve = "constant" => p.end = p.start

\* Phases that follow each other without a jump.
WellMade(phases) ==
    /\ Len(phases) \in {6, 7}
    /\ \A k \in 1..Len(phases) : Curve(phases[k])
    /\ \A k \in 1..Len(phases)-1 : phases[k].end = phases[k+1].start

\* The steps of a ramp, and those left for the cruise.
LEMMA StepsAreWhole ==
    ASSUME NEW p \in Params, NEW ramp, Total(ramp, Len(ramp), Area) \in Int
    PROVE  /\ EstimatedSteps(ramp) \in Int
           /\ CruiseSteps(p, ramp) \in Nat
<1>1. EstimatedSteps(ramp) \in Int
  BY Quotient DEF EstimatedSteps, Hz, Second
<1> QED  BY <1>1, InputTypes DEF CruiseSteps, Larger

\* Either there is a cruise, as long as the steps left over, or they take less
\* than one unit of the clock.
LEMMA CruiseIs ==
    ASSUME NEW p \in Params, NEW ramp, Total(ramp, Len(ramp), Area) \in Int
    PROVE  LET duration == (CruiseSteps(p, ramp) * Hz * Second) \div Clamped(p)
           IN  /\ Clamped(p) > 0 => duration \in Nat
               /\ Cruise(p, ramp) = IF Clamped(p) > 0 /\ duration > 0
                    THEN <<Phase(duration, Clamped(p), Clamped(p), "constant")>>
                    ELSE <<>>
<1> DEFINE c == Clamped(p)
           n == CruiseSteps(p, ramp) * Hz * Second
<1>1. c \in Nat
  BY TargetWithinLimits
<1>2. n \in Nat
  BY StepsAreWhole DEF Hz, Second
<1>3. Cruise(p, ramp) = LET duration == IF c > 0 THEN n \div c ELSE 0
                        IN  IF duration > 0 THEN <<Phase(duration, c, c, "constant")>> ELSE <<>>
  BY DEF Cruise
<1> HIDE DEF c, n
<1>4. ASSUME c > 0 PROVE n \div c \in Nat
  <2>1. n \div c \in Int /\ n < c * (n \div c) + c
    BY <1>1, <1>2, <1>4, Quotient
  <2> DEFINE q == n \div c
  <2>2. q \in Int /\ n < c * q + c
    BY <2>1
  <2> HIDE DEF q
  <2>3. 0 < c * (q + 1)
    BY <1>1, <1>2, <2>2
  <2>4. q + 1 > 0
    BY <1>1, <1>4, <2>2, <2>3
  <2> QED  BY <2>2, <2>4 DEF q
<1>5. Cruise(p, ramp) = IF c > 0 /\ n \div c > 0 THEN <<Phase(n \div c, c, c, "constant")>> ELSE <<>>
  BY <1>1, <1>3
<1> QED  BY <1>4, <1>5 DEF c, n

\* A phase begins when the one before it has had its duration.
LEMMA BeginIs ==
    ASSUME NEW phases, WellMade(phases)
    PROVE  /\ Begin(phases, 1) = 0
           /\ \A k \in 1..Len(phases) :
                 /\ Begin(phases, k) \in Nat
                 /\ Begin(phases, k+1) = Begin(phases, k) + phases[k].duration
<1> DEFINE D(k) == phases[k].duration
           n == Len(phases)
<1>1. \A k \in 1..n : D(k) \in Nat \ {0}
  BY DEF WellMade, Curve
<1>2. n = 6 \/ n = 7
  BY DEF WellMade, Curve
<1>3. /\ Begin(phases, 1) = 0+0+0+0+0+0+0
      /\ Begin(phases, 2) = D(1)+0+0+0+0+0+0
      /\ Begin(phases, 3) = D(1)+D(2)+0+0+0+0+0
      /\ Begin(phases, 4) = D(1)+D(2)+D(3)+0+0+0+0
      /\ Begin(phases, 5) = D(1)+D(2)+D(3)+D(4)+0+0+0
      /\ Begin(phases, 6) = D(1)+D(2)+D(3)+D(4)+D(5)+0+0
      /\ Begin(phases, 7) = D(1)+D(2)+D(3)+D(4)+D(5)+D(6)+0
      /\ Begin(phases, 8) = D(1)+D(2)+D(3)+D(4)+D(5)+D(6)+D(7)
  BY DEF Begin, Total
<1> HIDE DEF D, n
<1>4. Begin(phases, 1) = 0
  BY <1>3
<1>5. ASSUME NEW k \in 1..n
      PROVE  Begin(phases, k) \in Nat /\ Begin(phases, k+1) = Begin(phases, k) + D(k)
  <2>1. D(1) \in Nat /\ D(2) \in Nat /\ D(3) \in Nat /\ D(4) \in Nat /\ D(5) \in Nat /\ D(6) \in Nat
        /\ (k = 7 => D(7) \in Nat)
    BY <1>1, <1>2
  <2>2. k \in {1, 2, 3, 4, 5, 6, 7}
    BY <1>2
  <2>3. CASE k = 1  BY <2>1, <2>3, <1>3
  <2>4. CASE k = 2  BY <2>1, <2>4, <1>3
  <2>5. CASE k = 3  BY <2>1, <2>5, <1>3
  <2>6. CASE k = 4  BY <2>1, <2>6, <1>3
  <2>7. CASE k = 5  BY <2>1, <2>7, <1>3
  <2>8. CASE k = 6  BY <2>1, <2>8, <1>3
  <2>9. CASE k = 7  BY <2>1, <2>9, <1>3
  <2> QED  BY <2>2, <2>3, <2>4, <2>5, <2>6, <2>7, <2>8, <2>9
<1> QED  BY <1>4, <1>5 DEF D, n

\* The phases follow each other.
LEMMA BeginsAscend ==
    ASSUME NEW phases, WellMade(phases),
           NEW j \in 1..Len(phases), NEW k \in 1..Len(phases)+1, j < k
    PROVE  /\ Begin(phases, k) \in Nat
           /\ Begin(phases, j) < Begin(phases, k) /\ Begin(phases, j+1) <= Begin(phases, k)
<1> DEFINE n == Len(phases)
           B(i) == Begin(phases, i)
           D(i) == phases[i].duration
<1>1. n = 6 \/ n = 7
  BY DEF WellMade, Curve
<1>2. \A i \in 1..n : B(i) \in Nat /\ B(i+1) = B(i) + D(i) /\ D(i) \in Nat \ {0}
  BY BeginIs DEF WellMade, Curve
<1>3. j \in 1..n /\ k \in 1..n+1 /\ j < k
  OBVIOUS
<1> HIDE DEF n, B, D
<1>4. \A i \in 1..n : B(i) \in Nat /\ B(i+1) \in Nat /\ B(i) < B(i+1)
  BY <1>2, <1>1
<1>5. /\ B(1) < B(2) /\ B(2) < B(3) /\ B(3) < B(4) /\ B(4) < B(5) /\ B(5) < B(6) /\ B(6) < B(7)
      /\ B(1) \in Nat /\ B(2) \in Nat /\ B(3) \in Nat /\ B(4) \in Nat
      /\ B(5) \in Nat /\ B(6) \in Nat /\ B(7) \in Nat
      /\ n = 7 => B(7) < B(8) /\ B(8) \in Nat
  <2>1. \A i \in 1..6 : i \in 1..n
    BY <1>1
  <2>2. \A i \in 1..6 : B(i) < B(i+1) /\ B(i) \in Nat /\ B(i+1) \in Nat
    BY <1>4, <2>1
  <2>3. n = 7 => 7 \in 1..n
    OBVIOUS
  <2>4. n = 7 => B(7) < B(7+1) /\ B(7+1) \in Nat
    BY <1>4, <2>3
  <2> QED  BY <2>2, <2>4
<1>6. /\ j = 1 \/ j = 2 \/ j = 3 \/ j = 4 \/ j = 5 \/ j = 6 \/ (j = 7 /\ n = 7)
      /\ k = 2 \/ k = 3 \/ k = 4 \/ k = 5 \/ k = 6 \/ k = 7 \/ (k = 8 /\ n = 7)
      /\ j < k
  BY <1>1, <1>3
<1>7. B(k) \in Nat /\ B(j) < B(k) /\ B(j+1) <= B(k)
  <2>1. CASE j = 1
    BY <1>5, <1>6, <2>1
  <2>2. CASE j = 2
    BY <1>5, <1>6, <2>2
  <2>3. CASE j = 3
    BY <1>5, <1>6, <2>3
  <2>4. CASE j = 4
    BY <1>5, <1>6, <2>4
  <2>5. CASE j = 5
    BY <1>5, <1>6, <2>5
  <2>6. CASE j = 6
    BY <1>5, <1>6, <2>6
  <2>7. CASE j = 7 /\ n = 7
    BY <1>5, <1>6, <2>7
  <2> QED  BY <1>6, <2>1, <2>2, <2>3, <2>4, <2>5, <2>6, <2>7
<1> QED  BY <1>7 DEF B

\* The times at which a phase begins and ends.
LEMMA BeginsNat ==
    ASSUME NEW phases, WellMade(phases), NEW k \in 1..Len(phases)
    PROVE  Begin(phases, k) \in Nat /\ Begin(phases, k+1) \in Nat
<1>1. phases[k].duration \in Nat
  BY DEF WellMade, Curve
<1>2. Begin(phases, k) \in Nat /\ Begin(phases, k+1) = Begin(phases, k) + phases[k].duration
  BY BeginIs
<1> QED  BY <1>1, <1>2

\* Between the ends of a phase it is that phase's curve that is looked up, also
\* at its beginning, where the phase before it is asked.
LEMMA Lookup ==
    ASSUME NEW phases, WellMade(phases), NEW k \in 1..Len(phases),
           NEW t \in Begin(phases, k) .. Begin(phases, k+1)
    PROVE  FrequencyAt(phases, t) = FrequencyIn(phases[k], t - Begin(phases, k))
<1> DEFINE n == Len(phases)
           B(i) == Begin(phases, i)
<1>1. (n = 6 \/ n = 7) /\ n \in Nat
  BY DEF WellMade, Curve
<1>2. /\ B(1) = 0
      /\ \A i \in 1..n : /\ B(i) \in Nat /\ B(i+1) \in Nat /\ B(i) < B(i+1)
                         /\ B(i+1) - B(i) = phases[i].duration
  <2>1. B(1) = 0
    BY BeginIs
  <2> SUFFICES ASSUME NEW i \in 1..n
               PROVE  /\ B(i) \in Nat /\ B(i+1) \in Nat /\ B(i) < B(i+1)
                      /\ B(i+1) - B(i) = phases[i].duration
    BY <2>1
  <2>2. phases[i].duration \in Nat \ {0}
    BY DEF WellMade, Curve
  <2>3. B(i) \in Nat /\ B(i+1) = B(i) + phases[i].duration
    BY BeginIs
  <2> HIDE DEF B
  <2> QED  BY <2>2, <2>3
<1>3. \A i \in 1..n, j \in 1..n+1 : i < j => B(j) \in Nat /\ B(i) < B(j) /\ B(i+1) <= B(j)
  BY BeginsAscend
<1>4. \A i \in 1..n : /\ FrequencyIn(phases[i], 0) = phases[i].start
                      /\ FrequencyIn(phases[i], B(i+1) - B(i)) = phases[i].end
  BY <1>1, <1>2 DEF FrequencyIn, WellMade, Curve
<1>5. \A i \in 1..n-1 : phases[i].end = phases[i+1].start
  BY DEF WellMade, Curve
<1>7. /\ k \in 1..n /\ k \in 1..n+1 /\ k + 1 \in 1..n+1 /\ k \in Int /\ t \in Int
      /\ B(k) \in Nat /\ B(k+1) \in Nat /\ B(n+1) \in Nat /\ B(n+1) > 0
      /\ B(k) <= t /\ t <= B(k+1)
  <2>1. 1 \in 1..n /\ n + 1 \in 1..n+1 /\ 1 < n + 1 /\ n \in 1..n
    BY <1>1
  <2>2. B(n+1) \in Nat /\ B(n+1) > 0
    BY <1>2, <1>3, <2>1
  <2>3. k \in 1..n /\ k \in 1..n+1 /\ k + 1 \in 1..n+1 /\ k \in Int /\ t \in Int
    BY <1>1, <1>2
  <2> QED  BY <1>2, <2>2, <2>3
<1>6. /\ t <= 0 => FrequencyAt(phases, t) = phases[1].start
      /\ ~ (t <= 0) /\ t >= B(n+1) => FrequencyAt(phases, t) = phases[n].end
      /\ ~ (t <= 0) /\ ~ (t >= B(n+1)) =>
            FrequencyAt(phases, t) =
                LET j == CHOOSE j \in 1..n : B(j) < t /\ t <= B(j+1)
                IN  FrequencyIn(phases[j], t - B(j))
  <2>1. TotalDuration(phases) = B(n+1)
    BY DEF TotalDuration
  <2>5. B(n+1) > 0 /\ B(n+1) \in Nat
    BY <1>7
  <2> HIDE DEF B
  <2>2. t <= 0 => FrequencyAt(phases, t) = phases[1].start
    BY <1>7, <2>1, <2>5 DEF FrequencyAt
  <2>3. ~ (t <= 0) /\ t >= B(n+1) => FrequencyAt(phases, t) = phases[n].end
    BY <2>1 DEF FrequencyAt
  <2>4. ~ (t <= 0) /\ ~ (t >= B(n+1)) =>
            FrequencyAt(phases, t) =
                LET j == CHOOSE j \in 1..n : Begin(phases, j) < t /\ t <= Begin(phases, j+1)
                IN  FrequencyIn(phases[j], t - Begin(phases, j))
    BY <2>1 DEF FrequencyAt
  <2> QED  BY <2>2, <2>3, <2>4 DEF B
<1> HIDE DEF n, B
<1> SUFFICES FrequencyAt(phases, t) = FrequencyIn(phases[k], t - B(k))
  BY DEF B
<1>8. CASE t <= 0
  <2>1. t = 0 /\ B(k) = 0
    BY <1>2, <1>7, <1>8
  <2>2. k = 1
    BY <1>1, <1>2, <1>3, <1>7, <2>1
  <2> QED  BY <1>4, <1>6, <1>8, <2>1, <2>2, <1>7
<1>9. CASE t > 0 /\ t >= B(n+1)
  <2>1. k = n
    <3>1. SUFFICES ASSUME k < n PROVE FALSE
      BY <1>1, <1>7
    <3>2. n \in 1..n /\ n \in 1..n+1
      BY <1>1
    <3>3. B(n) \in Nat /\ B(n) < B(n+1)
      BY <1>2, <3>2
    <3>4. B(k+1) <= B(n)
      BY <1>3, <1>7, <3>1, <3>2
    <3> QED  BY <1>7, <1>9, <3>3, <3>4
  <2>2. t = B(n+1)
    BY <1>1, <1>2, <1>7, <1>9, <2>1
  <2> QED  BY <1>4, <1>6, <1>7, <1>9, <2>1, <2>2
<1>10. CASE t > 0 /\ t < B(n+1) /\ B(k) < t
  <2>1. \A j \in 1..n : B(j) < t /\ t <= B(j+1) => j = k
    <3> SUFFICES ASSUME NEW j \in 1..n, B(j) < t, t <= B(j+1), j # k PROVE FALSE
      OBVIOUS
    <3>1. B(j) \in Nat /\ B(j+1) \in Nat /\ j \in Int /\ j \in 1..n+1
      BY <1>1, <1>2
    <3>2. CASE j < k
      <4>1. B(j+1) <= B(k)
        BY <1>3, <3>1, <3>2, <1>7
      <4> QED  BY <1>7, <1>10, <3>1, <4>1
    <3>3. CASE k < j
      <4>1. B(k+1) <= B(j)
        BY <1>3, <3>1, <3>3, <1>7
      <4> QED  BY <1>7, <3>1, <4>1
    <3> QED  BY <1>1, <1>7, <3>2, <3>3, <1>7
  <2>2. (CHOOSE j \in 1..n : B(j) < t /\ t <= B(j+1)) = k
    BY <1>7, <1>10, <2>1
  <2>3. ~ (t <= 0) /\ ~ (t >= B(n+1))
    BY <1>7, <1>10
  <2> QED  BY <1>6, <2>2, <2>3
<1>11. CASE t > 0 /\ t < B(n+1) /\ t = B(k)
  <2>1. k - 1 \in 1..n /\ k - 1 \in 1..n+1 /\ k - 1 \in 1..n-1 /\ k - 1 \in Int /\ (k - 1) + 1 = k
    BY <1>1, <1>2, <1>7, <1>11
  <2>2. B(k-1) < t
    BY <1>2, <1>11, <2>1
  <2>3. \A j \in 1..n : B(j) < t /\ t <= B(j+1) => j = k - 1
    <3> SUFFICES ASSUME NEW j \in 1..n, B(j) < t, t <= B(j+1), j # k-1 PROVE FALSE
      OBVIOUS
    <3>1. B(j) \in Nat /\ B(j+1) \in Nat /\ j \in Int /\ j \in 1..n+1
      BY <1>1, <1>2
    <3>2. CASE j < k-1
      <4>1. B(j+1) <= B(k-1)
        BY <1>3, <3>1, <3>2, <2>1
      <4> QED  BY <1>2, <2>1, <2>2, <3>1, <4>1
    <3>3. CASE k-1 < j
      <4>1. B(k) <= B(j)
        BY <1>3, <3>1, <3>3, <2>1
      <4> QED  BY <1>7, <3>1, <4>1, <1>11
    <3> QED  BY <1>1, <1>7, <3>2, <3>3, <1>7, <2>1
  <2>4. (CHOOSE j \in 1..n : B(j) < t /\ t <= B(j+1)) = k - 1
    BY <1>11, <1>7, <2>1, <2>2, <2>3
  <2>5. ~ (t <= 0) /\ ~ (t >= B(n+1))
    BY <1>7, <1>11
  <2>6. FrequencyAt(phases, t) = phases[k-1].end
    BY <1>4, <1>6, <1>11, <2>1, <2>4, <2>5
  <2>7. FrequencyIn(phases[k], t - B(k)) = phases[k].start
    BY <1>4, <1>7, <1>11
  <2> QED  BY <1>5, <2>1, <2>6, <2>7
<1> QED  BY <1>7, <1>8, <1>9, <1>10, <1>11

\* The sixth of a phase that a time lies in.
LEMMA SixthsGrow ==
    ASSUME NEW d \in Nat \ {0}, NEW t \in Int, NEW u \in Int, t <= u, 0 < t, u < d
    PROVE  LET x == (6 * t + 5) \div d
               y == (6 * u + 5) \div d
           IN  x \in 0..5 /\ y \in 0..5 /\ x <= y
<1> DEFINE x == (6 * t + 5) \div d
           y == (6 * u + 5) \div d
<1>1. /\ x \in Int /\ y \in Int /\ x <= y
      /\ 6 * t + 5 < d * x + d /\ d * y <= 6 * u + 5
  BY Quotient, QuotientGrows
<1> HIDE DEF x, y
<1>2. x >= 0
  <2>1. 0 < d * (x + 1)
    BY <1>1
  <2> QED  BY <1>1, <2>1
<1>3. y <= 5
  <2>1. d * y < d * 6
    BY <1>1
  <2> QED  BY <1>1, <2>1
<1> QED  BY <1>1, <1>2, <1>3 DEF x, y

\* The quarters a jerk has come by then.
LEMMA QuartersGrow ==
    ASSUME NEW x \in 0..5, NEW y \in 0..5, x <= y
    PROVE  Quarters(x) \in 0..3 /\ Quarters(y) \in 0..3 /\ Quarters(x) <= Quarters(y)
  BY DEF Quarters

\* g the way a curve goes, up or down, and x and y how much of it it has come.
LEMMA FractionGrows ==
    ASSUME NEW g \in Int, NEW x \in 0..5, NEW y \in 0..5, x <= y, NEW d \in {4, 6}, y <= d
    PROVE  LET a == (g * x) \div d
               b == (g * y) \div d
           IN  /\ a \in Int /\ b \in Int
               /\ g >= 0 => 0 <= a /\ a <= b /\ b <= g
               /\ g <= 0 => g <= b /\ b <= a /\ a <= 0
<1>1. x \in {0,1,2,3,4,5} /\ y \in {0,1,2,3,4,5}
  OBVIOUS
<1>2. CASE d = 4
  BY <1>1, <1>2
<1>3. CASE d = 6
  BY <1>1, <1>3
<1> QED  BY <1>2, <1>3

\* FrequencyIn, case by case.
LEMMA CurveIs ==
    ASSUME NEW p, Curve(p), NEW t \in Int
    PROVE  /\ t <= 0 => FrequencyIn(p, t) = p.start
           /\ t >= p.duration => FrequencyIn(p, t) = p.end
           /\ 0 < t /\ t < p.duration =>
                LET x == (6 * t + 5) \div p.duration
                IN  FrequencyIn(p, t) =
                        p.start + (IF p.curve = "s" THEN ((p.end - p.start) * Quarters(x)) \div 4
                                   ELSE IF p.curve = "linear" THEN ((p.end - p.start) * x) \div 6
                                   ELSE 0)
<1>1. p.duration \in Nat \ {0} /\ p.start \in Nat /\ p.end \in Nat
  BY DEF Curve
<1>2. p.curve = "s" \/ p.curve = "linear" \/ p.curve = "constant"
  BY DEF Curve, Curves
<1>3. t <= 0 => FrequencyIn(p, t) = p.start
  BY <1>1 DEF FrequencyIn
<1>4. t >= p.duration => FrequencyIn(p, t) = p.end
  BY <1>1 DEF FrequencyIn
<1>5. ASSUME 0 < t, t < p.duration
      PROVE  LET x == (6 * t + 5) \div p.duration
             IN  FrequencyIn(p, t) =
                     p.start + (IF p.curve = "s" THEN ((p.end - p.start) * Quarters(x)) \div 4
                                ELSE IF p.curve = "linear" THEN ((p.end - p.start) * x) \div 6
                                ELSE 0)
  <2>1. ~ (t <= 0) /\ ~ (t >= p.duration)
    BY <1>1, <1>5
  <2>2. CASE p.curve = "s"
    BY <2>1, <2>2 DEF FrequencyIn
  <2>3. CASE p.curve = "linear"
    BY <2>1, <2>3 DEF FrequencyIn
  <2>4. CASE p.curve = "constant"
    BY <1>1, <2>1, <2>4 DEF FrequencyIn
  <2> QED  BY <1>2, <2>2, <2>3, <2>4
<1> QED  BY <1>3, <1>4, <1>5

\* A curve goes in one direction, from the start of its phase to the end.
LEMMA CurveClimbs ==
    ASSUME NEW p, Curve(p), NEW t \in Int, NEW u \in Int, t <= u
    PROVE  /\ FrequencyIn(p, t) \in Int /\ FrequencyIn(p, u) \in Int
           /\ p.start <= p.end => /\ p.start <= FrequencyIn(p, t)
                                  /\ FrequencyIn(p, t) <= FrequencyIn(p, u)
                                  /\ FrequencyIn(p, u) <= p.end
           /\ p.end <= p.start => /\ p.end <= FrequencyIn(p, u)
                                  /\ FrequencyIn(p, u) <= FrequencyIn(p, t)
                                  /\ FrequencyIn(p, t) <= p.start
<1> DEFINE s == p.start
           e == p.end
           d == p.duration
           g == e - s
           F(v) == FrequencyIn(p, v)
           X(v) == (6 * v + 5) \div d
<1>1. d \in Nat \ {0} /\ s \in Nat /\ e \in Nat
  BY DEF Curve
<1>2. \A v \in Int : (v <= 0 => F(v) = s) /\ (v >= d => F(v) = e)
  BY CurveIs
<1>3. \A v \in Int : 0 < v /\ v < d =>
        F(v) = s + (IF p.curve = "s" THEN (g * Quarters(X(v))) \div 4
                    ELSE IF p.curve = "linear" THEN (g * X(v)) \div 6 ELSE 0)
  BY CurveIs
<1>4. \A v, w \in Int : 0 < v /\ v <= w /\ w < d => X(v) \in 0..5 /\ X(w) \in 0..5 /\ X(v) <= X(w)
  BY <1>1, SixthsGrow
<1>5. p.curve \notin {"s", "linear"} => s = e
  BY DEF Curve, Curves
<1>6. g \in Int /\ e = s + g /\ (s <= e => g >= 0) /\ (e <= s => g <= 0)
  BY <1>1
<1> DEFINE Goes(a, b) == /\ a \in Int /\ b \in Int
                         /\ s <= e => s <= a /\ a <= b /\ b <= e
                         /\ e <= s => e <= b /\ b <= a /\ a <= s
<1> HIDE DEF F, X, s, e, d, g
<1>7. ASSUME NEW v \in Int, NEW w \in Int, 0 < v, v <= w, w < d
      PROVE  Goes(F(v), F(w))
  <2>1. X(v) \in 0..5 /\ X(w) \in 0..5 /\ X(v) <= X(w)
    BY <1>4, <1>7
  <2>2. 0 < w /\ v < d
    BY <1>1, <1>7
  <2>3. CASE p.curve = "s"
    <3> DEFINE x == Quarters(X(v))
               y == Quarters(X(w))
               a == (g * x) \div 4
               b == (g * y) \div 4
    <3>1. x \in 0..3 /\ y \in 0..3 /\ x <= y
      BY <2>1, QuartersGrow
    <3>2. F(v) = s + a /\ F(w) = s + b
      BY <1>3, <1>7, <2>2, <2>3
    <3> HIDE DEF x, y
    <3>3. x \in 0..5 /\ y \in 0..5 /\ x <= y /\ y <= 4
      BY <3>1
    <3>4. /\ a \in Int /\ b \in Int
          /\ g >= 0 => 0 <= a /\ a <= b /\ b <= g
          /\ g <= 0 => g <= b /\ b <= a /\ a <= 0
      BY <1>6, <3>3, FractionGrows
    <3> HIDE DEF a, b
    <3> QED  BY <1>1, <1>6, <3>2, <3>4
  <2>4. CASE p.curve = "linear"
    <3> DEFINE a == (g * X(v)) \div 6
               b == (g * X(w)) \div 6
    <3>1. F(v) = s + a /\ F(w) = s + b
      BY <1>3, <1>7, <2>2, <2>4
    <3>2. X(w) <= 6
      BY <2>1
    <3>3. /\ a \in Int /\ b \in Int
          /\ g >= 0 => 0 <= a /\ a <= b /\ b <= g
          /\ g <= 0 => g <= b /\ b <= a /\ a <= 0
      BY <1>6, <2>1, <3>2, FractionGrows
    <3> HIDE DEF a, b
    <3> QED  BY <1>1, <1>6, <3>1, <3>3
  <2>5. CASE p.curve \notin {"s", "linear"}
    BY <1>1, <1>3, <1>5, <1>7, <2>2, <2>5
  <2> QED  BY <2>3, <2>4, <2>5
<1>8. ASSUME NEW v \in Int PROVE Goes(F(v), F(v))
  <2>1. CASE v <= 0  BY <1>1, <1>2, <2>1
  <2>2. CASE v >= d  BY <1>1, <1>2, <2>2
  <2>3. CASE 0 < v /\ v < d  BY <1>7, <2>3
  <2> QED  BY <1>1, <2>1, <2>2, <2>3
<1>9. Goes(F(t), F(t)) /\ Goes(F(u), F(u))
  BY <1>8
<1>10. Goes(F(t), F(u))
  <2>1. CASE t <= 0  BY <1>1, <1>2, <1>9, <2>1
  <2>2. CASE u >= d  BY <1>1, <1>2, <1>9, <2>2
  <2>3. CASE 0 < t /\ u < d  BY <1>7, <2>3
  <2> QED  BY <1>1, <2>1, <2>2, <2>3
<1> QED  BY <1>10 DEF F, s, e

-----------------------------------------------------------------------------
(* The profiles that are calculated.                                        *)

\* The types of what a ramp is built from.
LEMMA RampIs ==
    ASSUME NEW p \in Params, NEW time \in Nat
    PROVE  LET low == p.limits.low
               top == Clamped(p)
               d == Durations(time, p.jerk)
           IN  /\ low \in Nat /\ top \in Nat /\ low <= top
               /\ d.jerk \in Nat \ {0} /\ d.constant \in Nat \ {0}
               /\ Lower(low, top) \in low..top /\ Upper(top) \in 0..top
  BY InputTypes, TargetWithinLimits, RampsTakeTime, TurningPoints

\* What Area comes to on a ramp up, and on one down.
LEMMA RampArea ==
    ASSUME NEW p \in Params, NEW time \in Nat
    PROVE  LET d == Durations(time, p.jerk)
               low == p.limits.low
               top == Clamped(p)
               up == Acceleration(d, low, top)
               down == Deceleration(d, low, top)
           IN  /\ Len(up) = 3 /\ Len(down) = 3
               /\ \A k \in 1..3 : Area(up[k]) \in Nat /\ Area(down[k]) \in Nat
               /\ Total(up, 3, Area) \in Nat /\ Total(down, 3, Area) \in Nat
               /\ Total(up, 3, Area) = Area(up[1]) + Area(up[2]) + Area(up[3])
               /\ Total(down, 3, Area) = Area(down[1]) + Area(down[2]) + Area(down[3])
<1> DEFINE d == Durations(time, p.jerk)
           low == p.limits.low
           top == Clamped(p)
           a == Lower(low, top)
           b == Upper(top)
           up == Acceleration(d, low, top)
           down == Deceleration(d, low, top)
           j == d.jerk
           c == d.constant
<1>1. low \in Nat /\ top \in Nat /\ j \in Nat /\ c \in Nat /\ a \in Nat /\ b \in Nat
  BY RampIs
<1>2. /\ Len(up) = 3 /\ Len(down) = 3
      /\ up[1] = Phase(j, low, a, "s") /\ up[2] = Phase(c, a, b, "linear") /\ up[3] = Phase(j, b, top, "s")
      /\ down[1] = Phase(j, top, b, "s") /\ down[2] = Phase(c, b, a, "linear")
      /\ down[3] = Phase(j, a, low, "s")
  BY DEF Acceleration, Deceleration
<1> HIDE DEF low, top, a, b, up, down, j, c
<1>3. \A f, g, e \in Nat : \A shape : Area(Phase(e, f, g, shape)) \in Nat
  <2>1. \A f, g, e \in Nat : (f + g) * e \in Nat
    OBVIOUS
  <2> QED  BY <2>1 DEF Area, Phase
<1>4. /\ Area(up[1]) \in Nat /\ Area(up[2]) \in Nat /\ Area(up[3]) \in Nat
      /\ Area(down[1]) \in Nat /\ Area(down[2]) \in Nat /\ Area(down[3]) \in Nat
  BY <1>1, <1>2, <1>3
<1>5. \A k \in 1..3 : Area(up[k]) \in Nat /\ Area(down[k]) \in Nat
  <2>1. \A k \in 1..3 : k = 1 \/ k = 2 \/ k = 3
    OBVIOUS
  <2> QED  BY <1>4, <2>1
<1>6. /\ Total(up, 3, Area) = Area(up[1]) + Area(up[2]) + Area(up[3]) + 0 + 0 + 0 + 0
      /\ Total(down, 3, Area) = Area(down[1]) + Area(down[2]) + Area(down[3]) + 0 + 0 + 0 + 0
  BY DEF Total
<1> DEFINE U(i) == Area(up[i])
           D(i) == Area(down[i])
<1>7. /\ Total(up, 3, Area) = U(1) + U(2) + U(3) /\ Total(up, 3, Area) \in Nat
      /\ Total(down, 3, Area) = D(1) + D(2) + D(3) /\ Total(down, 3, Area) \in Nat
  <2>1. /\ U(1) \in Nat /\ U(2) \in Nat /\ U(3) \in Nat
        /\ D(1) \in Nat /\ D(2) \in Nat /\ D(3) \in Nat
    BY <1>4
  <2>2. /\ Total(up, 3, Area) = U(1) + U(2) + U(3) + 0 + 0 + 0 + 0
        /\ Total(down, 3, Area) = D(1) + D(2) + D(3) + 0 + 0 + 0 + 0
    BY <1>6
  <2> HIDE DEF U, D
  <2> QED  BY <2>1, <2>2
<1> QED  BY <1>2, <1>5, <1>7 DEF up, down, low, top

\* The phases that the builder makes are curves.
LEMMA CurvesOfPhases ==
    ASSUME NEW d \in Nat \ {0}, NEW f \in Nat, NEW g \in Nat
    PROVE  /\ Curve(Phase(d, f, g, "s")) /\ Curve(Phase(d, f, g, "linear"))
           /\ Curve(Phase(d, f, f, "constant"))
  BY DEF Curve, Curves, Phase

\* A profile is well made, with the minimum at both ends and the turning points
\* of its ramps between.
LEMMA ProfileIs ==
    ASSUME NEW p \in Params
    PROVE  LET phases == Phases(p)
               n == Len(phases)
               low == p.limits.low
               top == Clamped(p)
           IN  /\ WellMade(phases)
               /\ phases[1].start = low /\ phases[n].end = low
               /\ phases[1].end = Lower(low, top)
               /\ phases[2].end = Upper(top) /\ phases[3].end = top
               /\ phases[n-2].start = top /\ phases[n-2].end = Upper(top)
               /\ phases[n-1].end = Lower(low, top)
               /\ n = 7 => phases[4].start = top /\ phases[4].end = top
<1> DEFINE phases == Phases(p)
           n == Len(phases)
           low == p.limits.low
           top == Clamped(p)
           a == Lower(low, top)
           b == Upper(top)
           up == Durations(p.accel, p.jerk)
           down == Durations(p.decel, p.jerk)
           ramp == Acceleration(up, low, top)
           c == Cruise(p, ramp)
           time == (CruiseSteps(p, ramp) * Hz * Second) \div top
<1>1. /\ low \in Nat /\ top \in Nat /\ a \in Nat /\ b \in Nat
      /\ up.jerk \in Nat \ {0} /\ up.constant \in Nat \ {0}
      /\ down.jerk \in Nat \ {0} /\ down.constant \in Nat \ {0}
  BY InputTypes, RampIs
<1>2. /\ top > 0 => time \in Nat
      /\ c = IF top > 0 /\ time > 0 THEN <<Phase(time, top, top, "constant")>> ELSE <<>>
  <2>1. p.accel \in Nat
    BY InputTypes
  <2>2. Len(ramp) = 3 /\ Total(ramp, 3, Area) \in Nat
    BY <2>1, RampArea
  <2>3. Total(ramp, Len(ramp), Area) \in Int
    BY <2>2
  <2> HIDE DEF ramp
  <2> QED  BY <2>3, CruiseIs
<1>3. /\ n = 6 + Len(c)
      /\ phases[1] = Phase(up.jerk, low, a, "s")
      /\ phases[2] = Phase(up.constant, a, b, "linear")
      /\ phases[3] = Phase(up.jerk, b, top, "s")
      /\ Len(c) = 1 => phases[4] = c[1]
      /\ phases[n-2] = Phase(down.jerk, top, b, "s")
      /\ phases[n-1] = Phase(down.constant, b, a, "linear")
      /\ phases[n] = Phase(down.jerk, a, low, "s")
  BY PhasesAre
<1> HIDE DEF phases, n, low, top, a, b, up, down, c, time
<1>4. \/ n = 6
      \/ n = 7 /\ time \in Nat \ {0} /\ phases[4] = Phase(time, top, top, "constant")
  <2>1. CASE top > 0 /\ time > 0
    <3>1. c = <<Phase(time, top, top, "constant")>>
      BY <1>2, <2>1
    <3>2. Len(c) = 1 /\ c[1] = Phase(time, top, top, "constant")
      BY <3>1
    <3> QED  BY <1>2, <1>3, <2>1, <3>2
  <2>2. CASE ~ (top > 0 /\ time > 0)
    <3>1. c = <<>>
      BY <1>2, <2>2
    <3>2. Len(c) = 0
      BY <3>1
    <3> QED  BY <1>3, <3>2
  <2> QED  BY <2>1, <2>2
<1>5. \A d, f, g, s : LET ph == Phase(d, f, g, s) IN
          ph.duration = d /\ ph.start = f /\ ph.end = g /\ ph.curve = s
  BY DEF Phase
<1>6. CASE n = 6
  <2>1. /\ phases[4] = Phase(down.jerk, top, b, "s")
        /\ phases[5] = Phase(down.constant, b, a, "linear")
        /\ phases[6] = Phase(down.jerk, a, low, "s")
    BY <1>3, <1>6
  <2>2. \A k \in 1..n : Curve(phases[k])
    <3>1. Curve(phases[1]) /\ Curve(phases[2]) /\ Curve(phases[3])
      BY <1>1, <1>3, CurvesOfPhases
    <3>2. Curve(phases[4]) /\ Curve(phases[5]) /\ Curve(phases[6])
      BY <1>1, <1>6, <2>1, CurvesOfPhases
    <3> QED  BY <1>6, <3>1, <3>2
  <2>3. \A k \in 1..n-1 : phases[k].end = phases[k+1].start
    BY <1>3, <1>5, <1>6, <2>1
  <2>4. WellMade(phases)
    BY <1>6, <2>2, <2>3 DEF WellMade, Curve, n
  <2> QED  BY <1>3, <1>5, <1>6, <2>1, <2>4 DEF phases, n, low, top, a, b
<1>7. CASE n = 7 /\ time \in Nat \ {0} /\ phases[4] = Phase(time, top, top, "constant")
  <2>1. /\ phases[5] = Phase(down.jerk, top, b, "s")
        /\ phases[6] = Phase(down.constant, b, a, "linear")
        /\ phases[7] = Phase(down.jerk, a, low, "s")
    BY <1>3, <1>7
  <2>2. \A k \in 1..n : Curve(phases[k])
    <3>1. Curve(phases[1]) /\ Curve(phases[2]) /\ Curve(phases[3])
      BY <1>1, <1>3, CurvesOfPhases
    <3>2. Curve(phases[4]) /\ Curve(phases[5]) /\ Curve(phases[6]) /\ Curve(phases[7])
      BY <1>1, <1>7, <2>1, CurvesOfPhases
    <3> QED  BY <1>7, <3>1, <3>2
  <2>3. \A k \in 1..n-1 : phases[k].end = phases[k+1].start
    BY <1>3, <1>5, <1>7, <2>1
  <2>4. WellMade(phases)
    BY <1>7, <2>2, <2>3 DEF WellMade, Curve, n
  <2> QED  BY <1>3, <1>5, <1>7, <2>1, <2>4 DEF phases, n, low, top, a, b
<1> QED  BY <1>4, <1>6, <1>7

-----------------------------------------------------------------------------
(* The pulse generator.                                                     *)

\* What it has looked up belongs to where it is.
MotionInv ==
    /\ job \in Params \cup {None}
    /\ job # None => /\ clock \in 0..TotalDuration(Phases(job))
                     /\ freq = FrequencyAt(Phases(job), clock)

\* A time within a profile is within one of its phases, also where the next
\* phase begins.
LEMMA SomePhase ==
    ASSUME NEW phases, WellMade(phases), NEW t \in 0..TotalDuration(phases)
    PROVE  /\ \E k \in 1..Len(phases) : t \in Begin(phases, k) .. Begin(phases, k+1)
           /\ t < TotalDuration(phases) =>
                \E k \in 1..Len(phases) : Begin(phases, k) <= t /\ t < Begin(phases, k+1)
<1> DEFINE n == Len(phases)
           B(i) == Begin(phases, i)
<1>1. n = 6 \/ n = 7
  BY DEF WellMade, Curve
<1>2. B(1) = 0
  BY BeginIs
<1>3. \A i \in 1..n : B(i) \in Nat /\ B(i+1) \in Nat
  BY BeginsNat
<1>4. B(1) \in Nat /\ B(2) \in Nat /\ B(3) \in Nat /\ B(4) \in Nat /\ B(5) \in Nat /\ B(6) \in Nat
      /\ B(7) \in Nat /\ (n = 7 => B(8) \in Nat)
  <2>1. \A i \in 1..6 : B(i) \in Nat /\ B(i+1) \in Nat
    <3> HIDE DEF n, B
    <3> QED  BY <1>1, <1>3
  <2>2. n = 7 => B(7+1) \in Nat
    BY <1>3
  <2> HIDE DEF B
  <2> QED  BY <2>1, <2>2
<1>5. t \in Int /\ 0 <= t /\ t <= B(n+1) /\ TotalDuration(phases) = B(n+1)
  BY <1>1, <1>4 DEF TotalDuration
<1> HIDE DEF B, n
<1>6. ASSUME t < B(n+1) PROVE \E k \in 1..n : B(k) <= t /\ t < B(k+1)
  <2> SUFFICES ASSUME \A k \in 1..n : B(k) <= t => ~ (t < B(k+1)) PROVE FALSE
    OBVIOUS
  <2>1. t >= B(2)
    BY <1>1, <1>2, <1>4, <1>5
  <2>2. t >= B(3)
    BY <1>1, <1>4, <1>5, <2>1
  <2>3. t >= B(4)
    BY <1>1, <1>4, <1>5, <2>2
  <2>4. t >= B(5)
    BY <1>1, <1>4, <1>5, <2>3
  <2>5. t >= B(6)
    BY <1>1, <1>4, <1>5, <2>4
  <2>6. t >= B(7)
    BY <1>1, <1>4, <1>5, <2>5
  <2>7. n = 7 => t >= B(8)
    BY <1>4, <1>5, <2>6
  <2> QED  BY <1>1, <1>4, <1>5, <1>6, <2>6, <2>7
<1>7. ASSUME t = B(n+1) PROVE \E k \in 1..n : B(k) <= t /\ t <= B(k+1)
  <2>1. n \in 1..n
    BY <1>1
  <2>2. B(n) < B(n+1) /\ B(n) \in Nat
    <3>1. n \in 1..n /\ n + 1 \in 1..n+1 /\ n < n + 1
      BY <1>1
    <3> QED  BY <1>3, <3>1, BeginsAscend DEF n, B
  <2> QED  BY <1>5, <1>7, <2>1, <2>2
<1>8. \E k \in 1..n : B(k) <= t /\ t <= B(k+1)
  BY <1>1, <1>3, <1>4, <1>5, <1>6, <1>7
<1>9. \E k \in 1..n : t \in B(k)..B(k+1)
  BY <1>3, <1>5, <1>8
<1> QED  BY <1>5, <1>6, <1>9 DEF n, B

\* No sample lies outside the profile.
LEMMA SamplesWithin ==
    ASSUME NEW phases, WellMade(phases), NEW t \in Samples(phases)
    PROVE  t \in 0..TotalDuration(phases)
<1>1. PICK k \in 1..Len(phases), m \in {0, 2, 3, 4, 6} :
          t = Begin(phases, k) + (m * phases[k].duration) \div 6
  BY DEF Samples
<1> DEFINE d == phases[k].duration
           n == Len(phases)
           q == (m * d) \div 6
<1>2. d \in Nat
  BY DEF WellMade, Curve
<1>3. q \in 0..d
  BY <1>1, <1>2
<1>4. n = 6 \/ n = 7
  BY DEF WellMade, Curve
<1>5. Begin(phases, k) \in Nat /\ Begin(phases, k+1) = Begin(phases, k) + d
  BY BeginIs
<1>6. Begin(phases, k+1) <= Begin(phases, n+1) /\ Begin(phases, n+1) \in Nat
  <2>1. k < n + 1 /\ n + 1 \in 1..n+1
    BY <1>4
  <2> QED  BY <2>1, BeginsAscend
<1>7. TotalDuration(phases) = Begin(phases, n+1)
  BY DEF TotalDuration
<1> HIDE DEF d, n, q
<1>8. t = Begin(phases, k) + q
  BY <1>1 DEF q, d
<1> QED  BY <1>2, <1>3, <1>5, <1>6, <1>7, <1>8

\* Where a phase begins or ends is a sample.
LEMMA BeginsAreSamples ==
    ASSUME NEW phases, WellMade(phases), NEW k \in 1..Len(phases)
    PROVE  Begin(phases, k+1) \in Samples(phases)
<1>1. phases[k].duration \in Nat /\ Begin(phases, k) \in Nat
      /\ Begin(phases, k+1) = Begin(phases, k) + phases[k].duration
  BY BeginIs DEF WellMade, Curve
<1>2. (6 * phases[k].duration) \div 6 = phases[k].duration
  BY <1>1
<1>3. 6 \in {0, 2, 3, 4, 6}
  OBVIOUS
<1> QED  BY <1>1, <1>2, <1>3 DEF Samples

\* The pulse generator does not skip the end of a phase.
LEMMA NextSample ==
    ASSUME MotionInv, Advance
    PROVE  LET phases == Phases(job) IN
           /\ job \in Params /\ WellMade(phases)
           /\ clock' \in 0..TotalDuration(phases)
           /\ freq' = FrequencyAt(phases, clock')
           /\ \E k \in 1..Len(phases) : /\ Begin(phases, k) <= clock
                                        /\ clock < clock' /\ clock' <= Begin(phases, k+1)
<1> DEFINE phases == Phases(job)
<1>1. job \in Params /\ clock \in 0..TotalDuration(phases) /\ clock < TotalDuration(phases)
  BY DEF MotionInv, Advance
<1>2. WellMade(phases)
  BY <1>1, ProfileIs
<1>3. /\ clock' \in Samples(phases) /\ clock' > clock
      /\ \A s \in Samples(phases) : s > clock => clock' <= s
      /\ freq' = FrequencyAt(phases, clock')
  BY DEF Advance
<1> HIDE DEF phases
<1>4. clock' \in 0..TotalDuration(phases)
  BY <1>2, <1>3, SamplesWithin
<1>5. PICK k \in 1..Len(phases) : Begin(phases, k) <= clock /\ clock < Begin(phases, k+1)
  BY <1>1, <1>2, SomePhase
<1>6. Begin(phases, k+1) \in Nat
  BY <1>2, BeginsNat
<1>7. Begin(phases, k+1) > clock
  BY <1>1, <1>5, <1>6
<1>8. clock' <= Begin(phases, k+1)
  BY <1>2, <1>3, <1>7, BeginsAreSamples
<1>9. clock < clock'
  BY <1>1, <1>3, <1>4
<1> QED  BY <1>1, <1>2, <1>3, <1>4, <1>5, <1>8, <1>9 DEF phases

\* The frequency in use is that of the place the generator has come to
\* (calculator.py:66-81), and it does not leave the profile.
THEOREM MotionInvHolds == Spec => []MotionInv
<1>1. Init => MotionInv
  BY DEF Init, MotionInv
<1>2. MotionInv /\ [Next]_vars => MotionInv'
  <2> SUFFICES ASSUME MotionInv, [Next]_vars PROVE MotionInv'
    OBVIOUS
  <2>1. ASSUME NEW p \in Params, Calculate(p) PROVE MotionInv'
    <3>1. WellMade(Phases(p))
      BY ProfileIs
    <3>2. TotalDuration(Phases(p)) \in Nat
      <4> DEFINE n == Len(Phases(p))
      <4>1. n = 6 \/ n = 7
        BY <3>1 DEF WellMade, Curve
      <4>2. n \in 1..n
        <5> HIDE DEF n
        <5> QED  BY <4>1
      <4> QED  BY <3>1, <4>2, BeginsNat DEF TotalDuration
    <3> QED  BY <2>1, <3>2 DEF Calculate, MotionInv
  <2>2. CASE Advance
    BY <2>2, NextSample DEF Advance, MotionInv
  <2>3. CASE Finish
    BY <2>3 DEF Finish, MotionInv
  <2>4. CASE UNCHANGED vars
    BY <2>4 DEF vars, MotionInv
  <2> QED  BY <2>1, <2>2, <2>3, <2>4 DEF Next
<1> QED  BY <1>1, <1>2, PTL DEF Spec

-----------------------------------------------------------------------------
(* The theorems.                                                            *)

\* The frequencies at which the phases begin and end.
LEMMA Turns ==
    ASSUME NEW p \in Params, NEW k \in 1..Len(Phases(p))
    PROVE  LET phase == Phases(p)[k]
               n == Len(Phases(p))
               low == p.limits.low
               top == Clamped(p)
           IN  /\ Curve(phase)
               /\ {phase.start, phase.end} \subseteq {low, Lower(low, top), Upper(top), top}
               /\ Upper(top) >= Lower(low, top) =>
                     /\ k < 4 => phase.start <= phase.end
                     /\ k >= n - 2 => phase.end <= phase.start
               /\ k = 4 /\ n = 7 => phase.start = top /\ phase.end = top
<1> DEFINE phases == Phases(p)
           n == Len(phases)
           low == p.limits.low
           top == Clamped(p)
           a == Lower(low, top)
           b == Upper(top)
<1>1. /\ low \in Nat /\ top \in Nat /\ low <= top
      /\ a \in low..top /\ b \in 0..top
  BY InputTypes, RampIs
<1>2. n = 6 \/ n = 7
  BY ProfileIs DEF WellMade, Curve
<1>3. /\ phases[1].start = low /\ phases[n].end = low
      /\ phases[1].end = a /\ phases[2].end = b /\ phases[3].end = top
      /\ phases[n-2].start = top /\ phases[n-2].end = b /\ phases[n-1].end = a
      /\ n = 7 => phases[4].start = top /\ phases[4].end = top
  BY ProfileIs
<1>4. \A i \in 1..n-1 : phases[i].end = phases[i+1].start
  BY ProfileIs DEF WellMade, Curve
<1>5. Curve(phases[k])
  BY ProfileIs DEF WellMade, Curve
<1>6. k \in 1..n /\ k \in Int
  BY <1>2
<1> HIDE DEF phases, n, low, top, a, b
<1>7. /\ phases[2].start = a /\ phases[3].start = b
      /\ phases[n-1].start = b /\ phases[n].start = a
  <2>1. 1 \in 1..n-1 /\ 2 \in 1..n-1 /\ n-2 \in 1..n-1 /\ n-1 \in 1..n-1
    BY <1>2
  <2>2. 1+1 = 2 /\ 2+1 = 3 /\ (n-2)+1 = n-1 /\ (n-1)+1 = n
    BY <1>2
  <2> QED  BY <1>3, <1>4, <2>1, <2>2
<1> DEFINE Turn(i) == /\ {phases[i].start, phases[i].end} \subseteq {low, a, b, top}
                      /\ b >= a => /\ i < 4 => phases[i].start <= phases[i].end
                                   /\ i >= n - 2 => phases[i].end <= phases[i].start
                      /\ i = 4 /\ n = 7 => phases[i].start = top /\ phases[i].end = top
<1>8. Turn(1) /\ Turn(2) /\ Turn(3)
  BY <1>1, <1>2, <1>3, <1>7
<1>9. Turn(n-2) /\ Turn(n-1) /\ Turn(n)
  BY <1>1, <1>2, <1>3, <1>7
<1>10. n = 7 => Turn(4)
  BY <1>3
<1>11. Turn(k)
  <2> HIDE DEF Turn
  <2>1. \/ k = 1 \/ k = 2 \/ k = 3 \/ (k = 4 /\ n = 7) \/ k = n-2 \/ k = n-1 \/ k = n
    BY <1>2, <1>6
  <2> QED  BY <1>8, <1>9, <1>10, <2>1
<1> QED  BY <1>5, <1>11 DEF phases, n, low, top, a, b

\* A frequency looked up lies between the ends of its phase.
LEMMA InvEnvelope == MotionInv => Envelope
<1> SUFFICES ASSUME MotionInv, job # None PROVE Envelope
  BY DEF Envelope
<1> DEFINE phases == Phases(job)
           low == job.limits.low
           high == job.limits.high
           top == Clamped(job)
           a == Lower(low, top)
           b == Upper(top)
<1>1. job \in Params
  BY DEF MotionInv
<1>2. /\ WellMade(phases)
      /\ phases[1].start = low /\ phases[Len(phases)].end = low
  BY <1>1, ProfileIs
<1>3. /\ low \in Nat /\ high \in Nat /\ top \in Nat /\ low <= top /\ top <= high
      /\ a \in low..top /\ b \in 0..top
  BY <1>1, InputTypes, TargetWithinLimits, TurningPoints
<1>4. PICK k \in 1..Len(phases) : clock \in Begin(phases, k) .. Begin(phases, k+1)
  BY <1>2, SomePhase DEF MotionInv
<1> DEFINE at == clock - Begin(phases, k)
           phase == phases[k]
<1>5. freq = FrequencyIn(phase, at)
  BY <1>2, <1>4, Lookup DEF MotionInv
<1>6. at \in Int
  <2>1. Begin(phases, k) \in Nat /\ Begin(phases, k+1) \in Nat
    BY <1>2, BeginsNat
  <2> QED  BY <1>4, <2>1
<1>7. Curve(phase) /\ {phase.start, phase.end} \subseteq {low, a, b, top}
  BY <1>1, Turns
<1>8. /\ freq \in Int
      /\ phase.start <= phase.end => phase.start <= freq /\ freq <= phase.end
      /\ phase.end <= phase.start => phase.end <= freq /\ freq <= phase.start
  BY <1>5, <1>6, <1>7, CurveClimbs
<1> HIDE DEF low, high, top, a, b, phase
<1>9. freq <= high /\ freq >= Smaller(low, b)
  BY <1>3, <1>7, <1>8 DEF Smaller
<1> QED  BY <1>2, <1>9 DEF Envelope, WellMade, low, high, top, b

\* Envelope: whatever the target, the frequency stays within the limits the
\* calculator was made with (calculator.py:26), except that a target close to
\* the minimum takes it down to 0.8 of the target (phase_builder.py:35), and it
\* never jumps from a phase to the next.
THEOREM EnvelopeKept == Spec => []Envelope
  BY MotionInvHolds, InvEnvelope, PTL

\* What a step does depends on the phase it is in.
LEMMA AdvanceRamps ==
    ASSUME MotionInv, Advance, Upper(Clamped(job)) >= Lower(job.limits.low, Clamped(job))
    PROVE  /\ ~ Reached => freq' >= freq
           /\ Reached /\ ~ Leaves => freq' = Clamped(job)
           /\ Leaves => freq' <= freq
<1> DEFINE phases == Phases(job)
           n == Len(phases)
           B(i) == Begin(phases, i)
<1>1. job \in Params /\ WellMade(phases) /\ clock \in 0..TotalDuration(phases)
      /\ freq = FrequencyAt(phases, clock) /\ freq' = FrequencyAt(phases, clock')
      /\ clock' \in 0..TotalDuration(phases)
  BY NextSample DEF MotionInv, Advance
<1>2. PICK k \in 1..n : B(k) <= clock /\ clock < clock' /\ clock' <= B(k+1)
  BY NextSample
<1>3. n = 6 \/ n = 7
  BY <1>1 DEF WellMade, Curve
<1>4. B(k) \in Nat /\ B(k+1) \in Nat /\ clock \in Int /\ clock' \in Int /\ k \in Int
  <2>1. B(k) \in Nat /\ B(k+1) \in Nat
    BY <1>1, BeginsNat
  <2>2. clock \in Int /\ clock' \in Int
    BY <1>1
  <2> QED  BY <1>3, <2>1, <2>2
<1> DEFINE phase == phases[k]
           s == clock - B(k)
           t == clock' - B(k)
<1>5. clock \in B(k)..B(k+1) /\ clock' \in B(k)..B(k+1) /\ s \in Int /\ t \in Int /\ s <= t
  BY <1>2, <1>4
<1>6. freq = FrequencyIn(phase, s) /\ freq' = FrequencyIn(phase, t)
  BY <1>1, <1>5, Lookup
<1>7. /\ Curve(phase)
      /\ k < 4 => phase.start <= phase.end
      /\ k >= n - 2 => phase.end <= phase.start
      /\ k = 4 /\ n = 7 => phase.start = Clamped(job) /\ phase.end = Clamped(job)
  BY <1>1, Turns
<1>8. /\ freq \in Int /\ freq' \in Int
      /\ phase.start <= phase.end => /\ phase.start <= freq
                                     /\ freq <= freq' /\ freq' <= phase.end
      /\ phase.end <= phase.start => freq' <= freq
  BY <1>5, <1>6, <1>7, CurveClimbs
<1>9. \A i, j \in 1..n : i < j => B(i+1) <= B(j)
  BY <1>1, BeginsAscend
<1>10. \A i \in 1..n : B(i) \in Nat /\ B(i+1) \in Nat
  BY <1>1, BeginsNat
<1>11. (Reached <=> clock >= B(4)) /\ (Leaves <=> clock >= B(n-2))
  BY DEF Reached, Leaves
<1>12. Clamped(job) \in Nat
  BY <1>1, TargetWithinLimits
<1> HIDE DEF phases, n, B, phase, s, t
<1>13. clock < B(k+1) /\ 4 \in 1..n /\ k \in 1..n /\ B(4) \in Nat /\ B(4+1) \in Nat
  BY <1>2, <1>3, <1>4, <1>10
<1>14. ASSUME ~ Reached PROVE freq' >= freq
  <2>1. k < 4
    <3> SUFFICES ASSUME k >= 4 PROVE FALSE
      BY <1>4
    <3>1. B(4) <= B(k)
      BY <1>3, <1>4, <1>9, <1>10, <1>13
    <3> QED  BY <1>2, <1>4, <1>10, <1>11, <1>13, <1>14, <3>1
  <2> QED  BY <1>7, <1>8, <2>1
<1>15. ASSUME Leaves PROVE freq' <= freq
  <2>1. k >= n - 2
    <3> SUFFICES ASSUME k < n - 2 PROVE FALSE
      BY <1>3, <1>4
    <3>1. n - 2 \in 1..n
      BY <1>3
    <3>2. B(k+1) <= B(n-2) /\ B(n-2) \in Nat
      BY <1>9, <1>10, <3>1
    <3> QED  BY <1>4, <1>11, <1>13, <1>15, <3>2
  <2> QED  BY <1>7, <1>8, <2>1
<1>16. ASSUME Reached, ~ Leaves PROVE freq' = Clamped(job)
  <2>1. n = 7
    BY <1>3, <1>11, <1>16
  <2>2. k >= 4
    <3> SUFFICES ASSUME k < 4 PROVE FALSE
      BY <1>4
    <3>1. B(k+1) <= B(4) /\ B(4) \in Nat
      BY <1>9, <1>10, <1>13
    <3> QED  BY <1>4, <1>11, <1>13, <1>16, <3>1
  <2>3. k <= 4
    <3> SUFFICES ASSUME k > 4 PROVE FALSE
      BY <1>4
    <3>1. B(4+1) <= B(k) /\ B(4+1) \in Nat
      BY <1>9, <1>10, <1>13
    <3> QED  BY <1>2, <1>4, <1>11, <1>16, <2>1, <3>1
  <2>4. phase.start = Clamped(job) /\ phase.end = Clamped(job)
    BY <1>4, <1>7, <2>1, <2>2, <2>3
  <2> QED  BY <1>8, <1>12, <2>4
<1> QED  BY <1>14, <1>15, <1>16

\* RampsUpThenDown: if the linear phase goes up at all (phase_builder.py:35),
\* a profile rises to its target, stays there and falls from it, in each step.
THEOREM RampsKept == Spec => RampsUpThenDown
<1>1. MotionInv /\ [Next]_vars =>
        [Advance /\ Upper(Clamped(job)) >= Lower(job.limits.low, Clamped(job)) =>
            /\ ~ Reached => freq' >= freq
            /\ Reached /\ ~ Leaves => freq' = Clamped(job)
            /\ Leaves => freq' <= freq]_vars
  BY AdvanceRamps
<1> QED  BY <1>1, MotionInvHolds, PTL DEF Spec, RampsUpThenDown

\* The steps of a profile: both ramps, and the cruise.
LEMMA ProfileArea ==
    ASSUME NEW p \in Params, Clamped(p) > 0
    PROVE  LET up == Acceleration(Durations(p.accel, p.jerk), p.limits.low, Clamped(p))
               down == Deceleration(Durations(p.decel, p.jerk), p.limits.low, Clamped(p))
               time == (CruiseSteps(p, up) * Hz * Second) \div Clamped(p)
           IN  /\ Total(up, Len(up), Area) \in Nat /\ Total(down, Len(down), Area) \in Nat
               /\ CruiseSteps(p, up) \in Nat /\ time \in Nat
               /\ Total(Phases(p), Len(Phases(p)), Area)
                    = Total(up, Len(up), Area) + Total(down, Len(down), Area)
                      + 2 * Clamped(p) * time
<1> DEFINE phases == Phases(p)
           top == Clamped(p)
           up == Acceleration(Durations(p.accel, p.jerk), p.limits.low, top)
           down == Deceleration(Durations(p.decel, p.jerk), p.limits.low, top)
           time == (CruiseSteps(p, up) * Hz * Second) \div top
           A(i) == Area(phases[i])
           n == Len(phases)
<1>1. p.accel \in Nat /\ p.decel \in Nat /\ top \in Nat /\ top > 0
  BY InputTypes, RampIs
<1>2. /\ Len(up) = 3 /\ Len(down) = 3
      /\ \A k \in 1..3 : Area(up[k]) \in Nat /\ Area(down[k]) \in Nat
      /\ Total(up, 3, Area) \in Nat /\ Total(down, 3, Area) \in Nat
      /\ Total(up, 3, Area) = Area(up[1]) + Area(up[2]) + Area(up[3])
      /\ Total(down, 3, Area) = Area(down[1]) + Area(down[2]) + Area(down[3])
  BY <1>1, RampArea
<1>3. /\ Total(up, Len(up), Area) \in Nat /\ Total(down, Len(down), Area) \in Nat
      /\ CruiseSteps(p, up) \in Nat
  <2> HIDE DEF up, down
  <2>1. Total(up, Len(up), Area) \in Nat /\ Total(down, Len(down), Area) \in Nat
    BY <1>2
  <2> QED  BY <2>1, StepsAreWhole
<1>4. /\ time \in Nat
      /\ Cruise(p, up) = IF time > 0 THEN <<Phase(time, top, top, "constant")>> ELSE <<>>
  <2> HIDE DEF up
  <2> QED  BY <1>1, <1>3, CruiseIs
<1>5. /\ n = 6 + Len(Cruise(p, up))
      /\ phases[1] = up[1] /\ phases[2] = up[2] /\ phases[3] = up[3]
      /\ Len(Cruise(p, up)) = 1 => phases[4] = Cruise(p, up)[1]
      /\ phases[n-2] = down[1] /\ phases[n-1] = down[2] /\ phases[n] = down[3]
  BY PhasesAre DEF Acceleration, Deceleration
<1>6. Total(phases, n, Area) =
          (IF 1 <= n THEN A(1) ELSE 0) + (IF 2 <= n THEN A(2) ELSE 0) + (IF 3 <= n THEN A(3) ELSE 0)
          + (IF 4 <= n THEN A(4) ELSE 0) + (IF 5 <= n THEN A(5) ELSE 0) + (IF 6 <= n THEN A(6) ELSE 0)
          + (IF 7 <= n THEN A(7) ELSE 0)
  BY DEF Total
<1> DEFINE U(i) == Area(up[i])
           D(i) == Area(down[i])
<1>7. /\ A(1) = U(1) /\ A(2) = U(2) /\ A(3) = U(3)
      /\ A(n-2) = D(1) /\ A(n-1) = D(2) /\ A(n) = D(3)
      /\ U(1) \in Nat /\ U(2) \in Nat /\ U(3) \in Nat
      /\ D(1) \in Nat /\ D(2) \in Nat /\ D(3) \in Nat
  BY <1>2, <1>5
<1>8. CASE time > 0
  <2>1. Cruise(p, up) = <<Phase(time, top, top, "constant")>>
    BY <1>4, <1>8
  <2>2. n = 7 /\ phases[4] = Phase(time, top, top, "constant")
    BY <1>5, <2>1
  <2>3. A(4) = (top + top) * time
    BY <2>2 DEF Area, Phase
  <2> HIDE DEF A, U, D, n, top, time, phases, up, down
  <2>4. A(4) = 2 * top * time /\ 2 * top * time \in Nat
    BY <1>1, <1>4, <2>3
  <2>5. A(5) = D(1) /\ A(6) = D(2) /\ A(7) = D(3) /\ n = 7
    BY <1>7, <2>2
  <2>6. Total(phases, n, Area) = U(1) + U(2) + U(3) + A(4) + D(1) + D(2) + D(3)
    BY <1>6, <1>7, <2>5
  <2>7. Total(phases, n, Area)
          = (U(1) + U(2) + U(3)) + (D(1) + D(2) + D(3)) + 2 * top * time
    BY <1>7, <2>4, <2>6
  <2> QED  BY <1>2, <1>3, <1>4, <2>7 DEF top, time, phases, n, U, D, up, down
<1>9. CASE time = 0
  <2>1. Cruise(p, up) = <<>>
    BY <1>4, <1>9
  <2>2. n = 6
    BY <1>5, <2>1
  <2> HIDE DEF A, U, D, n, top, time, phases, up, down
  <2>3. A(4) = D(1) /\ A(5) = D(2) /\ A(6) = D(3)
    BY <1>7, <2>2
  <2>4. Total(phases, n, Area) = U(1) + U(2) + U(3) + D(1) + D(2) + D(3) + 0
    BY <1>6, <1>7, <2>2, <2>3
  <2>5. 2 * top * time = 0
    BY <1>1, <1>9
  <2>6. Total(phases, n, Area)
          = (U(1) + U(2) + U(3)) + (D(1) + D(2) + D(3)) + 2 * top * time
    BY <1>7, <2>4, <2>5
  <2> QED  BY <1>2, <1>3, <1>4, <2>6 DEF top, time, phases, n, U, D, up, down
<1> QED  BY <1>4, <1>8, <1>9

\* What the truncations lose: the ramp's steps by less than one each, the
\* cruise's time by less than one unit.
LEMMA StepsTaken ==
    ASSUME NEW rise \in Nat, NEW fall \in Nat,
           NEW steps \in Nat, NEW top \in Nat, NEW time \in Nat,
           NEW whole \in Int, NEW left \in Nat, NEW u \in Nat,
           2 * u * whole <= rise, rise < 2 * u * whole + 2 * u,
           left = steps - 2 * whole,
           top * time <= left * u, left * u < top * time + top
    PROVE  /\ rise + fall + 2 * top * time > steps * (2 * u) + (fall - rise) - 2 * top
           /\ rise + fall + 2 * top * time < (steps + 2) * (2 * u) + (fall - rise)
<1> DEFINE x == top * time
           y == u * whole
           z == steps * u
<1>1. x \in Int /\ y \in Int /\ z \in Int
  OBVIOUS
<1>2. left * u = z - 2 * y /\ 2 * u * whole = 2 * y /\ 2 * top * time = 2 * x
      /\ steps * (2 * u) = 2 * z /\ (steps + 2) * (2 * u) = 2 * z + 4 * u
  OBVIOUS
<1>3. x <= left * u /\ left * u < x + top /\ left * u \in Int
  OBVIOUS
<1> HIDE DEF x, y, z
<1> QED  BY <1>1, <1>2, <1>3

\* Only the truncations, and what one ramp takes more than the other, keep a
\* profile with room for both from exactly the steps it was given.
LEMMA InvSteps == MotionInv => TakesGivenSteps
<1> DEFINE up == Acceleration(Durations(job.accel, job.jerk), job.limits.low, Clamped(job))
           down == Deceleration(Durations(job.decel, job.jerk), job.limits.low, Clamped(job))
           taken == Total(Phases(job), Len(Phases(job)), Area)
           rise == Total(up, Len(up), Area)
           fall == Total(down, Len(down), Area)
           top == Clamped(job)
           left == CruiseSteps(job, up)
           n == left * Hz * Second
           time == n \div top
           u == Hz * Second
           whole == EstimatedSteps(up)
<1> SUFFICES ASSUME MotionInv, job # None, top > 0
             PROVE  /\ job.steps >= 2 * whole =>
                          /\ taken > job.steps * (2 * Hz * Second) + (fall - rise) - 2 * top
                          /\ taken < (job.steps + 2) * (2 * Hz * Second) + (fall - rise)
                    /\ ~ (job.steps >= 2 * whole) => taken = rise + fall
  BY DEF TakesGivenSteps
<1>1. job \in Params
  BY DEF MotionInv
<1>2. top \in Nat \ {0} /\ job.steps \in Nat
  BY <1>1, TargetWithinLimits, InputTypes
<1>3. /\ rise \in Nat /\ fall \in Nat /\ left \in Nat /\ time \in Nat
      /\ taken = rise + fall + 2 * top * time
  BY <1>1, ProfileArea
<1>4. whole = rise \div (2 * Hz * Second)
  BY DEF EstimatedSteps
<1>5. left = Larger(0, job.steps - 2 * whole)
  BY DEF CruiseSteps
<1> HIDE DEF up, down, taken, rise, fall, left, whole
<1>6. u = 720000 /\ u \in Nat /\ 2 * Hz * Second = 2 * u /\ n = left * u
  BY <1>3 DEF Hz, Second
<1>7. whole \in Int /\ (2 * u) * whole <= rise /\ rise < (2 * u) * whole + 2 * u
  <2> HIDE DEF u
  <2> DEFINE b == 2 * u
  <2>1. b \in Nat \ {0} /\ whole = rise \div b
    BY <1>4, <1>6
  <2>2. rise \in Int
    BY <1>3
  <2> HIDE DEF b
  <2>3. whole \in Int /\ b * whole <= rise /\ rise < b * whole + b
    BY <2>1, <2>2, Quotient
  <2> QED  BY <2>3 DEF b
<1> HIDE DEF u
<1>8. left * u \in Int /\ time = (left * u) \div top
  BY <1>3, <1>6
<1>9. top * time <= left * u /\ left * u < top * time + top
  BY <1>2, <1>8, Quotient
<1>10. 2 * u * whole <= rise /\ rise < 2 * u * whole + 2 * u
  BY <1>6, <1>7
<1> HIDE DEF top, time
<1>11. ASSUME job.steps >= 2 * whole
       PROVE  /\ taken > job.steps * (2 * Hz * Second) + (fall - rise) - 2 * top
              /\ taken < (job.steps + 2) * (2 * Hz * Second) + (fall - rise)
  <2>1. left = job.steps - 2 * whole
    BY <1>2, <1>5, <1>7, <1>11 DEF Larger
  <2>2. /\ rise + fall + 2 * top * time > job.steps * (2 * u) + (fall - rise) - 2 * top
        /\ rise + fall + 2 * top * time < (job.steps + 2) * (2 * u) + (fall - rise)
    BY <1>2, <1>3, <1>6, <1>7, <1>9, <1>10, <2>1, StepsTaken
  <2> QED  BY <1>3, <1>6, <2>2
<1>12. ASSUME ~ (job.steps >= 2 * whole) PROVE taken = rise + fall
  <2>1. left = 0
    BY <1>2, <1>5, <1>7, <1>12 DEF Larger
  <2>2. left * u = 0
    BY <1>6, <2>1
  <2>3. top * time <= 0
    BY <1>9, <2>2
  <2>4. time = 0
    <3> SUFFICES ASSUME time >= 1 PROVE FALSE
      BY <1>3
    <3>1. top * time >= top
      BY <1>2, <1>3
    <3> QED  BY <1>2, <1>3, <2>3, <3>1
  <2>5. 2 * top * time = 0
    BY <1>2, <2>4
  <2> QED  BY <1>3, <2>5
<1> QED  BY <1>11, <1>12

\* TakesGivenSteps: taking the deceleration to be as long as the acceleration and
\* truncating both (calculator.py:40-43) costs less than two steps and the
\* difference of the ramps, whatever the durations and the frequencies; where
\* max(0, ...) hides that the steps are too few, the ramps are all there is.
THEOREM StepsTakenAsGiven == Spec => []TakesGivenSteps
  BY MotionInvHolds, InvSteps, PTL
=============================================================================
