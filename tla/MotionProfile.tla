---------------------------- MODULE MotionProfile ----------------------------
(****************************************************************************)
(* S-curve profiles (embedded_control/motion): AccelerationProfileCalculator*)
(* with the phase builder and the curve functions, and a pulse generator    *)
(* that looks the frequency up as it goes along the profile.                *)
(*                                                                          *)
(* Frequencies are in 1/120 Hz, times in 1/6 ms and ratios in percent, each  *)
(* rounded down to a whole number, where the code's floats are rounded in   *)
(* the last place; for the inputs of the run all of them are exact.  Of a   *)
(* curve the model knows the values at the thirds and the middle of its     *)
(* phase, which are rational.                                               *)
(****************************************************************************)
EXTENDS Integers, Sequences, FiniteSets

CONSTANTS
    Limits,       \* [low, high]: a calculator's minimum and maximum frequency
    Targets,      \* target frequencies
    RampTimes,    \* acceleration and deceleration times
    JerkPercent,  \* jerk time ratios
    StepCounts,   \* steps to take
    None

Hz == 120
Second == 6000
Shortest == 600    \* 0.1 s, the least duration of a phase of a ramp

Params == [limits : Limits, target : Targets, accel : RampTimes,
           decel : RampTimes, jerk : JerkPercent, steps : StepCounts]

ASSUME MotionAssumption ==
    /\ \A l \in Limits : l.low \in Nat /\ l.high \in Nat /\ l.low <= l.high
    /\ Targets \subseteq Nat /\ RampTimes \subseteq Nat
    /\ JerkPercent \subseteq 0..100 /\ StepCounts \subseteq Nat
    /\ None \notin Params

VARIABLES
    job,    \* what the profile was calculated for, or None
    clock,  \* how far the pulse generator has come
    freq    \* the frequency it has looked up last

vars == <<job, clock, freq>>

Larger(a, b) == IF a > b THEN a ELSE b
Smaller(a, b) == IF a < b THEN a ELSE b

-----------------------------------------------------------------------------
(* The phases.                                                              *)

\* calculate_phase_durations, for one ramp.
Durations(time, jerk) ==
    [jerk     |-> Larger((time * jerk) \div 100, Shortest),
     constant |-> Larger((time * (100 - 2 * jerk)) \div 100, Shortest)]

Phase(d, f, g, shape) == [duration |-> d, start |-> f, end |-> g, curve |-> shape]

\* The frequencies at which a ramp turns from jerk to constant acceleration
\* and back: 0.3 of the way up, and 0.8 of the target.
Lower(low, top) == low + ((top - low) * 3) \div 10
Upper(top) == (top * 8) \div 10

\* No duration is zero, so every phase is there.
Acceleration(d, low, top) ==
    <<Phase(d.jerk, low, Lower(low, top), "s"),
      Phase(d.constant, Lower(low, top), Upper(top), "linear"),
      Phase(d.jerk, Upper(top), top, "s")>>

\* Mutant: the linear phase of the deceleration starts at the target.
DecelerationFromTop(d, low, top) ==
    <<Phase(d.jerk, top, Upper(top), "s"),
      Phase(d.constant, top, Lower(low, top), "linear"),
      Phase(d.jerk, Lower(low, top), low, "s")>>

Deceleration(d, low, top) ==
    <<Phase(d.jerk, top, Upper(top), "s"),
      Phase(d.constant, Upper(top), Lower(low, top), "linear"),
      Phase(d.jerk, Lower(low, top), low, "s")>>

\* What the first n phases come to; there are seven at the most.
Total(phases, n, Value(_)) ==
    LET Worth(k) == IF k <= n THEN Value(phases[k]) ELSE 0
    IN  Worth(1) + Worth(2) + Worth(3) + Worth(4) + Worth(5) + Worth(6) + Worth(7)

\* Twice the steps a phase takes, in units of Hz * Second: its mean frequency
\* by its duration.
Area(p) == (p.start + p.end) * p.duration

\* estimate_steps_in_phases truncates to whole steps.
EstimatedSteps(phases) == Total(phases, Len(phases), Area) \div (2 * Hz * Second)

-----------------------------------------------------------------------------
(* The profile.                                                             *)

\* Mutant: the target is not limited from above.
ClampedBelow(p) == Larger(p.limits.low, p.target)

Clamped(p) == Larger(p.limits.low, Smaller(p.target, p.limits.high))

\* Mutant: the steps of the deceleration are not taken off.
CruiseAfterRamp(p, ramp) == Larger(0, p.steps - EstimatedSteps(ramp))

\* Both ramps are taken to be as long as the acceleration.
CruiseSteps(p, ramp) == Larger(0, p.steps - 2 * EstimatedSteps(ramp))

Cruise(p, ramp) ==
    LET duration == IF Clamped(p) > 0
                    THEN (CruiseSteps(p, ramp) * Hz * Second) \div Clamped(p) ELSE 0
    IN  IF duration > 0 THEN <<Phase(duration, Clamped(p), Clamped(p), "constant")>>
                        ELSE <<>>

\* calculate_s_curve_profile.
Phases(p) ==
    LET ramp == Acceleration(Durations(p.accel, p.jerk), p.limits.low, Clamped(p))
    IN  ramp \o Cruise(p, ramp)
             \o Deceleration(Durations(p.decel, p.jerk), p.limits.low, Clamped(p))

Begin(phases, k) == Total(phases, k - 1, LAMBDA p : p.duration)
TotalDuration(phases) == Begin(phases, Len(phases) + 1)

-----------------------------------------------------------------------------
(* Looking a frequency up.                                                  *)

\* Both jerk functions are (1 - cos(pi * progress)) / 2: after 0, 1/3, 1/2,
\* 2/3 and all of the phase a quarter more each.
Quarters(sixths) ==
    CASE sixths < 2 -> 0 [] sixths = 2 -> 1 [] sixths = 3 -> 2 [] sixths > 3 -> 3

\* A sample's time is rounded down to the clock, which + 5 undoes.
FrequencyIn(p, t) ==
    LET sixths == (6 * t + 5) \div p.duration
    IN  CASE t <= 0 -> p.start
          [] t >= p.duration -> p.end
          [] OTHER ->
             CASE p.curve = "s" -> p.start + ((p.end - p.start) * Quarters(sixths)) \div 4
               [] p.curve = "linear" -> p.start + ((p.end - p.start) * sixths) \div 6
               [] p.curve = "constant" -> p.start

\* get_frequency_at_step_ratio, at ratio t / TotalDuration: of two phases that
\* meet at t it is the first that is asked.
FrequencyAt(phases, t) ==
    CASE t <= 0 -> phases[1].start
      [] t >= TotalDuration(phases) -> phases[Len(phases)].end
      [] OTHER ->
         LET k == CHOOSE k \in 1..Len(phases) :
                      /\ Begin(phases, k) < t
                      /\ t <= Begin(phases, k + 1)
         IN  FrequencyIn(phases[k], t - Begin(phases, k))

\* The times at which the curve of a phase is known.
Samples(phases) ==
    {Begin(phases, k) + (n * phases[k].duration) \div 6 :
        k \in 1..Len(phases), n \in {0, 2, 3, 4, 6}}

-----------------------------------------------------------------------------
(* A calculation, and the pulse generator.                                  *)

Init == job = None /\ clock = 0 /\ freq = 0

Calculate(p) ==
    /\ job = None
    /\ job' = p
    /\ clock' = 0
    /\ freq' = FrequencyAt(Phases(p), 0)

Advance ==
    /\ job # None
    /\ clock < TotalDuration(Phases(job))
    /\ LET later == {t \in Samples(Phases(job)) : t > clock}
       IN  clock' \in {t \in later : \A s \in later : t <= s}
    /\ freq' = FrequencyAt(Phases(job), clock')
    /\ UNCHANGED job

Finish ==
    /\ job # None
    /\ clock = TotalDuration(Phases(job))
    /\ job' = None /\ clock' = 0 /\ freq' = 0

Next == (\E p \in Params : Calculate(p)) \/ Advance \/ Finish

Spec == Init /\ [][Next]_vars

-----------------------------------------------------------------------------
(* Correctness.                                                             *)

\* A profile starts and ends at the calculator's minimum, each phase starts at
\* the frequency the one before it has ended at, and on the whole way the
\* frequency stays within the calculator's limits; for a target so close to the
\* minimum that 0.8 of it is lower, it falls below, but not below that.
Envelope == job # None =>
    LET phases == Phases(job)
        low == job.limits.low
    IN  /\ phases[1].start = low /\ phases[Len(phases)].end = low
        /\ \A k \in 1..Len(phases)-1 : phases[k].end = phases[k+1].start
        /\ freq <= job.limits.high
        /\ freq >= Smaller(low, Upper(Clamped(job)))

\* The frequency only rises until it has come to the target, and only falls
\* from the time it leaves it, unless 0.8 of the target is below the point
\* where the jerk ends.
Reached == clock >= Begin(Phases(job), 4)
Leaves == clock >= Begin(Phases(job), Len(Phases(job)) - 2)
RampsUpThenDown ==
    [][Advance /\ Upper(Clamped(job)) >= Lower(job.limits.low, Clamped(job)) =>
        /\ ~ Reached => freq' >= freq
        /\ Reached /\ ~ Leaves => freq' = Clamped(job)
        /\ Leaves => freq' <= freq]_vars

\* docs/architecture.md line 134: "a complete profile for a given step count".
\* Where both ramps find room, the profile takes the steps it was calculated
\* for, but for what the cruise does in one unit of the clock, for less than two
\* more, and for what the deceleration takes more or less than the acceleration,
\* which it is not asked for.  Where they do not, it takes what the ramps take.
TakesGivenSteps ==
    job # None /\ Clamped(job) > 0 =>
        LET up == Acceleration(Durations(job.accel, job.jerk), job.limits.low, Clamped(job))
            down == Deceleration(Durations(job.decel, job.jerk), job.limits.low, Clamped(job))
            taken == Total(Phases(job), Len(Phases(job)), Area)
            rise == Total(up, Len(up), Area)
            fall == Total(down, Len(down), Area)
        IN  IF job.steps >= 2 * EstimatedSteps(up)
            THEN /\ taken > job.steps * (2 * Hz * Second) + (fall - rise) - 2 * Clamped(job)
                 /\ taken < (job.steps + 2) * (2 * Hz * Second) + (fall - rise)
            ELSE taken = rise + fall
=============================================================================
