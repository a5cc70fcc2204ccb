--------------------------- MODULE MCMotionProfile ---------------------------
(* Inputs for the run of MotionProfile.  The targets divide 1000 Hz, so a    *)
(* cruise has a duration that is exact.                                     *)
EXTENDS MotionProfile

MCLimits == {[low |-> l * Hz, high |-> 100 * Hz] : l \in {0, 20, 40}}
MCTargets == {0, 25 * Hz, 50 * Hz, 200 * Hz}
MCRampTimes == {Second \div 10, Second \div 2, Second}
MCJerkPercent == {0, 30, 50}
MCStepCounts == {0, 50, 200}
=============================================================================
