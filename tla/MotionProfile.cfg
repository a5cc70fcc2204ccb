SPECIFICATION Spec
CONSTANTS
    Limits <- MCLimits
    Targets <- MCTargets
    RampTimes <- MCRampTimes
    JerkPercent <- MCJerkPercent
    StepCounts <- MCStepCounts
    None = None
INVARIANTS Envelope TakesGivenSteps
PROPERTY RampsUpThenDown
