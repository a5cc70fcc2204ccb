SPECIFICATION FairSpec
CONSTANTS
    Caller = {c1, c2}
    Timer = {k1, k2}
    Request = {r1}
    None = None
    MayFail = FALSE
    Reentrant = FALSE
INVARIANT WaitTimed
PROPERTIES EveryCallReturns WaitEnds ImplementsLifecycle
