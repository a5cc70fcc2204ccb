SPECIFICATION FluidFairSpec
CONSTANTS
    Caller = {c1, operator, flow}
    Client = {c1}
    Operator = operator
    Flow = flow
    Timer = {k1, k2}
    Request = {r1}
    None = None
    MayFail = TRUE
    Reentrant = TRUE
    Target = 2
PROPERTY AbortEnds
