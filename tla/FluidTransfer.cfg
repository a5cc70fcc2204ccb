SPECIFICATION FluidPromptSpec
CONSTANTS
    Caller = {c1, c2, operator, flow}
    Client = {c1, c2}
    Operator = operator
    Flow = flow
    Timer = {k1, k2}
    Request = {r1}
    None = None
    MayFail = TRUE
    Reentrant = TRUE
    Target = 2
INVARIANTS FluidTypeOK PumpGuarded IdleIsQuiet HandlersMeetMachine
PROPERTIES TargetStopsPump ReleaseStopsPump
