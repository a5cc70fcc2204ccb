SPECIFICATION Spec
CONSTANTS
    Caller = {c1, c2}
    Timer = {k1, k2}
    Request = {r1}
    None = None
    MayFail = TRUE
    Reentrant = TRUE
SYMMETRY Symmetry
INVARIANTS TypeOK LockOK NoStaleTimer LiveRecord
