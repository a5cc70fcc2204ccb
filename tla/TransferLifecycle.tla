-------------------------- MODULE TransferLifecycle --------------------------
(****************************************************************************)
(* What the gated transfer state machine promises its callers, seen from    *)
(* outside the lock: a lifecycle whose operations are atomic, and a single  *)
(* deadline that ends the transfer when it passes.  There is no task, no    *)
(* lock, no callback and no queue here; GatedTransfer implements it.        *)
(****************************************************************************)
CONSTANTS Request, None

VARIABLES
    phase,      \* where the transfer is in its life
    current,    \* the request being served
    deadline    \* what the transfer is given a limited time for, or None

vars == <<phase, current, deadline>>

Live == {"waiting_operator", "active", "paused"}

Init == phase = "idle" /\ current = None /\ deadline = None

Begin ==
    /\ phase = "idle"
    /\ phase' = "waiting_operator"
    /\ current' \in Request
    /\ deadline' = "operator_wait"

\* An operation on the request in hand.
Move(from, to, limit) ==
    /\ phase \in from
    /\ phase' = to
    /\ deadline' = limit
    /\ UNCHANGED current

Engage == Move({"waiting_operator"}, "active", "max_duration")
Pause == Move({"active"}, "paused", "operator_pause")
Resume == Move({"paused"}, "active", None)
EndEarly == Move({"active"}, "completed", None)
Abort == Move(Live, "aborted", None)

\* The target may be reported as long as a request is remembered, even one
\* that has ended.
Complete == current # None /\ phase' = "completed" /\ deadline' = None
                           /\ UNCHANGED current

Fail == phase' = "error" /\ deadline' = None /\ UNCHANGED current

Forget == phase' = "idle" /\ current' = None /\ deadline' = None

Expire ==
    /\ deadline # None
    /\ Move(Live, "timeout", None)

Next == \/ Begin \/ Engage \/ Pause \/ Resume
        \/ Complete \/ EndEarly \/ Fail \/ Abort \/ Forget \/ Expire

Spec == Init /\ [][Next]_vars

\* A deadline is kept: it passes unless an operation moves it first.
FairSpec == Spec /\ WF_vars(Expire)
=============================================================================
