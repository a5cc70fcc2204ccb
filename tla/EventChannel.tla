---------------------------- MODULE EventChannel ----------------------------
(****************************************************************************)
(* What the sensor dispatcher promises: a channel that delivers the events  *)
(* it accepted, each once and in the order of acceptance, and holds no more *)
(* than Room of them.  SensorDispatch implements it.                        *)
(****************************************************************************)
EXTENDS Naturals, Sequences

CONSTANTS Event, Room

VARIABLES accepted, delivered

vars == <<accepted, delivered>>

Init == accepted = <<>> /\ delivered = <<>>

Accept ==
    /\ Len(accepted) < Len(delivered) + Room
    /\ \E e \in Event : accepted' = Append(accepted, e)
    /\ UNCHANGED delivered

Deliver ==
    /\ Len(delivered) < Len(accepted)
    /\ delivered' = Append(delivered, accepted[Len(delivered) + 1])
    /\ UNCHANGED accepted

Spec == Init /\ [][Accept \/ Deliver]_vars
=============================================================================
