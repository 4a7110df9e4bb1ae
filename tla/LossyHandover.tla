---------------------------- MODULE LossyHandover ----------------------------
(***************************************************************************)
(* The abstract promise of the event queue (ble.rs push_event/next_event): *)
(* events 1, 2, 3, ... are offered one after the other; an event that has  *)
(* not been handed over is dropped when Capacity more events have been     *)
(* offered; until then it can be handed over, once, in some order.         *)
(***************************************************************************)
EXTENDS Integers

CONSTANTS Capacity, MaxPush

VARIABLES pending, handed, pushed

vars == <<pending, handed, pushed>>

Init == pending = {} /\ handed = {} /\ pushed = 0

Offer ==
    /\ pushed < MaxPush
    /\ pushed' = pushed + 1
    /\ pending' = (pending \cup {pushed + 1}) \ {pushed + 1 - Capacity}
    /\ UNCHANGED handed

HandOver ==
    \E e \in pending \ handed :
        /\ pending' = pending \ {e}
        /\ handed' = handed \cup {e}
        /\ UNCHANGED pushed

Next == Offer \/ HandOver

Spec == Init /\ [][Next]_vars
=============================================================================
