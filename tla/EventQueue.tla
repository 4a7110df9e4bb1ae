----------------------------- MODULE EventQueue -----------------------------
(***************************************************************************)
(* The event queue as a component: the stack pushes events (push_event),   *)
(* the application pops them (next_event, drain_events) whenever it likes. *)
(* The application may call gap_* operations from the callback of          *)
(* drain_events and may drive the ticks without draining, so pushes and    *)
(* pops interleave freely.  The events are numbered in the order in which  *)
(* they are pushed; "delivered" is the history of what next_event returned.*)
(***************************************************************************)
EXTENDS EventRing, Sequences

CONSTANT MaxPush      \* bound on the number of events pushed

ASSUME PushAssumption == MaxPush \in Nat /\ None \notin Nat

VARIABLES
    ring,             \* events, event_head, event_tail
    pushed,           \* number of events pushed so far
    delivered,        \* sequence of the events returned by next_event
    overflowed        \* has push_event ever found the ring full?

vars == <<ring, pushed, delivered, overflowed>>

Init ==
    /\ ring = EmptyRing
    /\ pushed = 0
    /\ delivered = << >>
    /\ overflowed = FALSE

push_event ==
    /\ pushed < MaxPush
    /\ ring' = Pushed(ring, pushed + 1)
    /\ pushed' = pushed + 1
    /\ overflowed' = (overflowed \/ Overflows(ring))
    /\ UNCHANGED delivered

\* A call that returns Some(evt); a call that returns None changes nothing.
next_event ==
    /\ AtTail(ring) # None
    /\ delivered' = Append(delivered, AtTail(ring))
    /\ ring' = Popped(ring)
    /\ UNCHANGED <<pushed, overflowed>>

Next == push_event \/ next_event

\* Every event loop of the stack (adv_forever, scan_forever, conn_forever)
\* drains the queue after each tick.
Fairness == WF_vars(next_event)

Spec == Init /\ [][Next]_vars /\ Fairness

-----------------------------------------------------------------------------
TypeOK ==
    /\ ring \in [slots : [Cells -> Nat \cup {None}], head : Cells, tail : Cells]
    /\ pushed \in Nat
    /\ delivered \in Seq(Nat)
    /\ overflowed \in BOOLEAN

Delivered == {delivered[i] : i \in 1 .. Len(delivered)}

Held == {ring.slots[c] : c \in Cells} \ {None}

(***************************************************************************)
(* No event is handed to the application twice, although after an overflow *)
(* next_event reads cells that push_event has already skipped.             *)
(***************************************************************************)
AtMostOnce ==
    \A i, j \in 1 .. Len(delivered) : delivered[i] = delivered[j] => i = j

(***************************************************************************)
(* An event is lost only by being overwritten: one of the last             *)
(* EVENT_QUEUE_LEN events is either delivered or still in the ring, even   *)
(* when push_event has advanced the tail past it.                          *)
(***************************************************************************)
LostOnlyWhenOverwritten ==
    \A e \in 1 .. pushed :
        e > pushed - EVENT_QUEUE_LEN => e \in Delivered \cup Held

(***************************************************************************)
(* Until the ring overflows for the first time the queue is a FIFO: the    *)
(* events delivered are exactly the first ones pushed, in order.           *)
(***************************************************************************)
FifoUntilOverflow ==
    ~overflowed => \A i \in 1 .. Len(delivered) : delivered[i] = i

(***************************************************************************)
(* As long as the ring does not overflow, every event pushed is eventually *)
(* handed to an application that keeps draining.                           *)
(***************************************************************************)
EveryEventDelivered ==
    [](~overflowed) => \A e \in 1 .. MaxPush : pushed >= e ~> e \in Delivered

(***************************************************************************)
(* What the queue promises whatever the application does: a lossy, at most *)
(* once hand-over.                                                         *)
(***************************************************************************)
Lossy == INSTANCE LossyHandover
            WITH Capacity <- EVENT_QUEUE_LEN, pending <- Held, handed <- Delivered

LossyHandover == Lossy!Spec
=============================================================================
