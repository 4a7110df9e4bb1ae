------------------------------ MODULE EventRing ------------------------------
(***************************************************************************)
(* The event ring that the Ble object uses to hand events to the           *)
(* application (ble.rs: events, event_head, event_tail; hci.rs holds the   *)
(* same ring with 16 slots).  A ring is a record: "slots" are the          *)
(* Option<BleEvent> cells, "head" the next cell to write and "tail" the    *)
(* next cell to read.                                                      *)
(***************************************************************************)
EXTENDS Integers

CONSTANTS
    EVENT_QUEUE_LEN,  \* number of cells (8 in ble.rs, 16 in hci.rs)
    None              \* the empty cell

ASSUME RingAssumption == EVENT_QUEUE_LEN \in Nat /\ EVENT_QUEUE_LEN > 1

Cells == 0 .. EVENT_QUEUE_LEN - 1

EmptyRing == [slots |-> [c \in Cells |-> None], head |-> 0, tail |-> 0]

NextCell(c) == (c + 1) % EVENT_QUEUE_LEN

(***************************************************************************)
(* push_event: when the ring is full the tail skips the oldest cell, but   *)
(* the cell itself keeps its event until the head comes round to it.       *)
(***************************************************************************)
Overflows(ring) == NextCell(ring.head) = ring.tail

\* Variant: the skipped cell is emptied at once
PushedClearing(ring, evt) ==
    [slots |-> [c \in Cells |->
                    IF c = ring.head THEN evt
                    ELSE IF c = ring.tail /\ Overflows(ring) THEN None ELSE ring.slots[c]],
     head  |-> NextCell(ring.head),
     tail  |-> IF Overflows(ring) THEN NextCell(ring.tail) ELSE ring.tail]

\* Variant: a full ring refuses the new event
PushedRefusing(ring, evt) ==
    IF Overflows(ring)
    THEN ring
    ELSE [ring EXCEPT !.slots[ring.head] = evt, !.head = NextCell(ring.head)]

Pushed(ring, evt) ==
    [slots |-> [ring.slots EXCEPT ![ring.head] = evt],
     head  |-> NextCell(ring.head),
     tail  |-> IF Overflows(ring) THEN NextCell(ring.tail) ELSE ring.tail]

(***************************************************************************)
(* next_event: take the cell at the tail; the tail moves only if the cell  *)
(* held an event.  Head is not consulted.                                  *)
(***************************************************************************)
AtTail(ring) == ring.slots[ring.tail]

\* Variants: the tail moves two cells; the tail does not move
PoppedSkipping(ring) ==
    IF AtTail(ring) = None
    THEN ring
    ELSE [ring EXCEPT !.slots[ring.tail] = None, !.tail = NextCell(NextCell(ring.tail))]

PoppedInPlace(ring) == [ring EXCEPT !.slots[ring.tail] = None]

Popped(ring) ==
    IF AtTail(ring) = None
    THEN ring
    ELSE [slots |-> [ring.slots EXCEPT ![ring.tail] = None],
          head  |-> ring.head,
          tail  |-> NextCell(ring.tail)]
=============================================================================
