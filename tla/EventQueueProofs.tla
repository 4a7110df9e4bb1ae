-------------------------- MODULE EventQueueProofs --------------------------
(***************************************************************************)
(* Proofs about EventQueue for every ring length and every number of       *)
(* pushes.                                                                 *)
(***************************************************************************)
EXTENDS EventQueue, TLAPS, SequenceTheorems

(***************************************************************************)
(* How long ago, counted in pushes, the head last passed cell c: 1 for the *)
(* cell written last, EVENT_QUEUE_LEN for the cell the head stands on.     *)
(***************************************************************************)
Age(c) == IF c < ring.head
          THEN ring.head - c
          ELSE ring.head - c + EVENT_QUEUE_LEN

\* The event that was written to cell c when the head last passed it
Written(c) == pushed + 1 - Age(c)

\* Number of events pushed and not delivered
Pending == pushed - Len(delivered)

(***************************************************************************)
(* The inductive invariant.  A cell is empty or holds the event written to *)
(* it last; an event is in its cell, delivered, or overwritten, and never  *)
(* in two of these; and until the first overflow the full cells are the    *)
(* last Pending ones, with the tail on the oldest.                         *)
(***************************************************************************)
CellsFresh ==
    \A c \in Cells : ring.slots[c] # None => ring.slots[c] = Written(c) /\ Written(c) >= 1

NothingLost ==
    \A c \in Cells :
        Written(c) >= 1 => ring.slots[c] # None \/ Written(c) \in Delivered

DeliveredGone ==
    /\ \A i \in 1 .. Len(delivered) : delivered[i] \in 1 .. pushed
    /\ \A i \in 1 .. Len(delivered), c \in Cells : ring.slots[c] # delivered[i]

InOrder ==
    ~overflowed =>
        /\ 0 <= Pending /\ Pending < EVENT_QUEUE_LEN
        /\ \A i \in 1 .. Len(delivered) : delivered[i] = i
        /\ Pending > 0 => Age(ring.tail) = Pending
        /\ Pending = 0 => ring.tail = ring.head
        /\ \A c \in Cells : ring.slots[c] # None <=> Age(c) <= Pending

IInv ==
    /\ TypeOK /\ CellsFresh /\ NothingLost /\ DeliveredGone /\ AtMostOnce
    /\ InOrder

-----------------------------------------------------------------------------
\* The successor of a cell without the modulo, which the provers do not know.
LEMMA NextCellStep ==
    \A c \in Cells : NextCell(c) = IF c = EVENT_QUEUE_LEN - 1 THEN 0 ELSE c + 1
BY RingAssumption DEF Cells, NextCell

\* The successor of a cell is a cell.
LEMMA NextCellType == \A c \in Cells : NextCell(c) \in Cells
BY NextCellStep, RingAssumption DEF Cells

\* The empty ring satisfies the invariant.
LEMMA InitIInv == Init => IInv
<1> SUFFICES ASSUME Init PROVE IInv
  OBVIOUS
<1> USE RingAssumption DEF Init, EmptyRing
<1>1. TypeOK
  BY DEF TypeOK, Cells
<1>2. CellsFresh /\ NothingLost
  BY DEF CellsFresh, NothingLost, Cells, Written, Age
<1>3. DeliveredGone /\ AtMostOnce
  BY DEF DeliveredGone, AtMostOnce
<1>4. InOrder
  BY DEF InOrder, Pending, Age, Cells
<1> QED
  BY <1>1, <1>2, <1>3, <1>4 DEF IInv

\* Pushing ages every cell by one push, except the cell written.
LEMMA PushAges ==
    ASSUME TypeOK, push_event
    PROVE  /\ TypeOK'
           /\ pushed' = pushed + 1
           /\ ring'.head = NextCell(ring.head)
           /\ \A c \in Cells : Age(c) \in 1 .. EVENT_QUEUE_LEN
           /\ \A c \in Cells : Age(c)' = IF c = ring.head THEN 1 ELSE Age(c) + 1
           /\ \A c \in Cells : ring'.slots[c] =
                    IF c = ring.head THEN pushed + 1 ELSE ring.slots[c]
<1> USE DEF TypeOK
<1>1. TypeOK'
  BY NextCellType DEF push_event, Pushed
<1>2. pushed' = pushed + 1 /\ ring'.head = NextCell(ring.head)
  BY DEF push_event, Pushed
<1>3. \A c \in Cells : Age(c) \in 1 .. EVENT_QUEUE_LEN
  BY RingAssumption DEF Age, Cells
<1>4. \A c \in Cells : Age(c)' = IF c = ring.head THEN 1 ELSE Age(c) + 1
  BY <1>2, NextCellStep, RingAssumption, SMTT(30) DEF Age, Cells
<1>5. \A c \in Cells : ring'.slots[c] =
            IF c = ring.head THEN pushed + 1 ELSE ring.slots[c]
  BY DEF push_event, Pushed
<1> QED
  BY <1>1, <1>2, <1>3, <1>4, <1>5

\* push_event keeps the invariant, whether or not it overwrites a cell.
LEMMA PushIInv == ASSUME IInv, push_event PROVE IInv'
<1> USE PushAges DEF IInv
<1>t. TypeOK /\ pushed \in Nat /\ EVENT_QUEUE_LEN \in Nat /\ None \notin Nat
      /\ \A c \in Cells : Age(c) \in Nat
  BY RingAssumption, PushAssumption DEF TypeOK
<1>d. delivered' = delivered /\ delivered \in Seq(Nat) /\ Delivered' = Delivered
  BY DEF push_event, TypeOK, Delivered
<1>w. \A c \in Cells : Written(c)' = IF c = ring.head THEN pushed + 1 ELSE Written(c)
  BY <1>t DEF Written
<1>1. CellsFresh'
  BY <1>t, <1>w DEF CellsFresh
<1>2. NothingLost'
  BY <1>t, <1>w, <1>d DEF NothingLost
<1>3. DeliveredGone'
  <2>1. \A i \in 1 .. Len(delivered) : delivered[i] \in 1 .. pushed'
    BY <1>t DEF DeliveredGone
  <2>2. \A i \in 1 .. Len(delivered), c \in Cells : ring'.slots[c] # delivered[i]
    BY <1>t DEF DeliveredGone
  <2> QED
    BY <1>d, <2>1, <2>2 DEF DeliveredGone
<1>4. AtMostOnce'
  BY <1>d DEF AtMostOnce
<1>5. InOrder'
  <2> SUFFICES ASSUME ~overflowed' PROVE InOrder'
    BY DEF InOrder
  <2>1. ~overflowed /\ NextCell(ring.head) # ring.tail /\ ring'.tail = ring.tail
    BY DEF push_event, Overflows, Pushed
  <2>2. Len(delivered) \in Nat /\ Pending' = Pending + 1 /\ Pending \in Int
    BY <1>d, <1>t DEF Pending
  <2>3. ring.head \in Cells /\ ring.tail \in Cells
    BY DEF TypeOK
  <2>4. Age(ring.tail) # EVENT_QUEUE_LEN - 1
    BY ONLY <2>1, <2>3, NextCellStep, RingAssumption DEF Age, Cells
  <2>5. Age(ring.tail)' = IF ring.tail = ring.head THEN 1 ELSE Age(ring.tail) + 1
    BY <2>1, <2>3 DEF Age
  <2>6. Age(ring.head) = EVENT_QUEUE_LEN
    BY ONLY <2>3, RingAssumption DEF Age, Cells
  <2>7. Pending > 0 => Pending < EVENT_QUEUE_LEN - 1 /\ ring.tail # ring.head
    BY ONLY InOrder, <2>1, <2>2, <2>4, <2>6, RingAssumption DEF InOrder
  <2>8. /\ 0 <= Pending' /\ Pending' < EVENT_QUEUE_LEN
        /\ Age(ring.tail)' = Pending'
    BY ONLY InOrder, <2>1, <2>2, <2>5, <2>7, RingAssumption DEF InOrder
  <2>9. \A c \in Cells : ring'.slots[c] # None <=> Age(c)' <= Pending'
    <3> SUFFICES ASSUME NEW c \in Cells
                 PROVE  ring'.slots[c] # None <=> Age(c)' <= Pending'
      OBVIOUS
    <3>1. CASE c = ring.head
      BY <3>1, <1>t, <2>2, <2>8, InOrder, <2>1 DEF InOrder
    <3>2. CASE c # ring.head
      BY <3>2, <1>t, <2>2, InOrder, <2>1 DEF InOrder
    <3> QED
      BY <3>1, <3>2
  <2> QED
    BY ONLY InOrder, <1>d, <2>1, <2>2, <2>8, <2>9 DEF InOrder
<1> QED
  BY <1>1, <1>2, <1>3, <1>4, <1>5

\* Popping empties the cell at the tail and appends its event; no cell ages.
LEMMA PopEffect ==
    ASSUME TypeOK, next_event
    PROVE  /\ TypeOK'
           /\ AtTail(ring) \in Nat /\ AtTail(ring) = ring.slots[ring.tail]
           /\ pushed' = pushed /\ overflowed' = overflowed
           /\ ring'.head = ring.head /\ ring'.tail = NextCell(ring.tail)
           /\ \A c \in Cells : ring'.slots[c] =
                    IF c = ring.tail THEN None ELSE ring.slots[c]
           /\ Len(delivered') = Len(delivered) + 1
           /\ \A i \in 1 .. Len(delivered) : delivered'[i] = delivered[i]
           /\ delivered'[Len(delivered) + 1] = AtTail(ring)
<1> USE DEF TypeOK
<1>1. AtTail(ring) \in Nat /\ AtTail(ring) = ring.slots[ring.tail]
  BY DEF next_event, AtTail
<1>2. ring' = Popped(ring) /\ delivered' = Append(delivered, AtTail(ring))
      /\ pushed' = pushed /\ overflowed' = overflowed /\ AtTail(ring) # None
  BY DEF next_event
<1>3. TypeOK'
  BY <1>1, <1>2, NextCellType DEF Popped
<1>4. /\ ring'.head = ring.head /\ ring'.tail = NextCell(ring.tail)
      /\ \A c \in Cells : ring'.slots[c] =
                    IF c = ring.tail THEN None ELSE ring.slots[c]
  BY <1>2 DEF Popped
<1>5. /\ Len(delivered') = Len(delivered) + 1
      /\ \A i \in 1 .. Len(delivered) : delivered'[i] = delivered[i]
      /\ delivered'[Len(delivered) + 1] = AtTail(ring)
  BY <1>1, <1>2
<1> QED
  BY <1>1, <1>2, <1>3, <1>4, <1>5

\* An age lies in 1 .. EVENT_QUEUE_LEN and belongs to one cell.
LEMMA AgeInjective ==
    ASSUME TypeOK
    PROVE  /\ \A c \in Cells : Age(c) \in 1 .. EVENT_QUEUE_LEN
           /\ \A c, d \in Cells : Age(c) = Age(d) => c = d
<1>1. ring.head \in Cells
  BY DEF TypeOK
<1>2. \A c \in Cells : Age(c) \in 1 .. EVENT_QUEUE_LEN
  BY <1>1, RingAssumption DEF Age, Cells
<1>3. ASSUME NEW c \in Cells, NEW d \in Cells, Age(c) = Age(d) PROVE c = d
  BY ONLY <1>1, <1>3, RingAssumption DEF Age, Cells
<1> QED
  BY <1>2, <1>3

\* next_event keeps the invariant.
LEMMA PopIInv == ASSUME IInv, next_event PROVE IInv'
<1>t. /\ TypeOK /\ pushed \in Nat /\ Len(delivered) \in Nat
      /\ ring.head \in Cells /\ ring.tail \in Cells
      /\ EVENT_QUEUE_LEN \in Nat /\ None \notin Nat
  BY RingAssumption, PushAssumption DEF IInv, TypeOK
<1>p. TypeOK'
  BY <1>t, PopEffect
<1>a. \A c \in Cells : Age(c)' = Age(c) /\ Written(c)' = Written(c) /\ Written(c) \in Int
  BY <1>t, PopEffect, AgeInjective DEF Age, Written
<1>e. AtTail(ring) = Written(ring.tail) /\ AtTail(ring) >= 1 /\ AtTail(ring) <= pushed
  <2>1. ring.slots[ring.tail] = Written(ring.tail) /\ Written(ring.tail) >= 1
    BY <1>t, PopEffect DEF IInv, CellsFresh
  <2> QED
    BY <1>t, <2>1, PopEffect, AgeInjective DEF Written
<1>n. \A i \in 1 .. Len(delivered) : delivered[i] # AtTail(ring)
  BY <1>t, PopEffect DEF IInv, DeliveredGone
<1>d. Delivered' = Delivered \cup {AtTail(ring)}
  <2>1. 1 .. Len(delivered') = (1 .. Len(delivered)) \cup {Len(delivered) + 1}
    BY <1>t, PopEffect
  <2> QED
    BY <1>t, <2>1, PopEffect DEF Delivered
<1>1. CellsFresh'
  BY <1>t, <1>a, PopEffect DEF IInv, CellsFresh
<1>2. NothingLost'
  BY <1>t, <1>a, <1>d, <1>e, PopEffect DEF IInv, NothingLost
<1>3. DeliveredGone'
  <2>1. \A c \in Cells : ring'.slots[c] # AtTail(ring)
    <3> SUFFICES ASSUME NEW c \in Cells, c # ring.tail, ring.slots[c] = AtTail(ring)
                 PROVE  FALSE
      BY <1>t, PopEffect
    <3>1. Written(c) = Written(ring.tail)
      BY <1>t, <1>e, PopEffect DEF IInv, CellsFresh
    <3> QED
      BY <1>t, <3>1, AgeInjective DEF Written
  <2>2. \A i \in 1 .. Len(delivered') :
            delivered'[i] \in 1 .. pushed' /\ \A c \in Cells : ring'.slots[c] # delivered'[i]
    <3> SUFFICES ASSUME NEW i \in 1 .. Len(delivered')
                 PROVE  /\ delivered'[i] \in 1 .. pushed'
                        /\ \A c \in Cells : ring'.slots[c] # delivered'[i]
      OBVIOUS
    <3>1. CASE i = Len(delivered) + 1
      BY <3>1, <1>t, <1>e, <2>1, PopEffect
    <3>2. CASE i \in 1 .. Len(delivered)
      BY <3>2, <1>t, PopEffect DEF IInv, DeliveredGone
    <3> QED
      BY <1>t, <3>1, <3>2, PopEffect
  <2> QED
    BY <2>2 DEF DeliveredGone
<1>4. AtMostOnce'
  <2> SUFFICES ASSUME NEW i \in 1 .. Len(delivered'), NEW j \in 1 .. Len(delivered'),
                      delivered'[i] = delivered'[j]
               PROVE  i = j
    BY DEF AtMostOnce
  <2>1. CASE i \in 1 .. Len(delivered) /\ j \in 1 .. Len(delivered)
    BY <2>1, <1>t, PopEffect DEF IInv, AtMostOnce
  <2>2. CASE i = Len(delivered) + 1 \/ j = Len(delivered) + 1
    BY <2>2, <1>t, <1>n, PopEffect
  <2> QED
    BY <1>t, <2>1, <2>2, PopEffect
<1>5. InOrder'
  <2> SUFFICES ASSUME ~overflowed' PROVE InOrder'
    BY DEF InOrder
  <2>1. ~overflowed /\ InOrder
    BY <1>t, PopEffect DEF IInv
  <2>2. Pending \in Int /\ Pending' = Pending - 1
    BY <1>t, PopEffect DEF Pending
  <2>3. Pending > 0 /\ Age(ring.tail) = Pending /\ Pending < EVENT_QUEUE_LEN
    BY <1>t, <2>1, <2>2, PopEffect, AgeInjective DEF InOrder
  <2>4. AtTail(ring) = Len(delivered) + 1
    BY <1>t, <1>e, <2>3 DEF Written, Pending
  <2>5. IF Pending = 1 THEN NextCell(ring.tail) = ring.head
                       ELSE Age(NextCell(ring.tail)) = Pending - 1
    <3>1. CASE ring.tail = EVENT_QUEUE_LEN - 1
      <4>1. NextCell(ring.tail) = 0
        BY <3>1, <1>t, NextCellStep
      <4> QED
        BY ONLY <3>1, <4>1, <1>t, <2>2, <2>3, RingAssumption DEF Age, Cells
    <3>2. CASE ring.tail # EVENT_QUEUE_LEN - 1
      <4>1. NextCell(ring.tail) = ring.tail + 1
        BY <3>2, <1>t, NextCellStep
      <4> QED
        BY ONLY <3>2, <4>1, <1>t, <2>2, <2>3, RingAssumption, SMTT(30) DEF Age, Cells
    <3> QED
      BY <3>1, <3>2
  <2>6. Age(ring.tail)' = Age(NextCell(ring.tail))
    BY <1>t, PopEffect DEF Age
  <2>7. \A i \in 1 .. Len(delivered') : delivered'[i] = i
    BY <1>t, <2>1, <2>4, PopEffect DEF InOrder
  <2>8. \A c \in Cells : ring'.slots[c] # None <=> Age(c)' <= Pending'
    <3> SUFFICES ASSUME NEW c \in Cells
                 PROVE  ring'.slots[c] # None <=> Age(c) <= Pending - 1
      BY <1>a, <2>2
    <3>1. CASE c = ring.tail
      BY <3>1, <1>t, <2>2, <2>3, PopEffect
    <3>2. CASE c # ring.tail
      <4>1. Age(c) \in Int /\ Age(c) # Pending
        BY <3>2, <1>t, <2>3, AgeInjective
      <4>2. ring.slots[c] # None <=> Age(c) <= Pending
        BY <2>1 DEF InOrder
      <4> QED
        BY <3>2, <4>1, <4>2, <1>t, <2>2, PopEffect
    <3> QED
      BY <3>1, <3>2
  <2>9. 0 <= Pending' /\ Pending' < EVENT_QUEUE_LEN
    BY <1>t, <2>2, <2>3
  <2>10. /\ Pending' > 0 => Age(ring.tail)' = Pending'
         /\ Pending' = 0 => ring'.tail = ring'.head
    BY <1>t, <2>2, <2>3, <2>5, <2>6, PopEffect
  <2> QED
    BY <2>7, <2>8, <2>9, <2>10 DEF InOrder
<1> QED
  BY <1>p, <1>1, <1>2, <1>3, <1>4, <1>5 DEF IInv

-----------------------------------------------------------------------------
(***************************************************************************)
(* The inductive invariant holds in every reachable state of push_event    *)
(* and next_event.                                                         *)
(***************************************************************************)
THEOREM Invariance == Spec => []IInv
<1>1. IInv /\ [Next]_vars => IInv'
  <2> SUFFICES ASSUME IInv, [Next]_vars PROVE IInv'
    OBVIOUS
  <2>1. CASE UNCHANGED vars
    BY <2>1 DEF vars, IInv, TypeOK, CellsFresh, NothingLost, DeliveredGone, AtMostOnce,
                InOrder, Pending, Delivered, Written, Age
  <2> QED
    BY <2>1, PushIInv, PopIInv DEF Next
<1> QED
  BY <1>1, InitIInv, PTL DEF Spec

(***************************************************************************)
(* The types hold for every ring length: the head and the tail stay inside *)
(* the array that push_event and next_event index with them.               *)
(***************************************************************************)
THEOREM IndicesInRange == Spec => []TypeOK
BY Invariance, PTL DEF IInv

(***************************************************************************)
(* For every ring length: next_event never returns the same event twice,   *)
(* overflow or not.                                                        *)
(***************************************************************************)
THEOREM DeliveredAtMostOnce == Spec => []AtMostOnce
BY Invariance, PTL DEF IInv

(***************************************************************************)
(* For every ring length: events come out in the order in which they were  *)
(* pushed until push_event first finds the ring full.                      *)
(***************************************************************************)
THEOREM FirstInFirstOut == Spec => []FifoUntilOverflow
<1>1. IInv => FifoUntilOverflow
  BY DEF IInv, InOrder, FifoUntilOverflow
<1> QED
  BY <1>1, Invariance, PTL

(***************************************************************************)
(* For every ring length: one of the last EVENT_QUEUE_LEN events pushed is *)
(* delivered or still in its cell.                                         *)
(***************************************************************************)
THEOREM KeptUntilOverwritten == Spec => []LostOnlyWhenOverwritten
<1>1. IInv => LostOnlyWhenOverwritten
  <2> SUFFICES ASSUME IInv, NEW e \in 1 .. pushed, e > pushed - EVENT_QUEUE_LEN
               PROVE  e \in Delivered \cup Held
    BY DEF LostOnlyWhenOverwritten
  <2>1. pushed \in Nat /\ ring.head \in Cells
    BY DEF IInv, TypeOK
  <2>2. PICK c \in Cells : Written(c) = e
    <3> DEFINE age == pushed + 1 - e
               cell == IF age <= ring.head THEN ring.head - age
                                           ELSE ring.head - age + EVENT_QUEUE_LEN
    <3>1. age \in 1 .. EVENT_QUEUE_LEN
      BY <2>1, RingAssumption
    <3>2. cell \in Cells /\ Age(cell) = age
      BY <2>1, <3>1, RingAssumption DEF Age, Cells
    <3> QED
      BY <2>1, <3>2 DEF Written
  <2>3. ring.slots[c] # None \/ e \in Delivered
    BY <2>2 DEF IInv, NothingLost
  <2>4. ring.slots[c] # None => ring.slots[c] = e
    BY <2>2 DEF IInv, CellsFresh
  <2> QED
    BY <2>3, <2>4 DEF Held
<1> QED
  BY <1>1, Invariance, PTL

(***************************************************************************)
(* The ring implements the lossy hand-over: a push maps to an Offer, which *)
(* drops exactly the event pushed EVENT_QUEUE_LEN events earlier, and a    *)
(* pop to a HandOver of an event that was pending.                         *)
(***************************************************************************)
THEOREM Refinement == Spec => LossyHandover
<1>1. Init => Lossy!Init
  BY RingAssumption DEF Init, Lossy!Init, EmptyRing, Held, Delivered, Cells
<1>2. ASSUME IInv, push_event PROVE Lossy!Offer
  <2>1. TypeOK /\ pushed \in Nat /\ ring.head \in Cells /\ None \notin Nat
    BY <1>2, PushAssumption DEF IInv, TypeOK
  <2>2. Delivered' = Delivered
    BY <1>2 DEF push_event, Delivered
  <2>3. Age(ring.head) = EVENT_QUEUE_LEN
    BY ONLY <2>1, RingAssumption DEF Age, Cells
  <2>4. Written(ring.head) = pushed + 1 - EVENT_QUEUE_LEN
    BY <2>3 DEF Written
  <2>5. \A c \in Cells :
            /\ ring'.slots[c] = (IF c = ring.head THEN pushed + 1 ELSE ring.slots[c])
            /\ ring.slots[c] # None => ring.slots[c] = Written(c)
    BY <1>2, <2>1, PushAges DEF IInv, CellsFresh
  <2>6. \A c \in Cells : Written(c) = pushed + 1 - EVENT_QUEUE_LEN => c = ring.head
    BY <2>1, <2>3, AgeInjective, RingAssumption DEF Written
  <2>7. Held' = (Held \cup {pushed + 1}) \ {pushed + 1 - EVENT_QUEUE_LEN}
    <3> DEFINE kept == (Held \cup {pushed + 1}) \ {pushed + 1 - EVENT_QUEUE_LEN}
    <3>1. ASSUME NEW e, e \in Held' PROVE e \in kept
      <4>1. PICK c \in Cells : ring'.slots[c] = e /\ e # None
        BY <3>1 DEF Held
      <4>2. CASE c = ring.head
        BY <4>1, <4>2, <2>1, <2>5, RingAssumption
      <4>3. CASE c # ring.head
        <5>1. ring.slots[c] = e /\ e = Written(c)
          BY <4>1, <4>3, <2>5
        <5>2. e \in Held /\ e # pushed + 1 - EVENT_QUEUE_LEN
          BY <4>1, <4>3, <5>1, <2>6 DEF Held
        <5> QED
          BY <5>2
      <4> QED
        BY <4>2, <4>3
    <3>2. ASSUME NEW e, e \in kept PROVE e \in Held'
      <4>1. CASE e = pushed + 1
        <5>1. ring'.slots[ring.head] = e /\ e # None
          BY <4>1, <2>1, <2>5
        <5> QED
          BY <5>1, <2>1 DEF Held
      <4>2. CASE e \in Held
        <5>1. PICK c \in Cells : ring.slots[c] = e /\ e # None
          BY <4>2 DEF Held
        <5>2. c # ring.head
          BY <3>2, <5>1, <2>4, <2>5
        <5>3. ring'.slots[c] = e
          BY <5>1, <5>2, <2>5
        <5> QED
          BY <5>1, <5>3 DEF Held
      <4> QED
        BY <3>2, <4>1, <4>2
    <3> QED
      BY <3>1, <3>2
  <2> QED
    BY <1>2, <2>2, <2>7 DEF Lossy!Offer, push_event
<1>3. ASSUME IInv, next_event PROVE Lossy!HandOver
  <2>1. TypeOK /\ Len(delivered) \in Nat /\ ring.tail \in Cells /\ None \notin Nat
    BY <1>3, PushAssumption DEF IInv, TypeOK
  <2> DEFINE e == AtTail(ring)
  <2>2. e \in Held
    BY <1>3, <2>1, PopEffect DEF Held
  <2>3. e \notin Delivered
    BY <1>3, <2>1, PopEffect DEF IInv, DeliveredGone, Delivered
  <2>4. Delivered' = Delivered \cup {e}
    <3>1. 1 .. Len(delivered') = (1 .. Len(delivered)) \cup {Len(delivered) + 1}
      BY <1>3, <2>1, PopEffect
    <3> QED
      BY <1>3, <2>1, <3>1, PopEffect DEF Delivered
  <2>5. \A c \in Cells : ring.slots[c] = e => c = ring.tail
    <3> SUFFICES ASSUME NEW c \in Cells, ring.slots[c] = e PROVE c = ring.tail
      OBVIOUS
    <3>1. Written(c) = Written(ring.tail)
      BY <1>3, <2>1, PopEffect DEF IInv, CellsFresh
    <3> QED
      BY <2>1, <3>1, AgeInjective, RingAssumption DEF Written, TypeOK
  <2>6. Held' = Held \ {e}
    BY <1>3, <2>1, <2>5, PopEffect DEF Held
  <2> HIDE DEF e
  <2>7. pushed' = pushed
    BY <1>3 DEF next_event
  <2> QED
    BY <2>2, <2>3, <2>4, <2>6, <2>7 DEF Lossy!HandOver
<1>4. IInv /\ [Next]_vars => [Lossy!Next]_(Lossy!vars)
  <2>1. CASE UNCHANGED vars
    BY <2>1 DEF vars, Lossy!vars, Held, Delivered
  <2> QED
    BY <1>2, <1>3, <2>1 DEF Next, Lossy!Next
<1> QED
  BY <1>1, <1>4, Invariance, PTL DEF Spec, LossyHandover, Lossy!Spec
=============================================================================
