--------------------------- MODULE FlashBondProofs ---------------------------
(***************************************************************************)
(* Proofs about FlashBondStore for any number of slots, any record length  *)
(* and any sequence of saves, power losses and restarts.  The invariant    *)
(* says how far flush has got: the records before "slot" are complete and  *)
(* equal to the cache, the one at "slot" has "part" parts and so no        *)
(* trailer, and the ones after it are erased.  No peer has two bonds,      *)
(* since what a restart would load is part of what the cache holds.        *)
(***************************************************************************)
EXTENDS FlashBond, TLAPS

Complete(i) == page.records[i].written = RECORD_PARTS

\* What decode_record may return from the page was saved once.
PageSaved == \A i \in PageSlots : Complete(i) => page.records[i].bond \in saved_bonds

InMagic ==
    pc = "magic" => ~page.magic /\ \A i \in PageSlots : page.records[i].written = 0

InWrite ==
    pc = "write" =>
        /\ page.magic
        /\ \A i \in PageSlots :
            /\ i < slot => IF cache[i] = NoBond THEN page.records[i].written = 0
                           ELSE Complete(i) /\ page.records[i].bond = cache[i]
            /\ i = slot => page.records[i].written = part
            /\ i > slot => page.records[i].written = 0

WriteStart == pc = "write" /\ slot <= BOND_MAX /\ cache[slot] = NoBond => part = 0

IInv ==
    /\ TypeOK
    /\ OnlySavedBonds
    /\ PageSaved
    /\ FlushedIsDurable
    /\ InMagic
    /\ InWrite
    /\ WriteStart

-----------------------------------------------------------------------------
(***************************************************************************)
(* An erased page holds no bond, and a loaded slot was complete.           *)
(***************************************************************************)
LEMMA LoadedSlots ==
    ASSUME TypeOK
    PROVE  /\ Loaded \in [PageSlots -> Bonds \cup {NoBond}]
           /\ \A i \in PageSlots : Loaded[i] # NoBond =>
                page.magic /\ Complete(i) /\ Loaded[i] = page.records[i].bond
           /\ \A i \in PageSlots : page.magic /\ Complete(i) =>
                Loaded[i] = page.records[i].bond
           /\ \A i \in PageSlots : ~(page.magic /\ Complete(i)) => Loaded[i] = NoBond
<1>1. page.records \in [PageSlots -> Records] /\ page.magic \in BOOLEAN
  BY DEF TypeOK
<1>2. \A i \in PageSlots : page.records[i].bond \in Bonds \cup {NoBond}
  BY <1>1 DEF Records
<1>3. CASE page.magic
  <2>1. Loaded = [i \in PageSlots |-> decode_record(page.records[i])]
    BY <1>3 DEF Loaded
  <2>2. \A i \in PageSlots : Loaded[i] = IF Complete(i) THEN page.records[i].bond ELSE NoBond
    BY <2>1 DEF decode_record, Complete
  <2> QED
    BY <1>2, <1>3, <2>1, <2>2 DEF decode_record
<1>4. CASE ~page.magic
  BY <1>4 DEF Loaded, EmptyCache
<1> QED
  BY <1>3, <1>4

(***************************************************************************)
(* The store starts with an empty cache and an erased page.                *)
(***************************************************************************)
LEMMA InitIInv == FlashInit => IInv
<1> SUFFICES ASSUME FlashInit PROVE IInv
  OBVIOUS
<1> USE BondAssumption DEF FlashInit, PageSlots
<1>1. TypeOK
  BY DEF TypeOK, EmptyCache, ErasedPage, Erased, Records
<1>2. FlushedIsDurable
  BY DEF FlushedIsDurable, Loaded, ErasedPage
<1>3. OnlySavedBonds
  BY DEF OnlySavedBonds, EmptyCache
<1>4. PageSaved
  BY DEF PageSaved, Complete, ErasedPage, Erased
<1> QED
  BY <1>1, <1>2, <1>3, <1>4 DEF IInv, InMagic, InWrite, WriteStart

-----------------------------------------------------------------------------
(***************************************************************************)
(* save puts the bond into one slot of the cache, if it finds one.         *)
(***************************************************************************)
LEMMA SaveIInv ==
    ASSUME IInv, NEW bond \in Bonds, Save(bond)
    PROVE  IInv'
<1>1. PICK s \in PageSlots : cache' = [cache EXCEPT ![s] = bond]
  BY DEF Save, FirstSlot, Candidates, SlotsOf, EmptySlots
<1>2. /\ pc' = "erase" /\ saved_bonds' = saved_bonds \cup {bond}
      /\ page' = page /\ slot' = slot /\ part' = part
  BY DEF Save
<1>3. TypeOK'
  BY <1>1, <1>2 DEF IInv, TypeOK
<1>4. OnlySavedBonds'
  BY <1>1, <1>2 DEF IInv, TypeOK, OnlySavedBonds
<1>5. PageSaved'
  BY <1>2 DEF IInv, PageSaved, Complete
<1> QED
  BY <1>2, <1>3, <1>4, <1>5 DEF IInv, FlushedIsDurable, InMagic, InWrite, WriteStart

(***************************************************************************)
(* Erasing the page and writing its magic number: the page has no record.  *)
(***************************************************************************)
LEMMA EraseIInv == IInv /\ (erase_page \/ write_magic) => IInv'
<1>1. ASSUME IInv, erase_page PROVE IInv'
  <2>1. /\ page' = ErasedPage /\ pc' = "magic"
        /\ UNCHANGED <<cache, slot, part, saved_bonds>>
    BY <1>1 DEF erase_page
  <2>2. /\ ~page'.magic
        /\ \A i \in PageSlots : page'.records[i].written = 0
        /\ page' \in [magic : BOOLEAN, records : [PageSlots -> Records]]
    BY <2>1, BondAssumption DEF ErasedPage, Erased, Records
  <2>3. TypeOK' /\ OnlySavedBonds'
    BY <1>1, <2>1, <2>2 DEF IInv, TypeOK, OnlySavedBonds
  <2>4. PageSaved'
    BY <2>2, BondAssumption DEF PageSaved, Complete
  <2> QED
    BY <2>1, <2>2, <2>3, <2>4 DEF IInv, FlushedIsDurable, InMagic, InWrite, WriteStart
<1>2. ASSUME IInv, write_magic PROVE IInv'
  <2>1. /\ pc = "magic" /\ pc' = "write" /\ slot' = 1 /\ part' = 0
        /\ page' = [page EXCEPT !.magic = TRUE]
        /\ UNCHANGED <<cache, saved_bonds>>
    BY <1>2 DEF write_magic
  <2>2. /\ page'.magic
        /\ page'.records = page.records
        /\ page' \in [magic : BOOLEAN, records : [PageSlots -> Records]]
    BY <1>2, <2>1 DEF IInv, TypeOK
  <2>3. \A i \in PageSlots : page'.records[i].written = 0
    BY <1>2, <2>1, <2>2 DEF IInv, InMagic
  <2>4. TypeOK' /\ OnlySavedBonds'
    <3>1. slot' \in 1 .. BOND_MAX + 1 /\ part' \in 0 .. RECORD_PARTS - 1
      BY <2>1, BondAssumption
    <3>2. TypeOK'
      BY <1>2, <2>1, <2>2, <3>1 DEF IInv, TypeOK
    <3>3. OnlySavedBonds'
      BY <1>2, <2>1 DEF IInv, OnlySavedBonds
    <3> QED
      BY <3>2, <3>3
  <2>5. PageSaved'
    BY <2>3, BondAssumption DEF PageSaved, Complete
  <2>6. InWrite'
    BY <2>1, <2>2, <2>3 DEF InWrite, PageSlots
  <2> QED
    BY <2>1, <2>4, <2>5, <2>6 DEF IInv, FlushedIsDurable, InMagic, WriteStart
<1> QED
  BY <1>1, <1>2

(***************************************************************************)
(* Writing the next part of a record.  Only the last part, which completes *)
(* the trailer, makes the record count, and then it equals the cache.      *)
(***************************************************************************)
LEMMA WriteIInv == IInv /\ write_part => IInv'
<1> SUFFICES ASSUME IInv, write_part PROVE IInv'
  OBVIOUS
<1>1. /\ pc = "write" /\ pc' = "write" /\ slot \in PageSlots /\ cache[slot] # NoBond
      /\ UNCHANGED <<cache, saved_bonds>>
      /\ part' = IF part + 1 = RECORD_PARTS THEN 0 ELSE part + 1
      /\ slot' = IF part + 1 = RECORD_PARTS THEN slot + 1 ELSE slot
  BY DEF IInv, TypeOK, write_part, PageSlots
<1>2. /\ part \in Nat /\ RECORD_PARTS \in Nat /\ part + 1 <= RECORD_PARTS
      /\ slot \in Nat /\ BOND_MAX \in Nat /\ slot <= BOND_MAX
  BY <1>1, BondAssumption DEF IInv, TypeOK, PageSlots
<1> DEFINE rec == [written |-> part + 1, bond |-> cache[slot]]
<1>3. rec \in Records /\ rec.written = part + 1 /\ rec.bond = cache[slot]
  BY <1>1, <1>2 DEF IInv, TypeOK, Records
<1>4. /\ page'.magic = page.magic
      /\ page'.records = [page.records EXCEPT ![slot] = rec]
      /\ page' \in [magic : BOOLEAN, records : [PageSlots -> Records]]
  BY <1>1, <1>3 DEF IInv, TypeOK, write_part
<1>5. \A i \in PageSlots : page'.records[i] = IF i = slot THEN rec ELSE page.records[i]
  BY <1>1, <1>4 DEF IInv, TypeOK
<1> HIDE DEF rec
<1>6. part' \in 0 .. RECORD_PARTS - 1 /\ slot' \in 1 .. BOND_MAX + 1
  BY <1>1, <1>2 DEF PageSlots
<1>7. TypeOK' /\ OnlySavedBonds'
  BY <1>1, <1>4, <1>6 DEF IInv, TypeOK, OnlySavedBonds
<1>8. PageSaved'
  BY <1>1, <1>3, <1>5 DEF IInv, PageSaved, Complete, OnlySavedBonds
<1>9. InWrite'
  <2>1. page'.magic
    BY <1>1, <1>4 DEF IInv, InWrite
  <2>2. ASSUME NEW i \in PageSlots, i < slot'
        PROVE  IF cache'[i] = NoBond THEN page'.records[i].written = 0
               ELSE Complete(i)' /\ page'.records[i].bond = cache'[i]
    <3>1. i \in Nat
      BY DEF PageSlots
    <3>2. CASE i = slot
      <4>1. part + 1 = RECORD_PARTS
        BY <1>1, <1>2, <2>2, <3>2
      <4> QED
        BY <1>1, <1>3, <1>5, <3>2, <4>1 DEF Complete
    <3>3. CASE i # slot
      <4>1. i < slot
        BY <1>1, <1>2, <2>2, <3>1, <3>3
      <4> QED
        BY <1>1, <1>5, <3>3, <4>1 DEF IInv, InWrite, Complete
    <3> QED
      BY <3>2, <3>3
  <2>3. ASSUME NEW i \in PageSlots, i = slot' PROVE page'.records[i].written = part'
    <3>1. CASE part + 1 = RECORD_PARTS
      <4>1. i = slot + 1 /\ i # slot /\ i > slot /\ part' = 0
        BY <1>1, <1>2, <2>3, <3>1
      <4> QED
        BY <1>1, <1>5, <4>1 DEF IInv, InWrite
    <3>2. CASE part + 1 # RECORD_PARTS
      BY <1>1, <1>3, <1>5, <2>3, <3>2
    <3> QED
      BY <3>1, <3>2
  <2>4. ASSUME NEW i \in PageSlots, i > slot' PROVE page'.records[i].written = 0
    <3>1. i > slot /\ i # slot
      BY <1>1, <1>2, <2>4 DEF PageSlots
    <3> QED
      BY <1>1, <1>5, <3>1 DEF IInv, InWrite
  <2> QED
    BY <2>1, <2>2, <2>3, <2>4 DEF InWrite
<1>10. WriteStart'
  BY <1>1, <1>2 DEF WriteStart
<1> QED
  BY <1>1, <1>7, <1>8, <1>9, <1>10 DEF IInv, FlushedIsDurable, InMagic

(***************************************************************************)
(* An empty slot of the cache is skipped: its record stays erased.         *)
(***************************************************************************)
LEMMA SkipIInv == IInv /\ skip_slot => IInv'
<1> SUFFICES ASSUME IInv, skip_slot PROVE IInv'
  OBVIOUS
<1>1. /\ pc = "write" /\ pc' = "write" /\ slot <= BOND_MAX /\ slot' = slot + 1
      /\ cache[slot] = NoBond /\ part = 0 /\ part' = 0
      /\ UNCHANGED <<cache, page, saved_bonds>>
  BY DEF IInv, WriteStart, skip_slot
<1>2. slot \in Nat /\ BOND_MAX \in Nat /\ slot \in PageSlots
  BY <1>1, BondAssumption DEF IInv, TypeOK, PageSlots
<1>3. TypeOK' /\ OnlySavedBonds' /\ PageSaved'
  BY <1>1, <1>2, BondAssumption DEF IInv, TypeOK, OnlySavedBonds, PageSaved, Complete
<1>4. InWrite'
  <2>1. \A i \in PageSlots : i \in Nat
    BY DEF PageSlots
  <2>2. \A i \in PageSlots : i < slot + 1 => i < slot \/ i = slot
    BY <1>2, <2>1
  <2>3. \A i \in PageSlots : (i = slot + 1 => i > slot) /\ (i > slot + 1 => i > slot)
    BY <1>2, <2>1
  <2> QED
    BY <1>1, <2>2, <2>3 DEF IInv, InWrite, Complete
<1> QED
  BY <1>1, <1>3, <1>4 DEF IInv, FlushedIsDurable, InMagic, WriteStart

(***************************************************************************)
(* When the write loop is through, the page holds exactly the cache.       *)
(***************************************************************************)
LEMMA FlushedIInv == IInv /\ flushed => IInv'
<1> SUFFICES ASSUME IInv, flushed PROVE IInv'
  OBVIOUS
<1>1. /\ pc = "write" /\ pc' = "idle" /\ slot > BOND_MAX
      /\ UNCHANGED <<cache, page, slot, part, saved_bonds>>
  BY DEF flushed
<1>2. \A i \in PageSlots : i < slot
  BY <1>1, BondAssumption DEF IInv, TypeOK, PageSlots
<1>3. \A i \in PageSlots : Loaded[i] = cache[i]
  BY <1>1, <1>2, LoadedSlots, BondAssumption DEF IInv, InWrite, Complete
<1>4. Loaded = cache
  <2>1. Loaded \in [PageSlots -> Bonds \cup {NoBond}] /\ cache \in [PageSlots -> Bonds \cup {NoBond}]
    BY LoadedSlots DEF IInv, TypeOK
  <2> QED
    BY <1>3, <2>1
<1>5. FlushedIsDurable'
  BY <1>1, <1>4 DEF FlushedIsDurable, Loaded
<1>6. TypeOK' /\ OnlySavedBonds' /\ PageSaved'
  BY <1>1 DEF IInv, TypeOK, OnlySavedBonds, PageSaved, Complete
<1> QED
  BY <1>1, <1>5, <1>6 DEF IInv, InMagic, InWrite, WriteStart

(***************************************************************************)
(* Power loss empties the cache and may interrupt the erase; whatever      *)
(* records are left on the page were there before.                         *)
(***************************************************************************)
LEMMA PowerLossIInv == IInv /\ power_loss => IInv'
<1> SUFFICES ASSUME IInv, power_loss PROVE IInv'
  OBVIOUS
<1>1. pc' = "off" /\ cache' = EmptyCache /\ UNCHANGED <<slot, part, saved_bonds>>
  BY DEF power_loss
<1>2. Erased \in Records /\ Erased.written # RECORD_PARTS
  BY BondAssumption DEF Erased, Records
<1>3. /\ page' \in [magic : BOOLEAN, records : [PageSlots -> Records]]
      /\ \A i \in PageSlots : page'.records[i] \in {page.records[i], Erased}
  <2>1. CASE page' = page
    BY <2>1 DEF IInv, TypeOK
  <2>2. CASE page' \in PartlyErased
    <3>1. PICK keepsMagic \in BOOLEAN, kept \in SUBSET PageSlots :
            page' = [magic   |-> page.magic /\ keepsMagic,
                     records |-> [i \in PageSlots |-> IF i \in kept THEN page.records[i]
                                                  ELSE Erased]]
      BY <2>2 DEF PartlyErased
    <3>2. page.records \in [PageSlots -> Records] /\ (page.magic /\ keepsMagic) \in BOOLEAN
      BY DEF IInv, TypeOK
    <3> QED
      BY <1>2, <3>1, <3>2
  <2> QED
    BY <2>1, <2>2 DEF power_loss
<1>4. TypeOK'
  BY <1>1, <1>3 DEF IInv, TypeOK, EmptyCache
<1>5. OnlySavedBonds'
  BY <1>1 DEF OnlySavedBonds, EmptyCache
<1>6. PageSaved'
  BY <1>1, <1>2, <1>3 DEF IInv, PageSaved, Complete
<1> QED
  BY <1>1, <1>4, <1>5, <1>6 DEF IInv, FlushedIsDurable, InMagic, InWrite, WriteStart

(***************************************************************************)
(* Opening the store loads complete records only.                          *)
(***************************************************************************)
LEMMA OpenIInv == IInv /\ open => IInv'
<1> SUFFICES ASSUME IInv, open PROVE IInv'
  OBVIOUS
<1>1. pc' = "idle" /\ cache' = Loaded /\ UNCHANGED <<page, slot, part, saved_bonds>>
  BY DEF open
<1>2. TypeOK' /\ PageSaved'
  BY <1>1, LoadedSlots DEF IInv, TypeOK, PageSaved, Complete
<1>3. OnlySavedBonds'
  BY <1>1, LoadedSlots DEF IInv, OnlySavedBonds, PageSaved
<1>4. FlushedIsDurable'
  BY <1>1 DEF FlushedIsDurable, Loaded
<1> QED
  BY <1>1, <1>2, <1>3, <1>4 DEF IInv, InMagic, InWrite, WriteStart

-----------------------------------------------------------------------------
(***************************************************************************)
(* The invariant holds in every reachable state.                           *)
(***************************************************************************)
THEOREM StoreInvariant == FlashSpec => []IInv
<1>1. IInv /\ [FlashNext]_flashVars => IInv'
  <2> SUFFICES ASSUME IInv, [FlashNext]_flashVars PROVE IInv'
    OBVIOUS
  <2>1. CASE save
    <3>1. PICK bond \in Bonds : Save(bond) \/ SaveIgnored(bond)
      BY <2>1 DEF save
    <3>2. CASE SaveIgnored(bond)
      <4>1. saved_bonds' = saved_bonds \cup {bond} /\ UNCHANGED <<cache, page, pc, slot, part>>
        BY <3>2 DEF SaveIgnored
      <4>2. TypeOK' /\ OnlySavedBonds' /\ PageSaved'
        BY <3>1, <4>1 DEF IInv, TypeOK, OnlySavedBonds, PageSaved, Complete
      <4> QED
        BY <4>1, <4>2 DEF IInv, FlushedIsDurable, Loaded, InMagic, InWrite, WriteStart,
            Complete
    <3> QED
      BY <3>1, <3>2, SaveIInv
  <2>2. CASE UNCHANGED flashVars
    BY <2>2 DEF IInv, flashVars, TypeOK, OnlySavedBonds, PageSaved, FlushedIsDurable, Loaded,
        InMagic, InWrite, WriteStart, Complete
  <2> QED
    BY <2>1, <2>2, EraseIInv, WriteIInv, SkipIInv, FlushedIInv, PowerLossIInv, OpenIInv
       DEF FlashNext
<1> QED
  BY InitIInv, <1>1, PTL DEF FlashSpec

(***************************************************************************)
(* The types of the store hold.                                            *)
(***************************************************************************)
THEOREM TypeCorrect == FlashSpec => []TypeOK
<1>1. IInv => TypeOK
  BY DEF IInv
<1> QED
  BY <1>1, StoreInvariant, PTL

(***************************************************************************)
(* No torn bond is ever loaded, at whatever point power was lost.          *)
(***************************************************************************)
THEOREM NoTornBond == FlashSpec => []OnlySavedBonds
<1>1. IInv => OnlySavedBonds
  BY DEF IInv
<1> QED
  BY <1>1, StoreInvariant, PTL

(***************************************************************************)
(* Between saves the page holds the cache, so that power loss then costs   *)
(* nothing.                                                                *)
(***************************************************************************)
THEOREM Durable == FlashSpec => []FlushedIsDurable
<1>1. IInv => FlushedIsDurable
  BY DEF IInv
<1> QED
  BY <1>1, StoreInvariant, PTL

(***************************************************************************)
(* After the erase what would be loaded is part of the cache.              *)
(***************************************************************************)
LEMMA WrittenIsCached == IInv => NoOldBondAfterErase
<1> SUFFICES ASSUME IInv, pc \in {"magic", "write"}, NEW i \in PageSlots, Loaded[i] # NoBond
             PROVE  Loaded[i] = cache[i]
  BY DEF NoOldBondAfterErase
<1>1. page.magic /\ Complete(i) /\ Loaded[i] = page.records[i].bond
  BY LoadedSlots DEF IInv
<1>2. pc = "write"
  BY <1>1 DEF IInv, InMagic
<1>3. /\ slot \in Nat /\ i \in Nat
      /\ part # RECORD_PARTS /\ RECORD_PARTS # 0
  BY BondAssumption DEF IInv, TypeOK, PageSlots
<1>4. i < slot
  <2>1. i # slot
    BY <1>1, <1>2, <1>3 DEF IInv, InWrite, Complete
  <2>2. ~(i > slot)
    BY <1>1, <1>2, <1>3 DEF IInv, InWrite, Complete
  <2> QED
    BY <1>3, <2>1, <2>2
<1> QED
  BY <1>1, <1>2, <1>4, BondAssumption DEF IInv, InWrite, Complete

(***************************************************************************)
(* Once the page has been erased, no bond of an earlier flush can be       *)
(* loaded again.                                                           *)
(***************************************************************************)
THEOREM NothingOldReturns == FlashSpec => []NoOldBondAfterErase
<1> QED
  BY WrittenIsCached, StoreInvariant, PTL

-----------------------------------------------------------------------------
\* A store, as a function from slots to bonds or NoBond, with one slot a peer
OneEach(store) ==
    \A i, j \in PageSlots :
        store[i] # NoBond /\ store[j] # NoBond /\ store[i].addr = store[j].addr => i = j

(***************************************************************************)
(* OnePerPeer says it of the cache and of what would be loaded.            *)
(***************************************************************************)
LEMMA OneEachTwice == OnePerPeer <=> OneEach(cache) /\ OneEach(Loaded)
BY DEF OnePerPeer, OneEach

(***************************************************************************)
(* A store that holds nothing but bonds of another one, each in its slot,  *)
(* has no more slots a peer than that one.                                 *)
(***************************************************************************)
LEMMA OneEachPart ==
    ASSUME NEW whole, OneEach(whole), NEW some,
           \A i \in PageSlots : some[i] # NoBond => some[i] = whole[i]
    PROVE  OneEach(some)
BY DEF OneEach

(***************************************************************************)
(* save replaces the bond of the peer if there is one: it never adds a     *)
(* second.                                                                 *)
(***************************************************************************)
LEMMA SaveOneEach ==
    ASSUME IInv, OneEach(cache), NEW bond \in Bonds, Save(bond)
    PROVE  OneEach(cache')
<1>1. PICK s \in FirstSlot(Candidates(bond.addr)) : cache' = [cache EXCEPT ![s] = bond]
  BY DEF Save
<1>2. s \in PageSlots /\ \A j \in SlotsOf(bond.addr) : j = s
  <2>1. CASE SlotsOf(bond.addr) # {}
    <3>1. s \in SlotsOf(bond.addr)
      BY <2>1 DEF FirstSlot, Candidates
    <3> QED
      BY <3>1 DEF SlotsOf, OneEach
  <2>2. CASE SlotsOf(bond.addr) = {}
    BY <2>2 DEF FirstSlot, Candidates, EmptySlots
  <2> QED
    BY <2>1, <2>2
<1>3. \A i \in PageSlots : cache'[i] = IF i = s THEN bond ELSE cache[i]
  BY <1>1, <1>2 DEF IInv, TypeOK
<1>4. \A i \in PageSlots : i # s /\ cache[i] # NoBond => cache[i].addr # bond.addr
  BY <1>2 DEF SlotsOf
<1> QED
  BY <1>3, <1>4 DEF OneEach

(***************************************************************************)
(* What a power loss leaves on the page is part of what was there.         *)
(***************************************************************************)
LEMMA PowerLossPart ==
    ASSUME IInv, IInv', power_loss
    PROVE  \A i \in PageSlots : Loaded'[i] # NoBond => Loaded'[i] = Loaded[i]
<1>1. CASE page' = page
  BY <1>1 DEF Loaded
<1>2. CASE page' \in PartlyErased
  <2> SUFFICES ASSUME NEW i \in PageSlots, Loaded'[i] # NoBond PROVE Loaded'[i] = Loaded[i]
    OBVIOUS
  <2>1. PICK keepsMagic \in BOOLEAN, kept \in SUBSET PageSlots :
          page' = [magic   |-> page.magic /\ keepsMagic,
                   records |-> [j \in PageSlots |-> IF j \in kept THEN page.records[j]
                                                ELSE Erased]]
    BY <1>2 DEF PartlyErased
  <2>2. (page.magic /\ Complete(i))' /\ Loaded'[i] = page'.records[i].bond
    <3>1. TypeOK'
      BY DEF IInv
    <3> QED
      BY <3>1 DEF Loaded, decode_record, Complete, EmptyCache
  <2>3. page.magic /\ page'.records[i] \in {page.records[i], Erased}
    BY <2>1, <2>2
  <2>4. page'.records[i] = page.records[i]
    BY <2>2, <2>3, BondAssumption DEF Complete, Erased
  <2>5. Loaded[i] = page.records[i].bond
    BY <2>2, <2>3, <2>4, LoadedSlots DEF IInv, Complete
  <2> QED
    BY <2>2, <2>4, <2>5
<1> QED
  BY <1>1, <1>2 DEF power_loss

(***************************************************************************)
(* A peer never has two bonds, in the cache or in what the page would be   *)
(* loaded as, at whatever point power is lost: find cannot return a key    *)
(* that a later save has replaced.                                         *)
(***************************************************************************)
THEOREM OneBondPerPeer == FlashSpec => []OnePerPeer
<1>1. FlashInit => OnePerPeer
  <2> SUFFICES ASSUME FlashInit PROVE OnePerPeer
    OBVIOUS
  <2>1. OneEach(cache)
    BY DEF FlashInit, EmptyCache, OneEach
  <2>2. OneEach(Loaded)
    BY DEF FlashInit, ErasedPage, Loaded, EmptyCache, OneEach
  <2> QED
    BY <2>1, <2>2, OneEachTwice
<1>2. IInv /\ IInv' /\ OnePerPeer /\ [FlashNext]_flashVars => OnePerPeer'
  <2> SUFFICES ASSUME IInv, IInv', OneEach(cache), OneEach(Loaded), [FlashNext]_flashVars
               PROVE  OneEach(cache') /\ OneEach(Loaded')
    BY OneEachTwice DEF OnePerPeer, OneEach
  <2>1. CASE save
    <3>1. Loaded' = Loaded
      BY <2>1 DEF save, Save, SaveIgnored, Loaded
    <3>2. OneEach(cache')
      BY <2>1, SaveOneEach DEF save, SaveIgnored
    <3> QED
      BY <3>1, <3>2
  <2>2. CASE erase_page \/ write_magic \/ write_part \/ skip_slot
    <3>1. cache' = cache /\ pc' \in {"magic", "write"}
      BY <2>2 DEF erase_page, write_magic, write_part, skip_slot
    <3>2. NoOldBondAfterErase'
      BY WrittenIsCached, PTL
    <3>3. \A i \in PageSlots : Loaded'[i] # NoBond => Loaded'[i] = cache'[i]
      BY <3>1, <3>2 DEF NoOldBondAfterErase
    <3> QED
      BY <3>1, <3>3, OneEachPart
  <2>3. CASE flushed \/ UNCHANGED flashVars
    BY <2>3 DEF flushed, flashVars, Loaded
  <2>4. CASE power_loss
    <3>1. OneEach(Loaded')
      BY <2>4, PowerLossPart, OneEachPart
    <3>2. OneEach(cache')
      BY <2>4 DEF power_loss, EmptyCache, OneEach
    <3> QED
      BY <3>1, <3>2
  <2>5. CASE open
    BY <2>5 DEF open, Loaded
  <2> QED
    BY <2>1, <2>2, <2>3, <2>4, <2>5 DEF FlashNext
<1> QED
  BY <1>1, <1>2, StoreInvariant, PTL DEF FlashSpec
=============================================================================
