------------------------------ MODULE FlashBond ------------------------------
(***************************************************************************)
(* FlashBondStore (bond_flash.rs): bonds in a RAM cache that every save    *)
(* flushes to one flash page, which is erased and then written again byte  *)
(* by byte.  Power may be lost between any two steps and in the middle of  *)
(* the erase; the store is then opened again from what the page holds.     *)
(*                                                                         *)
(* A record is written in RECORD_PARTS steps, the last of which completes  *)
(* its trailer.  The flash itself is external: an erased cell matches      *)
(* neither the magic number nor a trailer, and an interrupted erase leaves *)
(* any part of the page behind.                                            *)
(***************************************************************************)
EXTENDS Integers

CONSTANTS
    BondPeers, Keys, \* peer addresses, and their keys
    NoBond,          \* an empty slot of the cache
    Garbage,         \* what the bytes of a torn record spell
    BOND_MAX,        \* slots of the cache and of the page (8)
    RECORD_PARTS     \* steps in which a record is written (44 bytes)

ASSUME BondAssumption ==
    /\ BOND_MAX \in Nat \ {0} /\ RECORD_PARTS \in Nat \ {0}
    /\ Garbage \notin Keys
    /\ NoBond \notin [addr : BondPeers, ltk : Keys]

VARIABLES
    cache,           \* FlashBondStore::cache
    page,            \* the flash page
    pc,              \* "off", "idle", or the next step of flush: "erase",
                     \* "magic", "write"
    slot, part,      \* where the write loop of flush stands
    saved_bonds      \* history: the bonds save was called with

flashVars == <<cache, page, pc, slot, part, saved_bonds>>

PageSlots == 1 .. BOND_MAX
Bonds == [addr : BondPeers, ltk : Keys]

EmptyCache == [i \in PageSlots |-> NoBond]
Erased     == [written |-> 0, bond |-> NoBond]

ErasedPage == [magic |-> FALSE, records |-> [i \in PageSlots |-> Erased]]

-----------------------------------------------------------------------------
(* load_page                                                               *)

\* Variant: the trailer is not checked
DecodeUnchecked(rec) ==
    IF rec.written = 0 THEN NoBond
    ELSE IF rec.written = RECORD_PARTS THEN rec.bond
    ELSE [rec.bond EXCEPT !.ltk = Garbage]

\* decode_record: without its trailer a record is an empty slot.
decode_record(rec) == IF rec.written = RECORD_PARTS THEN rec.bond ELSE NoBond

Loaded ==
    IF page.magic THEN [i \in PageSlots |-> decode_record(page.records[i])] ELSE EmptyCache

-----------------------------------------------------------------------------
(* save                                                                    *)

\* The slot save uses: the one of this peer or else the first empty one.
SlotsOf(peer)  == {i \in PageSlots : cache[i] # NoBond /\ cache[i].addr = peer}
EmptySlots     == {i \in PageSlots : cache[i] = NoBond}
FirstSlot(slots) == {i \in slots : \A j \in slots : i <= j}

\* Variant: the peer's slot is not looked for
CandidatesUnsearched(peer) == EmptySlots

Candidates(peer) == IF SlotsOf(peer) # {} THEN SlotsOf(peer) ELSE EmptySlots

FlashInit ==
    /\ cache = EmptyCache /\ page = ErasedPage
    /\ pc = "idle" /\ slot = 1 /\ part = 0
    /\ saved_bonds = {}

\* Variant: a bond that replaces another is not flushed
SaveUnflushed(bond) ==
    /\ pc = "idle"
    /\ \E i \in FirstSlot(Candidates(bond.addr)) : cache' = [cache EXCEPT ![i] = bond]
    /\ pc' = IF SlotsOf(bond.addr) # {} THEN "idle" ELSE "erase"
    /\ saved_bonds' = saved_bonds \cup {bond}
    /\ UNCHANGED <<page, slot, part>>

Save(bond) ==
    /\ pc = "idle"
    /\ \E i \in FirstSlot(Candidates(bond.addr)) : cache' = [cache EXCEPT ![i] = bond]
    /\ pc' = "erase"
    /\ saved_bonds' = saved_bonds \cup {bond}
    /\ UNCHANGED <<page, slot, part>>

\* A full store ignores the bond of a new peer and says nothing.
SaveIgnored(bond) ==
    /\ pc = "idle"
    /\ Candidates(bond.addr) = {}
    /\ saved_bonds' = saved_bonds \cup {bond}
    /\ UNCHANGED <<cache, page, pc, slot, part>>

save == \E bond \in Bonds : Save(bond) \/ SaveIgnored(bond)

-----------------------------------------------------------------------------
(* flush                                                                   *)

\* Variant: only the header word is erased
EraseHeader ==
    /\ pc = "erase"
    /\ page' = [page EXCEPT !.magic = FALSE]
    /\ pc' = "magic"
    /\ UNCHANGED <<cache, slot, part, saved_bonds>>

erase_page ==
    /\ pc = "erase"
    /\ page' = ErasedPage
    /\ pc' = "magic"
    /\ UNCHANGED <<cache, slot, part, saved_bonds>>

write_magic ==
    /\ pc = "magic"
    /\ page' = [page EXCEPT !.magic = TRUE]
    /\ pc' = "write" /\ slot' = 1 /\ part' = 0
    /\ UNCHANGED <<cache, saved_bonds>>

write_part ==
    /\ pc = "write" /\ slot <= BOND_MAX
    /\ cache[slot] # NoBond
    /\ page' = [page EXCEPT !.records[slot] = [written |-> part + 1, bond |-> cache[slot]]]
    /\ part' = IF part + 1 = RECORD_PARTS THEN 0 ELSE part + 1
    /\ slot' = IF part + 1 = RECORD_PARTS THEN slot + 1 ELSE slot
    /\ UNCHANGED <<cache, pc, saved_bonds>>

skip_slot ==
    /\ pc = "write" /\ slot <= BOND_MAX
    /\ cache[slot] = NoBond
    /\ slot' = slot + 1
    /\ UNCHANGED <<cache, page, pc, part, saved_bonds>>

flushed ==
    /\ pc = "write" /\ slot > BOND_MAX
    /\ pc' = "idle"
    /\ UNCHANGED <<cache, page, slot, part, saved_bonds>>

-----------------------------------------------------------------------------
(* Power loss and open                                                     *)

PartlyErased ==
    {[magic   |-> page.magic /\ keepsMagic,
      records |-> [i \in PageSlots |-> IF i \in kept THEN page.records[i] ELSE Erased]] :
        keepsMagic \in BOOLEAN, kept \in SUBSET PageSlots}

power_loss ==
    /\ pc # "off"
    /\ cache' = EmptyCache
    /\ IF pc = "erase" THEN page' \in PartlyErased ELSE UNCHANGED page
    /\ pc' = "off"
    /\ UNCHANGED <<slot, part, saved_bonds>>

open ==
    /\ pc = "off"
    /\ cache' = Loaded
    /\ pc' = "idle"
    /\ UNCHANGED <<page, slot, part, saved_bonds>>

FlashNext ==
    \/ save \/ erase_page \/ write_magic \/ write_part \/ skip_slot \/ flushed
    \/ power_loss \/ open

FlashSpec == FlashInit /\ [][FlashNext]_flashVars

-----------------------------------------------------------------------------
Records == [written : 0 .. RECORD_PARTS, bond : Bonds \cup {NoBond}]

TypeOK ==
    /\ cache \in [PageSlots -> Bonds \cup {NoBond}]
    /\ page \in [magic : BOOLEAN, records : [PageSlots -> Records]]
    /\ pc \in {"off", "idle", "erase", "magic", "write"}
    /\ slot \in 1 .. BOND_MAX + 1 /\ part \in 0 .. RECORD_PARTS - 1
    /\ saved_bonds \subseteq Bonds

(***************************************************************************)
(* No torn bond: whenever power was lost, find returns only bonds that     *)
(* were saved, never the bytes of a record that was half written.          *)
(***************************************************************************)
OnlySavedBonds == \A i \in PageSlots : cache[i] # NoBond => cache[i] \in saved_bonds

(***************************************************************************)
(* A peer has at most one bond, in the cache and on the page, so find      *)
(* cannot return a key that a later save replaced.                         *)
(***************************************************************************)
OnePerPeer ==
    \A i, j \in PageSlots :
        /\ cache[i] # NoBond /\ cache[j] # NoBond /\ cache[i].addr = cache[j].addr => i = j
        /\ Loaded[i] # NoBond /\ Loaded[j] # NoBond /\ Loaded[i].addr = Loaded[j].addr => i = j

(***************************************************************************)
(* While no save is in progress the page holds the cache: a power loss     *)
(* outside flush loses nothing.                                            *)
(***************************************************************************)
FlushedIsDurable == pc = "idle" => Loaded = cache

(***************************************************************************)
(* A power loss during flush may lose bonds ("erase-on-save"), but it      *)
(* brings none back but those of the last completed flush: what the page   *)
(* holds for a slot is the cached bond, except before the page is erased.  *)
(***************************************************************************)
NoOldBondAfterErase ==
    pc \in {"magic", "write"} =>
        \A i \in PageSlots : Loaded[i] # NoBond => Loaded[i] = cache[i]
=============================================================================
