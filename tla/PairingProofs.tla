---------------------------- MODULE PairingProofs ----------------------------
(***************************************************************************)
(* Bonds and confirm values, for any peers, keys, PDUs and random values   *)
(* and any number of slots.                                                *)
(***************************************************************************)
EXTENDS Pairing, TLAPS

SlotNumbers == 1 .. MaxBonds

\* The bonds and the history are what they should be.
BondsTyped ==
    /\ bonds \in [SlotNumbers -> [addr : Peers, ltk : Ltks] \cup {None}]
    /\ saved \in [Peers -> Ltks \cup {None}]

\* No peer has two slots.
OneSlot ==
    \A i, j \in SlotNumbers :
        bonds[i] # None /\ bonds[j] # None /\ bonds[i].addr = bonds[j].addr => i = j

\* A peer has a slot if and only if a key was saved, and that key is in it.
SlotHoldsSaved ==
    /\ \A i \in SlotNumbers : bonds[i] # None => bonds[i].ltk = saved[bonds[i].addr]
    /\ \A p \in Peers : saved[p] # None => Slots(p) # {}

BondsInv == BondsTyped /\ OneSlot /\ SlotHoldsSaved

\* The bonds change only when one is saved.
LEMMA BondsChange ==
    ASSUME [Next]_vars
    PROVE  gap_bond_save \/ UNCHANGED <<bonds, saved>>
BY DEF Next, vars, link, SecurityRequest, PairingRequest, PairingResponse,
       PairingConfirm, PairingRandom, PairingRandomMismatch, PairingRandomShort,
       PairingFailed, ControlReceived, respond, gap_pair, gap_encrypt

\* save keeps all this: it takes the slot of the peer if there is one.
LEMMA BondsStep ==
    ASSUME BondsInv, [Next]_vars
    PROVE  BondsInv'
<1>1. CASE UNCHANGED <<bonds, saved>>
    BY <1>1 DEF BondsInv, BondsTyped, OneSlot, SlotHoldsSaved, Slots
<1>2. CASE gap_bond_save
  <2>1. PICK peer \in Peers, ltk \in Ltks :
            \/ UNCHANGED <<bonds, saved>>
            \/ \E i \in FirstOf(SlotFor(peer)) :
                  /\ bonds' = [bonds EXCEPT ![i] = [addr |-> peer, ltk |-> ltk]]
                  /\ saved' = [saved EXCEPT ![peer] = ltk]
    BY <1>2 DEF gap_bond_save
  <2>2. CASE UNCHANGED <<bonds, saved>>
    BY <1>1, <2>2
  <2>3. ASSUME NEW i \in FirstOf(SlotFor(peer)),
               bonds' = [bonds EXCEPT ![i] = [addr |-> peer, ltk |-> ltk]],
               saved' = [saved EXCEPT ![peer] = ltk]
        PROVE  BondsInv'
    <3>1. i \in SlotNumbers /\ (i \in Slots(peer) \/ (Slots(peer) = {} /\ i \in Free))
        BY DEF FirstOf, SlotFor, Slots, Free, SlotNumbers
    <3>2. [addr |-> peer, ltk |-> ltk] # None /\ ltk # None
        BY PairingAssumption
    <3>3. BondsTyped'
        BY <2>3, <3>1 DEF BondsInv, BondsTyped
    <3>4. bonds'[i] = [addr |-> peer, ltk |-> ltk]
          /\ \A j \in SlotNumbers : j # i => bonds'[j] = bonds[j]
        BY <2>3, <3>1 DEF BondsInv, BondsTyped
    <3>5. saved'[peer] = ltk /\ \A p \in Peers : p # peer => saved'[p] = saved[p]
        BY <2>3 DEF BondsInv, BondsTyped
    <3>6. \A j \in SlotNumbers : j # i /\ bonds[j] # None => bonds[j].addr # peer
        BY <3>1 DEF BondsInv, OneSlot, Slots, SlotNumbers
    <3>7. OneSlot'
        BY <3>1, <3>4, <3>6 DEF BondsInv, OneSlot
    <3>8. \A j \in SlotNumbers : bonds'[j] # None => bonds'[j].ltk = saved'[bonds'[j].addr]
        BY <3>4, <3>5, <3>6 DEF BondsInv, BondsTyped, SlotHoldsSaved
    <3>9. ASSUME NEW p \in Peers, saved'[p] # None
          PROVE  Slots(p)' # {}
        <4>1. CASE p = peer
            BY <4>1, <3>1, <3>2, <3>4 DEF Slots, SlotNumbers
        <4>2. CASE p # peer
            <5>1. PICK j \in Slots(p) : TRUE
                BY <4>2, <3>5, <3>9 DEF BondsInv, SlotHoldsSaved
            <5>2. j # i
                BY <5>1, <4>2, <3>1 DEF Slots, Free
            <5> QED BY <5>1, <5>2, <3>4 DEF Slots, SlotNumbers
        <4> QED BY <4>1, <4>2
    <3> QED BY <3>3, <3>7, <3>8, <3>9 DEF BondsInv, SlotHoldsSaved
  <2> QED BY <2>1, <2>2, <2>3
<1> QED BY <1>1, <1>2, BondsChange

\* What find returns is then what was saved.
LEMMA FindsSaved == BondsInv => LatestBond
<1> SUFFICES ASSUME BondsInv, NEW p \in Peers
             PROVE  find(p) = saved[p]
    BY DEF LatestBond
<1>1. CASE Slots(p) = {}
    BY <1>1 DEF find, BondsInv, SlotHoldsSaved
<1>2. CASE Slots(p) # {}
  <2>1. PICK i \in Slots(p) : TRUE
    BY <1>2
  <2>2. FirstOf(Slots(p)) = {i}
    BY <2>1 DEF FirstOf, Slots, BondsInv, OneSlot, SlotNumbers
  <2>3. find(p) = bonds[i].ltk
    BY <1>2, <2>2 DEF find
  <2> QED BY <2>1, <2>3 DEF Slots, BondsInv, SlotHoldsSaved, SlotNumbers
<1> QED BY <1>1, <1>2

(***************************************************************************)
(* The bond found for a peer is the one last saved with its address, for   *)
(* stores of any size (RamBondStore::save, find).                          *)
(***************************************************************************)
THEOREM LastSavedIsFound == Spec => []LatestBond
<1>1. Init => BondsInv
    BY DEF Init, BondsInv, BondsTyped, OneSlot, SlotHoldsSaved, SlotNumbers
<1>2. BondsInv /\ [Next]_vars => BondsInv'
    BY BondsStep
<1> QED BY <1>1, <1>2, FindsSaved, PTL DEF Spec

-----------------------------------------------------------------------------
\* smp is a record of these fields.
SmpTyped ==
    /\ DOMAIN smp = {"state", "own_random", "peer_random", "own_confirm",
                     "peer_confirm", "preq", "pres", "stk"}
    /\ smp = [f \in DOMAIN smp |-> smp[f]]

\* Once there is a confirm value of the peer, this end has sent its own, for the
\* request and the response in force unless one of them is newer.
OwnConfirmSent ==
    smp.peer_confirm # <<>> =>
        /\ smp.own_random = OwnRandom
        /\ renewed \/ smp.own_confirm = c1(OwnRandom, smp.preq, smp.pres)

SmpInv == SmpTyped /\ OwnConfirmSent

\* A confirm value is nothing that Smp::new has left.
LEMMA ConfirmWritten ==
    ASSUME NEW r, NEW q, NEW s
    PROVE  c1(r, q, s) # <<>>
BY DEF c1

\* The long term key of a bond is not a key that pairing makes.
LEMMA BondKeyDiffers ==
    ASSUME NEW k
    PROVE  <<k>> \notin SessionKeys
BY DEF SessionKeys, s1

KeyConfirmedStep ==
    MakesKey =>
        /\ smp'.stk = s1(OwnRandom, smp'.peer_random)
        /\ smp'.peer_confirm = c1(smp'.peer_random, smp'.preq, smp'.pres)
        /\ renewed \/ smp'.own_confirm = c1(OwnRandom, smp'.preq, smp'.pres)

\* A request or a response, own or of the peer
LEMMA RenewedStep ==
    ASSUME SmpInv, SmpTyped', renewed' = TRUE, smp'.own_random = smp.own_random,
           smp'.stk = smp.stk, smp'.peer_confirm = smp.peer_confirm
    PROVE  SmpInv' /\ KeyConfirmedStep
BY DEF SmpInv, OwnConfirmSent, KeyConfirmedStep, MakesKey

\* Every step keeps the invariant, and makes a key of confirmed values only.
LEMMA SmpStep ==
    ASSUME SmpInv, [Next]_vars
    PROVE  SmpInv' /\ KeyConfirmedStep
<1> USE DEF SmpTyped
<1>1. CASE UNCHANGED <<smp, renewed>>
    BY <1>1 DEF SmpInv, OwnConfirmSent, KeyConfirmedStep, MakesKey
<1>2. CASE build_pairing_request
    BY <1>2, RenewedStep DEF build_pairing_request, SmpInv
<1>3. CASE PairingRequest
    BY <1>3, RenewedStep DEF PairingRequest, SmpInv
<1>4. CASE PairingResponse
    BY <1>4, RenewedStep DEF PairingResponse, SmpInv
<1>5. CASE PairingConfirm
  <2>1. PICK confirm \in PeerConfirms :
          smp' = [smp EXCEPT !.peer_confirm = confirm,
                             !.state = "WaitRandom", !.own_random = OwnRandom,
                             !.own_confirm = OwnConfirm(smp)]
    BY <1>5 DEF PairingConfirm
  <2>2. /\ SmpTyped' /\ smp'.stk = smp.stk /\ smp'.own_random = OwnRandom
        /\ smp'.own_confirm = OwnConfirm(smp)
        /\ smp'.preq = smp.preq /\ smp'.pres = smp.pres
    BY <2>1 DEF SmpInv
  <2> QED BY <2>2 DEF SmpInv, OwnConfirmSent, OwnConfirm, KeyConfirmedStep, MakesKey
<1>6. CASE PairingRandom
  <2>1. PICK r \in Randoms :
          /\ Confirmed(r)
          /\ smp' = [smp EXCEPT !.peer_random = r, !.stk = s1(smp.own_random, r),
                                !.state = "WaitingStartEnc"]
    BY <1>6 DEF PairingRandom
  <2>2. /\ SmpTyped' /\ smp'.stk = s1(smp.own_random, r) /\ smp'.peer_random = r
        /\ smp'.own_random = smp.own_random
        /\ smp'.own_confirm = smp.own_confirm /\ smp'.peer_confirm = smp.peer_confirm
        /\ smp'.preq = smp.preq /\ smp'.pres = smp.pres
    BY <2>1 DEF SmpInv
  <2>3. smp.peer_confirm = c1(r, smp.preq, smp.pres)
    BY <2>1 DEF Confirmed
  <2>4. /\ smp.own_random = OwnRandom
        /\ renewed \/ smp.own_confirm = c1(OwnRandom, smp.preq, smp.pres)
    BY <2>3, ConfirmWritten DEF SmpInv, OwnConfirmSent
  <2>5. renewed' = renewed
    BY <1>6 DEF PairingRandom
  <2>6. OwnConfirmSent'
    BY <2>2, <2>4, <2>5 DEF OwnConfirmSent
  <2>7. KeyConfirmedStep
    BY <2>2, <2>3, <2>4 DEF KeyConfirmedStep
  <2> QED BY <2>2, <2>6, <2>7 DEF SmpInv
<1>7. CASE PairingRandomMismatch
    BY <1>7 DEF PairingRandomMismatch, SmpInv, OwnConfirmSent, KeyConfirmedStep, MakesKey
<1>8. CASE gap_pair
  <2>1. CASE smp' = [smp EXCEPT !.state = "Idle"] /\ UNCHANGED renewed
    BY <2>1 DEF SmpInv, OwnConfirmSent, KeyConfirmedStep, MakesKey
  <2> QED BY <1>2, <1>8, <2>1 DEF gap_pair
<1>9. CASE gap_encrypt
  <2>1. smp' = [smp EXCEPT !.stk = <<find(peer_addr)>>] /\ UNCHANGED renewed
    BY <1>9 DEF gap_encrypt
  <2>2. smp'.stk \notin SessionKeys
    BY <2>1, BondKeyDiffers DEF SmpInv
  <2> QED BY <2>1, <2>2 DEF SmpInv, OwnConfirmSent, KeyConfirmedStep, MakesKey
<1> QED
    BY <1>1, <1>2, <1>3, <1>4, <1>5, <1>6, <1>7, <1>8, <1>9
    DEF Next, vars, SecurityRequest, PairingRandomShort, PairingFailed, ControlReceived,
        respond, gap_bond_save

(***************************************************************************)
(* When pairing makes a key, the peer's random fits the confirm value it   *)
(* has sent for the request and the response in force, and this end has    *)
(* sent its own for them unless they are newer, whatever confirm values,   *)
(* requests and responses were received before (handle_confirm,            *)
(* build_confirm, handle_random).                                          *)
(***************************************************************************)
THEOREM KeysAreConfirmed == Spec => KeyConfirmed
<1>1. Init => SmpInv
    BY DEF Init, SmpInv, SmpTyped, OwnConfirmSent
<1>2. SmpInv /\ [Next]_vars => SmpInv'
    BY SmpStep
<1>3. SmpInv /\ [Next]_vars => [KeyConfirmedStep]_vars
    BY SmpStep
<1> QED BY <1>1, <1>2, <1>3, PTL DEF Spec, KeyConfirmed, KeyConfirmedStep
=============================================================================
