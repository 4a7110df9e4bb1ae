------------------------------- MODULE Pairing -------------------------------
(***************************************************************************)
(* Legacy pairing, the start of encryption and the bonds in RAM at one end *)
(* of a connection (conn.rs: handle_smp, handle_ll_control, RamBondStore;  *)
(* smp.rs; ble.rs: gap_pair, gap_encrypt, gap_bond_save).                  *)
(*                                                                         *)
(* The peer may send any SMP message at any time, since handle_smp goes by *)
(* the opcode and not by the state, and any confirm value, since           *)
(* handle_confirm stores the 16 bytes it is given.  The functions c1 and   *)
(* s1 are free terms.  The temporary key is the all-zero one, since        *)
(* nothing sets a passkey on a connection, and the addresses in c1 are the *)
(* zeros they are created with, so neither is an argument here.  Fields    *)
(* that are only written (responder, want_encrypt) and the reason of a     *)
(* failure are left out.                                                   *)
(***************************************************************************)
EXTENDS Integers

CONSTANTS
    PeerPdus,    \* pairing requests and responses the peer may send
    Randoms,     \* random values of the peer
    Peers,       \* addresses with which bonds may be saved
    peer_addr,   \* the address of the peer
    Ltks,        \* long term keys of bonds
    MaxBonds,    \* slots of a RamBondStore, 8 in the code
    None         \* Option::None, and arrays that were never written

ASSUME PairingAssumption ==
    /\ peer_addr \in Peers
    /\ MaxBonds \in Nat \ {0}
    /\ None \notin PeerPdus \cup Randoms \cup Peers \cup Ltks
    /\ None \notin [addr : Peers, ltk : Ltks]

VARIABLES
    role, smp,             \* Conn::role, Conn::smp
    pairing_in_progress,
    pending_control,       \* the control PDU to be sent, or None
    encrypted,
    bonds,                 \* RamBondStore::bonds
    tx_att,                \* the SMP message in the transmit slot, or None
    saved,                 \* history: the key last saved with each address, if
                           \* there was a slot for it
    renewed                \* history: a request or a response has replaced
                           \* another since the last confirm value

link == <<role, pairing_in_progress, pending_control, encrypted>>
vars == <<smp, link, bonds, tx_att, saved, renewed>>

-----------------------------------------------------------------------------
\* The PDUs this end builds are the same each time, and so is its random value.
OwnRequest  == "OwnRequest"
OwnResponse == "OwnResponse"
OwnRandom   == "0x5A"

c1(r, preq, pres) == <<"c1", r, preq, pres>>
s1(r1, r2)        == <<"s1", r1, r2>>

\* What smp.preq and smp.pres may hold
Pdus == PeerPdus \cup {OwnRequest, OwnResponse, None}

\* The confirm values of the peer.  One that is for no random value at all is
\* like one for a pair of PDUs that never meet, such as the two own ones swapped.
PeerConfirms == {c1(r, preq, pres) : r \in Randoms, preq, pres \in Pdus}

Init ==
    /\ role \in {"Master", "Slave"}
    /\ smp = [state |-> "Idle", own_random |-> None, peer_random |-> None,
              own_confirm |-> <<>>, peer_confirm |-> <<>>, preq |-> None, pres |-> None,
              stk |-> <<>>]
    /\ pairing_in_progress = FALSE
    /\ pending_control = None
    /\ encrypted = FALSE
    /\ bonds = [i \in 1 .. MaxBonds |-> None]
    /\ tx_att = None
    /\ saved = [p \in Peers |-> None]
    /\ renewed = FALSE

-----------------------------------------------------------------------------
(* SMP messages of the peer: what smp.rs does, and what is queued then     *)

\* Also SMP_SECURITY_REQUEST, whoever sends it.  The state does not change.
build_pairing_request ==
    /\ smp' = [smp EXCEPT !.preq = OwnRequest]
    /\ tx_att' = "PAIRING_REQUEST"
    /\ renewed' = TRUE

SecurityRequest ==
    /\ build_pairing_request
    /\ UNCHANGED <<link, bonds, saved>>

PairingRequest ==
    /\ \E pdu \in PeerPdus :
        smp' = [smp EXCEPT !.preq = pdu, !.pres = OwnResponse,
                           !.state = "WaitConfirm"]
    /\ pairing_in_progress' = TRUE
    /\ renewed' = TRUE
    /\ tx_att' = "PAIRING_RESPONSE"
    /\ UNCHANGED <<role, pending_control, encrypted, bonds, saved>>

PairingResponse ==
    /\ \E pdu \in PeerPdus :
        smp' = [smp EXCEPT !.pres = pdu, !.state = "WaitConfirm"]
    /\ pairing_in_progress' = TRUE
    /\ renewed' = TRUE
    /\ UNCHANGED <<role, pending_control, encrypted, bonds, tx_att, saved>>

\* build_confirm: own_confirm is made with the random value it is about.
OwnConfirm(next) == c1(OwnRandom, next.preq, next.pres)

\* handle_confirm, then build_confirm
PairingConfirm ==
    /\ \E confirm \in PeerConfirms :
        smp' = [smp EXCEPT !.peer_confirm = confirm,
                           !.state = "WaitRandom", !.own_random = OwnRandom,
                           !.own_confirm = OwnConfirm(smp)]
    /\ tx_att' = "PAIRING_CONFIRM"
    /\ renewed' = FALSE
    /\ UNCHANGED <<link, bonds, saved>>

\* Variant: the request is not part of what is compared
ConfirmedAnyRequest(r) ==
    \E preq \in Pdus : c1(r, preq, smp.pres) = smp.peer_confirm

Confirmed(r) == c1(r, smp.preq, smp.pres) = smp.peer_confirm

queue_encrypt_req == pending_control' = "LL_ENC_REQ"

\* handle_random with a value that fits the confirm value last received
PairingRandom ==
    \E r \in Randoms :
        /\ Confirmed(r)
        /\ smp' = [smp EXCEPT !.peer_random = r, !.stk = s1(smp.own_random, r),
                              !.state = "WaitingStartEnc"]
        /\ pairing_in_progress' = FALSE
        /\ tx_att' = "PAIRING_RANDOM"
        /\ IF role = "Master" THEN queue_encrypt_req ELSE UNCHANGED pending_control
        /\ UNCHANGED <<role, encrypted, bonds, saved, renewed>>

\* One that does not fit: the state stays, and so does the confirm value.
PairingRandomMismatch ==
    /\ \E r \in Randoms :
        /\ ~Confirmed(r)
        /\ smp' = [smp EXCEPT !.peer_random = r]
    /\ pairing_in_progress' = FALSE
    /\ tx_att' = "PAIRING_FAILED"
    /\ UNCHANGED <<role, pending_control, encrypted, bonds, saved, renewed>>

\* A PAIRING_RANDOM that is too short is refused as well.
PairingRandomShort ==
    /\ pairing_in_progress' = FALSE
    /\ tx_att' = "PAIRING_FAILED"
    /\ UNCHANGED <<role, smp, pending_control, encrypted, bonds, saved, renewed>>

PairingFailed ==
    /\ pairing_in_progress' = FALSE
    /\ UNCHANGED <<role, smp, pending_control, encrypted, bonds, tx_att, saved, renewed>>

-----------------------------------------------------------------------------
(* LL control PDUs, which a master does not look at, and sending           *)

ControlReceived ==
    /\ role = "Slave"
    /\ \/ pending_control' = "LL_ENC_RSP" /\ UNCHANGED encrypted       \* LL_ENC_REQ
       \/ pending_control' = "LL_START_ENC_REQ" /\ UNCHANGED encrypted \* LL_ENC_RSP
       \/ encrypted' = TRUE /\ UNCHANGED pending_control \* LL_START_ENC_REQ and _RSP
    /\ UNCHANGED <<role, smp, pairing_in_progress, bonds, tx_att, saved, renewed>>

respond ==
    /\ IF pending_control # None
       THEN pending_control' = None /\ UNCHANGED tx_att
       ELSE tx_att # None /\ tx_att' = None /\ UNCHANGED pending_control
    /\ UNCHANGED <<role, smp, pairing_in_progress, encrypted, bonds, saved, renewed>>

-----------------------------------------------------------------------------
(* Calls of the application                                                *)

gap_pair ==
    /\ IF role = "Master" THEN build_pairing_request
       ELSE /\ smp' = [smp EXCEPT !.state = "Idle"]
            /\ UNCHANGED <<tx_att, renewed>>
    /\ UNCHANGED <<link, bonds, saved>>

Slots(peer) == {i \in 1 .. MaxBonds : bonds[i] # None /\ bonds[i].addr = peer}
Free        == {i \in 1 .. MaxBonds : bonds[i] = None}

\* The first of some slots, as a set
FirstOf(slots) == {i \in slots : \A j \in slots : i <= j}

\* Variant: a free slot is taken before the one of the same peer
SlotFreeFirst(peer) == IF Free # {} THEN Free ELSE Slots(peer)

\* RamBondStore::save: the slot of the same peer, else a free one, else none
SlotFor(peer) == IF Slots(peer) # {} THEN Slots(peer) ELSE Free

find(peer) ==
    IF Slots(peer) = {} THEN None ELSE bonds[CHOOSE i \in FirstOf(Slots(peer)) : TRUE].ltk

gap_bond_save ==
    /\ \E peer \in Peers, ltk \in Ltks :
        \/ SlotFor(peer) = {} /\ UNCHANGED <<bonds, saved>>
        \/ \E i \in FirstOf(SlotFor(peer)) :
              /\ bonds' = [bonds EXCEPT ![i] = [addr |-> peer, ltk |-> ltk]]
              /\ saved' = [saved EXCEPT ![peer] = ltk]
    /\ UNCHANGED <<smp, link, tx_att, renewed>>

gap_encrypt ==
    /\ role = "Master" /\ find(peer_addr) # None
    /\ smp' = [smp EXCEPT !.stk = <<find(peer_addr)>>]
    /\ queue_encrypt_req
    /\ UNCHANGED <<role, pairing_in_progress, encrypted, bonds, tx_att, saved, renewed>>

Next ==
    \/ SecurityRequest \/ PairingRequest \/ PairingResponse \/ PairingConfirm
    \/ PairingRandom \/ PairingRandomMismatch \/ PairingRandomShort \/ PairingFailed
    \/ ControlReceived \/ respond
    \/ gap_pair \/ gap_bond_save \/ gap_encrypt

Spec == Init /\ [][Next]_vars

-----------------------------------------------------------------------------
\* The keys that pairing makes
SessionKeys == {s1(r1, r2) : r1 \in {None, OwnRandom}, r2 \in Randoms}

MakesKey == smp'.stk # smp.stk /\ smp'.stk \in SessionKeys

(***************************************************************************)
(* Whatever the order of the messages, and however often a pairing is      *)
(* begun anew: when one completes, the key is made of the own random value *)
(* and of one that fits the confirm value the peer has sent for the        *)
(* request and the response in force.  The confirm value this end has sent *)
(* is that of its own random for them too, so that the peer can check it,  *)
(* unless a request or a response came between the confirm values and the  *)
(* random (handle_confirm, build_confirm, handle_random).                  *)
(***************************************************************************)
KeyConfirmed ==
    [][ MakesKey =>
            /\ smp'.stk = s1(OwnRandom, smp'.peer_random)
            /\ smp'.peer_confirm = c1(smp'.peer_random, smp'.preq, smp'.pres)
            /\ renewed \/ smp'.own_confirm = c1(OwnRandom, smp'.preq, smp'.pres) ]_vars

(***************************************************************************)
(* The bond found for a peer is the last one saved with its address, and   *)
(* so is the key an encryption starts with (RamBondStore::save, find).     *)
(***************************************************************************)
LatestBond == \A p \in Peers : find(p) = saved[p]
=============================================================================
