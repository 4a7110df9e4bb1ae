------------------------------ MODULE LinkLayer ------------------------------
(***************************************************************************)
(* Sequence numbers, control answers and the MD bit of a connection in     *)
(* the slave role (conn.rs: event, handle_ll_control, respond), facing a   *)
(* peer that follows the link layer protocol, over a channel that loses    *)
(* packets.                                                                *)
(*                                                                         *)
(* The peer (external) repeats a PDU until it is acknowledged and takes a  *)
(* packet as new when it carries the sequence number it expects.  The code *)
(* acknowledges by `nesn`, handles whatever it hears, and never looks at   *)
(* the acknowledgements of the peer.  A packet of the peer that is lost    *)
(* changes nothing at either end, so it is no step here.                   *)
(*                                                                         *)
(* A packet that arrives must also pass DataPdu::decode, which compares    *)
(* the length receive_poll reports with the one in the header.  The code   *)
(* reports half of it (`buf[1] >> 1`, the layout of its advertising PDUs), *)
(* its comment says "the PDU length".  Which of the two receive_poll does  *)
(* is a parameter, so that what lies behind decode can be checked as well. *)
(***************************************************************************)
EXTENDS Integers

CONSTANTS
    Requests,       \* control requests that are answered from pending_control
    MaxPdus,        \* bound on the PDUs the peer has to send
    MaxFragments,   \* fragments of the longest message of the slave
    Divisors,       \* of the length byte in receive_poll: 2 in the code, 1 in
                    \* its comment
    DataLengths,    \* payload lengths of the PDUs that are not empty
    NoAnswer        \* None in pending_control

ASSUME LinkLayerAssumption ==
    /\ Requests \subseteq STRING
    /\ Requests \cap {"EMPTY", "DATA", "VERSION_IND", "FRAGMENT"} = {}
    /\ MaxPdus \in Nat \ {0} /\ MaxFragments \in Nat
    /\ Divisors \subseteq {1, 2}
    /\ DataLengths \subseteq 1 .. 27     \* no data length extension
    /\ NoAnswer \notin STRING

VARIABLES
    sn, nesn,         \* Conn::sn, Conn::nesn
    tx_left,          \* fragments of the pending message still to be sent
    pending_control,  \* the request whose answer is waiting, or NoAnswer
    divisor,          \* what receive_poll divides the length byte by
    closed,           \* Ble::conn is None: event() returned an error
    p_sn, p_nesn,     \* peer: transmitSeqNum, nextExpectedSeqNum
    p_pdu,            \* peer: the PDU it sends until it is acknowledged
    p_count,          \* peer: how many PDUs other than empty ones it has begun
    handled,          \* history: number of the PDU handled last
    heard             \* history: the slave's last packet and what became of it

slave  == <<sn, nesn, tx_left, pending_control, divisor, closed>>
peer   == <<p_sn, p_nesn, p_pdu, p_count>>
llVars == <<slave, peer, handled, heard>>

Bit  == {0, 1}
Kind == Requests \cup {"DATA", "VERSION_IND"}
Fate == {"NONE", "LOST", "TAKEN", "DISCARDED"}

LLInit ==
    /\ sn = 0 /\ nesn = 0 /\ tx_left = 0 /\ pending_control = NoAnswer
    /\ divisor \in Divisors /\ closed = FALSE
    /\ p_sn = 0 /\ p_nesn = 0
    /\ \/ p_pdu = "EMPTY" /\ p_count = 0
       \/ p_pdu \in Kind /\ p_count = 1
    /\ handled = 0
    /\ heard = [kind |-> "EMPTY", fate |-> "NONE"]

-----------------------------------------------------------------------------
(* The application queues a message (conn_send), in place of a pending one.*)

queue_notify ==
    /\ ~closed
    /\ \E n \in 1 .. MaxFragments : tx_left' = n
    /\ UNCHANGED <<sn, nesn, pending_control, divisor, closed, peer, handled, heard>>

-----------------------------------------------------------------------------
(* The length check: receive_poll reports a length, DataPdu::decode wants  *)
(* it to be the one of the header.                                         *)

Lengths == IF p_pdu = "EMPTY" THEN {0} ELSE DataLengths

receive_poll(length) == (length \div divisor) % 64

\* Variant: the header's length is halved as well
DecodesHalved(length) == receive_poll(length) = (length \div 2) % 64

decodes(length) == receive_poll(length) = length % 64

\* A PDU that the link goes on with
Valid ==
    /\ ~closed
    /\ \E length \in Lengths : decodes(length)
    /\ UNCHANGED <<divisor, closed>>

\* event() returns Err(InvalidPdu), and conn_tick drops the connection.
EventInvalid ==
    /\ ~closed
    /\ \E length \in Lengths : ~decodes(length)
    /\ closed' = TRUE
    /\ UNCHANGED <<sn, nesn, tx_left, pending_control, divisor, peer, handled, heard>>

-----------------------------------------------------------------------------
(* What the slave does with a PDU it hears                                 *)

\* Variant: the sequence number decides whether the PDU is handled
HandledIfNew ==
    handled' = IF p_pdu = "EMPTY" \/ p_sn = nesn THEN handled ELSE p_count

\* Whether it is new or repeated: the sequence number is only noted.
HandledNow == handled' = IF p_pdu = "EMPTY" THEN handled ELSE p_count

Acked == nesn' = p_sn

\* handle_l2cap may queue an answer; handle_ll_control leaves one in the slot.
Message(left) == IF p_pdu = "DATA" THEN {left} \cup 1 .. MaxFragments ELSE {left}
Control       == IF p_pdu \in Requests THEN p_pdu ELSE pending_control

-----------------------------------------------------------------------------
(* respond: a control answer, else a fragment, else an empty PDU.  Only a  *)
(* fragment makes the sequence number move on.                             *)

Packet(left, control) ==
    IF control # NoAnswer THEN control ELSE IF left > 0 THEN "FRAGMENT" ELSE "EMPTY"

\* Variant: the sequence number is not toggled
RespondUntoggled(left, control) ==
    /\ pending_control' = NoAnswer
    /\ tx_left' = IF Packet(left, control) = "FRAGMENT" THEN left - 1 ELSE left
    /\ UNCHANGED sn

respond(left, control) ==
    /\ pending_control' = NoAnswer
    /\ tx_left' = IF Packet(left, control) = "FRAGMENT" THEN left - 1 ELSE left
    /\ sn' = IF Packet(left, control) = "FRAGMENT" THEN 1 - sn ELSE sn

\* LL_VERSION_IND (and LL_FEATURE_REQ) is answered at once, before respond.
FirstPacket(left, control) ==
    IF p_pdu = "VERSION_IND" THEN "VERSION_IND" ELSE Packet(left, control)

-----------------------------------------------------------------------------
(* The peer hears the first packet after its own, which carries the        *)
(* slave's sn and the opposite of its new nesn.                            *)

NextPdu ==
    \/ p_pdu' = "EMPTY" /\ UNCHANGED p_count
    \/ /\ p_count < MaxPdus
       /\ p_pdu' \in Kind
       /\ p_count' = p_count + 1

PeerHears(kind) ==
    /\ IF sn = p_nesn
       THEN p_nesn' = 1 - p_nesn /\ heard' = [kind |-> kind, fate |-> "TAKEN"]
       ELSE UNCHANGED p_nesn     /\ heard' = [kind |-> kind, fate |-> "DISCARDED"]
    /\ IF 1 - nesn' # p_sn
       THEN p_sn' = 1 - p_sn /\ NextPdu
       ELSE UNCHANGED <<p_sn, p_pdu, p_count>>

PeerMisses(kind) ==
    /\ heard' = [kind |-> kind, fate |-> "LOST"]
    /\ UNCHANGED peer

-----------------------------------------------------------------------------
(* Conn::event with a PDU that was heard and announces no more data        *)

EventOf(left) == Acked /\ HandledNow /\ respond(left, Control)

EventHeard ==
    /\ Valid
    /\ \E left \in Message(tx_left) :
        EventOf(left) /\ PeerHears(FirstPacket(left, Control))

EventLost ==
    /\ Valid
    /\ \E left \in Message(tx_left) :
        EventOf(left) /\ PeerMisses(FirstPacket(left, Control))

\* Variant: a PDU with MD is answered by an empty PDU
EventMoreAnswered ==
    /\ Valid
    /\ p_pdu # "EMPTY" /\ p_count < MaxPdus
    /\ Acked
    /\ HandledNow
    /\ pending_control' = Control
    /\ tx_left' \in Message(tx_left)
    /\ UNCHANGED sn
    /\ PeerHears("EMPTY")

\* With the MD bit: the slave listens for the next PDU before it responds, but
\* the peer waits for the response, so the event ends without one.  Only an
\* LL_VERSION_IND is answered, by handle_ll_control itself.
EventMore ==
    /\ Valid
    /\ p_pdu # "EMPTY" /\ p_count < MaxPdus
    /\ Acked
    /\ HandledNow
    /\ pending_control' = Control
    /\ tx_left' \in Message(tx_left)
    /\ UNCHANGED sn
    /\ \/ p_pdu # "VERSION_IND" /\ UNCHANGED <<peer, heard>>
       \/ p_pdu = "VERSION_IND" /\ PeerHears("VERSION_IND")
       \/ p_pdu = "VERSION_IND" /\ PeerMisses("VERSION_IND")

LLNext == queue_notify \/ EventHeard \/ EventLost \/ EventMore \/ EventInvalid

LLSpec == LLInit /\ [][LLNext]_llVars

-----------------------------------------------------------------------------
TypeOK ==
    /\ sn \in Bit /\ nesn \in Bit /\ tx_left \in 0 .. MaxFragments
    /\ pending_control \in Requests \cup {NoAnswer}
    /\ divisor \in {1, 2} /\ closed \in BOOLEAN
    /\ p_sn \in Bit /\ p_nesn \in Bit
    /\ p_pdu \in Kind \cup {"EMPTY"} /\ p_count \in 0 .. MaxPdus
    /\ handled \in 0 .. MaxPdus
    /\ heard \in [kind : Kind \cup {"EMPTY", "FRAGMENT"}, fate : Fate]

(***************************************************************************)
(* The slave has handled every PDU that the peer regards as acknowledged,  *)
(* in order and whichever answers were lost, the very first one included,  *)
(* whose sequence number equals the initial nesn.                          *)
(***************************************************************************)
AcknowledgedIsHandled ==
    handled \in IF p_pdu = "EMPTY" THEN {p_count} ELSE {p_count - 1, p_count}

(***************************************************************************)
(* An answer waiting in pending_control, which has one place, is never     *)
(* replaced by the answer to another request: the slave acknowledges a     *)
(* request only in the packet that carries its answer.                     *)
(***************************************************************************)
AnswerNotReplaced ==
    [][pending_control # NoAnswer => pending_control' \in {pending_control, NoAnswer}]_llVars

(***************************************************************************)
(* When the peer has heard a fragment, the two ends agree on the next      *)
(* sequence number, so a fragment that follows at once is taken.  After    *)
(* an empty PDU or a control answer, which do not toggle sn, they do not.  *)
(***************************************************************************)
InStepAfterFragment ==
    heard.kind = "FRAGMENT" /\ heard.fate \in {"TAKEN", "DISCARDED"} => sn = p_nesn

(***************************************************************************)
(* With the length receive_poll reports (radio.rs: half of it) no PDU that *)
(* is not empty ever gets past DataPdu::decode, although its comment says  *)
(* "the PDU length": the slave handles none and answers no request, and    *)
(* the peer never comes to a second one.                                   *)
(***************************************************************************)
HalvedLengthStopsData ==
    divisor = 2 => handled = 0 /\ pending_control = NoAnswer /\ p_count <= 1
=============================================================================
