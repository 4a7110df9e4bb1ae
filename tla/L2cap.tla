-------------------------------- MODULE L2cap --------------------------------
(***************************************************************************)
(* The transmit slot of a connection (conn.rs: tx_att .. tx_pdu_max), the  *)
(* fragmenter tx_fragment, and the reassembly handle_l2cap of a peer that  *)
(* runs the same stack.                                                    *)
(*                                                                         *)
(* A connection has room for one outgoing L2CAP message.  Each connection  *)
(* event sends a pending LL control PDU, or the next fragment of the       *)
(* message, or an empty PDU (respond).  The application and the stack's    *)
(* own answers share the room, and both queue whether it is free or not.   *)
(* A message is known by the position at which it was queued, and a run of *)
(* its bytes by that number and two offsets, so that mixed-up bytes show   *)
(* (beyond the length of a message that was queued over a longer one, the  *)
(* bytes are the older one's).                                             *)
(* Packets are neither lost nor duplicated here.  An index out of bounds   *)
(* ends the program: after a panic nothing runs any more.                  *)
(***************************************************************************)
EXTENDS Integers, Sequences

CONSTANTS
    AttLengths,     \* lengths of the ATT messages queued
    OtherLengths,   \* lengths of the signaling, SMP and CoC messages queued
    PduMaxes,       \* payload lengths a peer may announce in LL_LENGTH_REQ
    TX_BUF_LEN,     \* size of Conn::tx_buf (64)
    MaxMessages,    \* bound on the number of messages queued
    Usize,          \* the modulus of usize arithmetic
    None            \* Option::None

LL_PDU_PAYLOAD_DEFAULT == 27
LL_PDU_PAYLOAD_MAX     == 251
L2CAP_PAYLOAD_MAX      == 251   \* size of Conn::tx_att
RX_L2CAP_LEN           == 256   \* size of Conn::rx_l2cap

Att      == "ATT"
OtherCid == {"SIGNALING", "SMP", "COC"}
Cids     == {Att} \cup OtherCid

ASSUME L2capAssumption ==
    /\ AttLengths \subseteq 1 .. LL_PDU_PAYLOAD_MAX
    /\ OtherLengths \subseteq 1 .. LL_PDU_PAYLOAD_MAX
    /\ PduMaxes \subseteq Nat
    /\ TX_BUF_LEN \in Nat /\ TX_BUF_LEN >= 6   \* the headers fit
    /\ MaxMessages \in Nat
    /\ Usize \in Nat /\ Usize > 1024
    /\ None \notin {"LENGTH_RSP", "OTHER_RSP", "PANIC"}

VARIABLES
    tx_att,          \* which message's bytes the buffer holds
    tx_att_len, tx_frag_offset, tx_pending, tx_cid, tx_pdu_max,
    pending_control, \* the LL control PDU to be sent, or None
    sent,            \* the kind of PDU the last connection event transmitted
    rx_l2cap,        \* peer: the runs of bytes collected so far
    rx_l2cap_len, rx_l2cap_msg_len,
    queued,          \* history: cid and length of every message queued
    mixed,           \* history: the messages whose bytes were mixed in the slot
    handled          \* history: what the peer's handlers were given

txVars == <<tx_att, tx_att_len, tx_frag_offset, tx_pending, tx_cid>>
rxVars == <<rx_l2cap, rx_l2cap_len, rx_l2cap_msg_len, handled>>
vars   == <<txVars, tx_pdu_max, pending_control, sent, rxVars, queued, mixed>>

Init ==
    /\ tx_att = 0 /\ tx_att_len = 0 /\ tx_frag_offset = 0
    /\ tx_pending = FALSE /\ tx_cid = Att
    /\ tx_pdu_max = LL_PDU_PAYLOAD_DEFAULT
    /\ pending_control = None
    /\ sent = None
    /\ rx_l2cap = << >> /\ rx_l2cap_len = 0 /\ rx_l2cap_msg_len = 0
    /\ queued = << >> /\ mixed = {} /\ handled = << >>

\* Nothing runs after a panic.
Panicked == sent = "PANIC"
Running  == ~Panicked

-----------------------------------------------------------------------------
(* Queueing a message: the slot is overwritten, pending or not.            *)

Fill(cid, len) ==
    /\ Running
    /\ Len(queued) < MaxMessages
    /\ queued' = Append(queued, [cid |-> cid, len |-> len])
    /\ tx_att' = Len(queued')
    /\ tx_att_len' = len
    /\ tx_pending' = TRUE
    /\ UNCHANGED <<tx_pdu_max, pending_control, sent, rxVars>>

\* queue_notify, queue_att and gatt_send_request set neither the channel nor
\* the offset: the rest of a message half sent is sent from the new one's bytes.
queue_att ==
    \E len \in AttLengths :
        /\ Fill(Att, len)
        /\ mixed' = IF tx_frag_offset # 0 THEN mixed \cup {tx_att, tx_att'} ELSE mixed
        /\ UNCHANGED <<tx_cid, tx_frag_offset>>

\* Variant: the offset is left as it was
QueueKeepingOffset ==
    \E cid \in OtherCid, len \in OtherLengths :
        Fill(cid, len) /\ tx_cid' = cid /\ UNCHANGED <<tx_frag_offset, mixed>>

\* Variant: the channel is left as it was
QueueKeepingCid ==
    \E cid \in OtherCid, len \in OtherLengths :
        Fill(cid, len) /\ tx_frag_offset' = 0 /\ UNCHANGED <<tx_cid, mixed>>

\* queue_signaling, queue_l2cap and l2cap_send
queue_l2cap ==
    \E cid \in OtherCid, len \in OtherLengths :
        Fill(cid, len) /\ tx_cid' = cid /\ tx_frag_offset' = 0 /\ UNCHANGED mixed

-----------------------------------------------------------------------------
(* handle_ll_control: requests of the peer that are answered in the next   *)
(* event.  A second request before that replaces the answer to the first.  *)

Lesser(a, b) == IF a < b THEN a ELSE b

handle_length_req ==
    \E max_tx \in PduMaxes :
        /\ Running
        /\ pending_control' = "LENGTH_RSP"
        /\ tx_pdu_max' = Lesser(max_tx, LL_PDU_PAYLOAD_MAX)
        /\ UNCHANGED <<txVars, sent, rxVars, queued, mixed>>

\* LL_LENGTH_RSP sets the sizes and is not answered.
handle_length_rsp ==
    \E max_tx \in PduMaxes :
        /\ Running
        /\ tx_pdu_max' = Lesser(max_tx, LL_PDU_PAYLOAD_MAX)
        /\ UNCHANGED <<txVars, pending_control, sent, rxVars, queued, mixed>>

\* LL_PING_REQ, LL_PHY_REQ, LL_ENC_REQ, LL_ENC_RSP and unknown opcodes
handle_other_req ==
    /\ Running
    /\ pending_control' = "OTHER_RSP"
    /\ UNCHANGED <<txVars, tx_pdu_max, sent, rxVars, queued, mixed>>

-----------------------------------------------------------------------------
(* tx_fragment                                                             *)

First == tx_frag_offset = 0

Avail ==
    IF First
    THEN IF tx_pdu_max < 4 THEN 0 ELSE tx_pdu_max - 4   \* saturating_sub(4)
    ELSE tx_pdu_max

\* A build that checks arithmetic panics here, any other one wraps.
Underflow == tx_frag_offset > tx_att_len

Chunk == Lesser((tx_att_len - tx_frag_offset) % Usize, Avail)

\* Variant: the L2CAP header announces the fragment, not the message
FragmentOwnLength ==
    [llid    |-> IF First THEN IF Chunk = tx_att_len THEN "COMPLETE" ELSE "START"
                 ELSE "CONTINUATION",
     len     |-> 2 + (IF First THEN 4 + Chunk ELSE Chunk),
     run     |-> <<tx_att, tx_frag_offset, tx_frag_offset + Chunk>>,
     msg_len |-> Chunk,
     cid     |-> tx_cid]

Fragment ==
    [llid    |-> IF First THEN IF Chunk = tx_att_len THEN "COMPLETE" ELSE "START"
                 ELSE "CONTINUATION",
     len     |-> 2 + (IF First THEN 4 + Chunk ELSE Chunk),
     run     |-> <<tx_att, tx_frag_offset, tx_frag_offset + Chunk>>,
     msg_len |-> tx_att_len,
     cid     |-> tx_cid]

\* The fragment does not fit tx_buf, or its bytes end beyond tx_att.
OutOfBounds == Fragment.len > TX_BUF_LEN \/ Fragment.run[3] > L2CAP_PAYLOAD_MAX

AdvanceFragment ==
    LET done == tx_frag_offset + Chunk >= tx_att_len
    IN  /\ tx_frag_offset' = IF done THEN 0 ELSE tx_frag_offset + Chunk
        /\ tx_pending' = ~done
        /\ UNCHANGED <<tx_att, tx_att_len, tx_cid>>

-----------------------------------------------------------------------------
(* handle_l2cap of the peer                                                *)

RunLength(run) == run[3] - run[2]

\* Variant: ">" for ">=" in the test for the last byte
CollectWaiting(runs, len, msg_len, pdu) ==
    LET body  == Lesser(RunLength(pdu.run), RX_L2CAP_LEN - len)
        total == len + body
        all   == Append(runs, <<pdu.run[1], pdu.run[2], pdu.run[2] + body>>)
    IN  IF total > Lesser(msg_len, RX_L2CAP_LEN)
        THEN /\ handled' = Append(handled, [cid |-> Att, len |-> msg_len, runs |-> all])
             /\ rx_l2cap' = << >> /\ rx_l2cap_len' = 0
             /\ rx_l2cap_msg_len' = msg_len
        ELSE /\ rx_l2cap' = all /\ rx_l2cap_len' = total
             /\ rx_l2cap_msg_len' = msg_len
             /\ UNCHANGED handled

\* Bytes of an ATT message: they are collected until the announced length is
\* reached and then given to handle_att.
Collect(runs, len, msg_len, pdu) ==
    LET body  == Lesser(RunLength(pdu.run), RX_L2CAP_LEN - len)
        total == len + body
        all   == Append(runs, <<pdu.run[1], pdu.run[2], pdu.run[2] + body>>)
    IN  IF total >= Lesser(msg_len, RX_L2CAP_LEN)
        THEN /\ handled' = Append(handled, [cid |-> Att, len |-> msg_len, runs |-> all])
             /\ rx_l2cap' = << >> /\ rx_l2cap_len' = 0
             /\ rx_l2cap_msg_len' = msg_len
        ELSE /\ rx_l2cap' = all /\ rx_l2cap_len' = total
             /\ rx_l2cap_msg_len' = msg_len
             /\ UNCHANGED handled

\* A first fragment on another channel goes to its handler as it is.
Dispatch(pdu) ==
    /\ handled' = Append(handled, [cid |-> pdu.cid, len |-> pdu.msg_len,
                                   runs |-> <<pdu.run>>])
    /\ rx_l2cap' = << >> /\ rx_l2cap_len' = 0
    /\ rx_l2cap_msg_len' = pdu.msg_len

\* A continuation when nothing has been collected: its first four bytes are
\* taken for a header.  Depending on what they spell, some handler is given the
\* rest, or a long ATT message is begun with it.
Misread(pdu) ==
    LET rest == <<pdu.run[1], pdu.run[2] + 4, pdu.run[3]>>
    IN  \/ /\ RunLength(pdu.run) < 4
           /\ UNCHANGED rxVars
        \/ /\ RunLength(pdu.run) >= 4
           /\ handled' = Append(handled, [cid |-> "MISREAD", len |-> 0, runs |-> <<rest>>])
           /\ rx_l2cap' = << >> /\ rx_l2cap_len' = 0 /\ rx_l2cap_msg_len' = 0
        \/ /\ RunLength(pdu.run) >= 4
           /\ rx_l2cap' = <<rest>> /\ rx_l2cap_len' = Lesser(RunLength(rest), RX_L2CAP_LEN)
           /\ rx_l2cap_msg_len' = RX_L2CAP_LEN
           /\ UNCHANGED handled

handle_l2cap(pdu) ==
    CASE pdu.llid = "CONTINUATION" /\ rx_l2cap_len = 0 -> Misread(pdu)
      [] pdu.llid = "CONTINUATION" /\ rx_l2cap_len > 0 ->
            Collect(rx_l2cap, rx_l2cap_len, rx_l2cap_msg_len, pdu)
      [] pdu.llid # "CONTINUATION" /\ pdu.cid = Att ->
            Collect(<< >>, 0, pdu.msg_len, pdu)
      [] OTHER -> Dispatch(pdu)

-----------------------------------------------------------------------------
(* respond: what a connection event transmits                              *)

respond_control ==
    /\ Running /\ pending_control # None
    /\ sent' = "CONTROL"
    /\ pending_control' = None
    /\ UNCHANGED <<txVars, tx_pdu_max, rxVars, queued, mixed>>

respond_fragment ==
    /\ Running /\ pending_control = None
    /\ tx_pending
    /\ ~OutOfBounds
    /\ sent' = Fragment.llid
    /\ AdvanceFragment
    /\ IF Fragment.len > 2 THEN handle_l2cap(Fragment) ELSE UNCHANGED rxVars
    /\ UNCHANGED <<tx_pdu_max, pending_control, queued, mixed>>

fragment_panic ==
    /\ Running /\ pending_control = None
    /\ tx_pending
    /\ Underflow \/ OutOfBounds
    /\ sent' = "PANIC"
    /\ UNCHANGED <<txVars, tx_pdu_max, pending_control, rxVars, queued, mixed>>

respond_empty ==
    /\ Running /\ pending_control = None
    /\ ~tx_pending
    /\ sent' = "EMPTY"
    /\ UNCHANGED <<txVars, tx_pdu_max, pending_control, rxVars, queued, mixed>>

respond == respond_control \/ respond_fragment \/ respond_empty \/ fragment_panic

Next ==
    \/ queue_att \/ queue_l2cap
    \/ handle_length_req \/ handle_length_rsp \/ handle_other_req
    \/ respond

\* Connection events recur at the anchors.
Fairness == WF_vars(respond)

Spec == Init /\ [][Next]_vars /\ Fairness

-----------------------------------------------------------------------------
(***************************************************************************)
(* Types; and the fragment offset exceeds the length of the message in the *)
(* slot, so that tx_fragment's subtraction underflows, only for a message  *)
(* that queue_att has put over one half sent.                              *)
(***************************************************************************)
TypeOK ==
    /\ tx_att \in Nat /\ tx_att_len \in Nat /\ tx_frag_offset \in Nat
    /\ Underflow => tx_att \in mixed
    /\ tx_pending \in BOOLEAN /\ tx_cid \in Cids /\ tx_pdu_max \in Nat
    /\ pending_control \in {"LENGTH_RSP", "OTHER_RSP", None}
    /\ sent \in {"CONTROL", "START", "COMPLETE", "CONTINUATION", "EMPTY", "PANIC", None}
    /\ rx_l2cap_len \in Nat /\ rx_l2cap_msg_len \in Nat
    /\ queued \in Seq([cid : Cids, len : Nat]) /\ mixed \subseteq Nat

Message(i) == handled[i].runs[1][1]

\* The handler of its channel was given a message from its header on ...
OwnChannel(i) ==
    /\ handled[i].cid = queued[Message(i)].cid
    /\ handled[i].runs[1][2] = 0

\* ... and only ATT messages are reassembled: another one must fit one PDU.
OnePdu(m) == queued[m].len <= LL_PDU_PAYLOAD_DEFAULT - 4

Reassembled(i) == queued[Message(i)].cid = Att \/ OnePdu(Message(i))

WholeMessage(i) ==
    LET runs == handled[i].runs
    IN  /\ handled[i].len = queued[Message(i)].len
        /\ \A r \in 1 .. Len(runs) :
            /\ runs[r][1] = Message(i)
            /\ runs[r][2] = IF r = 1 THEN 0 ELSE runs[r - 1][3]
        /\ runs[Len(runs)][3] = handled[i].len

(***************************************************************************)
(* A message that reaches the handler of its channel is one whole queued   *)
(* message: all its bytes, in order, with its own length, whatever control *)
(* PDUs and changes of the PDU size (LL_LENGTH_REQ) come between its       *)
(* fragments and whatever is queued over it; and messages are handled      *)
(* once, in the order queued.  Two kinds are excepted: messages of other   *)
(* channels than ATT that do not fit one PDU, which are not reassembled,   *)
(* and pairs of an ATT message and the one it was queued over in mid-      *)
(* transmission, whose bytes queue_att mixes.                              *)
(***************************************************************************)
HandledWhole ==
    /\ \A i \in 1 .. Len(handled) :
        OwnChannel(i) /\ Reassembled(i) /\ Message(i) \notin mixed => WholeMessage(i)
    /\ \A i, j \in 1 .. Len(handled) :
        i < j /\ OwnChannel(i) /\ OwnChannel(j) => Message(i) < Message(j)

(***************************************************************************)
(* A message reaches the handler of the channel it was queued for, unless  *)
(* it is an ATT message queued after a message for another channel:        *)
(* queue_att leaves tx_cid as it is, so such a message goes astray; or one *)
(* of another channel too long for a PDU, whose continuations are misread; *)
(* or one that was mixed with another.                                     *)
(***************************************************************************)
RightChannel ==
    \A i \in 1 .. Len(handled) :
        \/ OwnChannel(i)
        \/ /\ queued[Message(i)].cid = Att
           /\ \E k \in 1 .. Message(i) - 1 : queued[k].cid \in OtherCid
        \/ queued[Message(i)].cid \in OtherCid /\ ~OnePdu(Message(i))
        \/ Message(i) \in mixed

(***************************************************************************)
(* tx_fragment panics for two reasons only: the slot holds a mixed         *)
(* message, or the peer announced a PDU that tx_buf has no room for.       *)
(***************************************************************************)
PanicCauses == Panicked => tx_att \in mixed \/ tx_pdu_max + 2 > TX_BUF_LEN

(***************************************************************************)
(* Once the peer has stopped occupying the control slot, an ATT message in *)
(* the slot of a connection whose channel is still ATT reaches handle_att  *)
(* of the peer, unless another message is queued over it or tx_fragment    *)
(* panics.                                                                 *)
(***************************************************************************)
AttDelivered ==
    <>[](pending_control = None) =>
        \A m \in 1 .. MaxMessages :
            tx_att = m /\ queued[m].cid = Att /\ tx_cid = Att /\ m \notin mixed
            ~> \/ tx_att # m \/ Panicked
               \/ \E i \in 1 .. Len(handled) : OwnChannel(i) /\ Message(i) = m

-----------------------------------------------------------------------------
(* What the documentation of the repository promises and the code breaks   *)

(***************************************************************************)
(* README: "DLE (251-byte PDUs)".  Every fragment of an intact message     *)
(* fits the transmit buffer.  Refuted: LL_LENGTH_RSP offers a payload of   *)
(* 251 and tx_pdu_max takes it, but tx_buf has 64 bytes.                   *)
(***************************************************************************)
FragmentFits == tx_pending /\ tx_att \notin mixed => Fragment.len <= TX_BUF_LEN
=============================================================================
