------------------------------- MODULE Services -------------------------------
(***************************************************************************)
(* What runs over a connection between two of these stacks: the ATT server *)
(* and the GATT client of each end, and one credit-based channel, all      *)
(* sharing the one transmit slot an end has (conn.rs: handle_l2cap and the *)
(* handlers below it; ble.rs: conn_send and the gatt and l2cap calls).     *)
(*                                                                         *)
(* An end is a record, and a handler is an operator that maps it to the    *)
(* end after the message.  Messages are taken to fit one PDU (module L2cap *)
(* is about those that do not) and a packet that is lost is lost for good, *)
(* as neither end repeats anything (module LinkLayer).  Opcodes and the    *)
(* first bytes are numbers, since what a message means to the peer depends *)
(* on the channel it arrives on.                                           *)
(***************************************************************************)
EXTENDS Integers

CONSTANTS
    COC_CREDITS,    \* credits granted when a channel is opened (8)
    SduLengths,     \* lengths of the SDUs sent
    ReadHandles,    \* handles the clients read
    Paced,          \* does a client wait for the answer before it asks again?
    Callers,        \* the ends whose application makes calls
    MaxCalls,       \* bound on the calls of the applications
    None            \* Option::None

Ends == {"Master", "Slave"}
Peer(e) == IF e = "Master" THEN "Slave" ELSE "Master"

\* Credits are u16.
U16_MAX == 65535

ASSUME ServicesAssumption ==
    /\ COC_CREDITS \in 0 .. U16_MAX
    /\ SduLengths \subseteq 0 .. 21
    /\ ReadHandles \subseteq 1 .. 255
    /\ Paced \in BOOLEAN /\ Callers \subseteq Ends /\ MaxCalls \in Nat

\* None is not a channel.
ASSUME NoneAssumption ==
    None \notin [peer_cid : Nat, credits : Nat, peer_credits : Nat,
                 rx_sdu_len : Nat, rx_sdu_total : Nat]

Att       == "ATT"
Signaling == "SIGNALING"
Channel   == "COC"

\* ATT opcodes
ErrorRsp        == 1
ExchangeMtuReq  == 2
ExchangeMtuRsp  == 3
FindInfoReq     == 4
FindInfoRsp     == 5
ReadByTypeReq   == 8
ReadByTypeRsp   == 9
ReadReq         == 10
ReadRsp         == 11
ReadBlobReq     == 12
ReadBlobRsp     == 13
ReadByGroupReq  == 16
ReadByGroupRsp  == 17
WriteReq        == 18
WriteRsp        == 19
Notification    == 27
WriteCmd        == 82

\* Attribute handles of the Nordic UART Service
HANDLE_RX_VALUE == 3
HANDLE_TX_VALUE == 5
HANDLE_TX_CCCD  == 6

\* Signaling codes
LE_CREDIT_BASED_CONNECTION_REQ == 20
LE_CREDIT_BASED_CONNECTION_RSP == 21
LE_FLOW_CONTROL_CREDIT         == 22
LE_CREDIT_BASED_CONNECTION_END == 23

ATT_MTU_DEFAULT == 23

COC_LOCAL_CID == 64
RX_SDU_LEN    == 256   \* size of Coc::rx_sdu

VARIABLES
    conn,     \* the two ends
    calls     \* how many calls the applications have made

vars == <<conn, calls>>

\* A message: its first two bytes, its length, an argument (the channel that a
\* signaling message names; how many declarations lie in the range of a
\* discovery), and as history the request that it is or answers: the end that
\* asked and the number of the request, or "SDU" for the data of the channel.
Msg(op, second, len) ==
    [op |-> op, second |-> second, len |-> len, arg |-> 0, ref |-> <<>>]

\* An end.  The last five fields are history: requests made, credits granted by
\* the peer, credits lost with own SDUs and with messages to the peer, and
\* whether an ATT message was sent on the credit-based channel.
NewConn ==
    [sn |-> 0, tx_pending |-> FALSE, tx_cid |-> Att, tx_att |-> Msg(0, 0, 0),
     pending_request |-> FALSE, gatt_result |-> None, nus_cccd |-> 0, coc |-> None,
     asked |-> 0, granted |-> 0, gone |-> 0, peer_gone |-> 0, stray |-> FALSE]

NewCoc ==
    [peer_cid |-> 0, credits |-> 0, peer_credits |-> 0,
     rx_sdu_len |-> 0, rx_sdu_total |-> 0]

Init == conn = [e \in Ends |-> NewConn] /\ calls = 0

-----------------------------------------------------------------------------
(* The transmit slot.  A message that is pending is overwritten.           *)

HoldsSdu(c)    == c.tx_pending /\ c.tx_cid = Channel /\ c.tx_att.ref = <<"SDU">>
HoldsCredit(c) == c.tx_pending /\ c.tx_cid = Signaling /\ c.tx_att.op = LE_FLOW_CONTROL_CREDIT

One(condition) == IF condition THEN 1 ELSE 0
Lesser(a, b)   == IF a < b THEN a ELSE b

\* The end without the message in its slot, which is lost
Dropped(c) ==
    [c EXCEPT !.tx_pending = FALSE,
              !.gone = @ + One(HoldsSdu(c)),
              !.peer_gone = @ + One(HoldsCredit(c))]

\* respond: the end after it has sent its message, if it has one
Sent(c) ==
    [c EXCEPT !.tx_pending = FALSE, !.sn = IF c.tx_pending THEN 1 - @ ELSE @]

Lost(c) == [Dropped(c) EXCEPT !.sn = Sent(c).sn]

Queued(c, cid, m) ==
    [Dropped(c) EXCEPT !.tx_pending = TRUE, !.tx_cid = cid, !.tx_att = m]

queue_signaling(c, m) == Queued(c, Signaling, m)

\* The channel stays as the last message set it.
queue_att(c, m) ==
    [Queued(c, c.tx_cid, m) EXCEPT !.stray = @ \/ c.tx_cid = Channel]

-----------------------------------------------------------------------------
(* ATT server                                                              *)

\* The answer to a read: an empty value, the two bytes of the CCCD, or an error
read(c, handle) ==
    CASE handle = HANDLE_TX_VALUE -> Msg(ReadRsp, 0, 1)
      [] handle = HANDLE_TX_CCCD  -> Msg(ReadRsp, c.nus_cccd, 3)
      [] OTHER                    -> Msg(ErrorRsp, ReadReq, 5)

\* A write to the CCCD of two bytes with bit 0 set subscribes.
write(c, m) ==
    IF m.second = HANDLE_TX_CCCD THEN [c EXCEPT !.nus_cccd = m.arg] ELSE c

\* The answer to a request.  A discovery is answered from the constant table of
\* the Nordic UART Service, by an empty list if nothing lies in its range.  The
\* second byte is the width of an entry (for FindInfo, the format).  att_mtu
\* never leaves its default.
Answer(c, m) ==
    CASE m.op = ExchangeMtuReq -> Msg(ExchangeMtuRsp, ATT_MTU_DEFAULT, 5)
      [] m.op = FindInfoReq    -> Msg(FindInfoRsp, IF m.arg = 0 THEN 1 ELSE 2, 2 + 18 * Lesser(m.arg, 3))
      [] m.op = ReadByTypeReq  -> Msg(ReadByTypeRsp, IF m.arg = 0 THEN 0 ELSE 21, 2 + 21 * m.arg)
      [] m.op = ReadByGroupReq -> Msg(ReadByGroupRsp, 18, 20)
      [] m.op = ReadReq        -> read(c, m.second)
      [] m.op = ReadBlobReq    ->
            IF m.second = HANDLE_TX_CCCD /\ m.arg < 2
            THEN Msg(ReadBlobRsp, IF m.arg = 0 THEN c.nus_cccd ELSE 0, 3 - m.arg)
            ELSE Msg(ErrorRsp, ReadBlobReq, 5)
      [] m.op = WriteReq /\ m.second \in {HANDLE_RX_VALUE, HANDLE_TX_CCCD} ->
            Msg(WriteRsp, 0, 1)
      [] OTHER                 -> Msg(ErrorRsp, m.op, 5)

\* Variant: a read response is not recognised
ResponsesWithoutRead == {ErrorRsp, 3, 9, 17, 19, 21, 23}

\* Variant: an error is not recognised as an answer
ResponsesWithoutError == {3, 9, 11, 17, 19, 21, 23}

Responses ==
    {ErrorRsp, ExchangeMtuRsp, ReadByTypeRsp, ReadRsp, ReadByGroupRsp, WriteRsp, 21, 23}

\* A response is taken if a request is pending, whichever request that is.  Any
\* other message is answered, a stray response by an error, but for a
\* notification and a write command.
handle_att(c, m) ==
    LET written == IF m.op \in {WriteReq, WriteCmd} THEN write(c, m) ELSE c
    IN  CASE c.pending_request /\ m.op \in Responses ->
                [c EXCEPT !.pending_request = FALSE, !.gatt_result = m]
          [] m.op = Notification -> c
          [] m.op = WriteCmd     -> written
          [] OTHER               -> queue_att(written, [Answer(c, m) EXCEPT !.ref = m.ref])

-----------------------------------------------------------------------------
(* Credit-based channel                                                    *)

Accept(c) ==
    queue_signaling(
        [c EXCEPT !.coc = [NewCoc EXCEPT !.peer_cid = COC_LOCAL_CID, !.credits = COC_CREDITS],
                  !.granted = COC_CREDITS],
        [Msg(LE_CREDIT_BASED_CONNECTION_RSP, 0, 12) EXCEPT !.arg = COC_LOCAL_CID])

\* The credits of a response are stored as the peer's, not as one's own.
Opened(c, m) ==
    IF c.coc = None THEN c
    ELSE [c EXCEPT !.coc.peer_cid = m.arg, !.coc.peer_credits = COC_CREDITS]

Credited(c, m) ==
    IF c.coc = None THEN c
    ELSE IF m.arg \in {COC_LOCAL_CID, c.coc.peer_cid}
         THEN [c EXCEPT !.coc.credits = Lesser(@ + 1, U16_MAX)]
         ELSE [c EXCEPT !.gone = @ + 1]

\* Neither end ever sends this, nor a response that refuses a channel.
Ended(c, m) ==
    IF c.coc # None /\ m.arg \in {COC_LOCAL_CID, c.coc.peer_cid}
    THEN [c EXCEPT !.coc = None]
    ELSE c

handle_le_signaling(c, m) ==
    CASE m.op = LE_CREDIT_BASED_CONNECTION_REQ -> Accept(c)
      [] m.op = LE_CREDIT_BASED_CONNECTION_RSP -> Opened(c, m)
      [] m.op = LE_FLOW_CONTROL_CREDIT         -> Credited(c, m)
      [] m.op = LE_CREDIT_BASED_CONNECTION_END -> Ended(c, m)
      [] OTHER                                 -> c

\* Variant: the length bytes count as part of the SDU
SduPartWithLength(c, len, total) ==
    IF len > total
    THEN queue_signaling([c EXCEPT !.coc.rx_sdu_len = 0, !.coc.rx_sdu_total = 0],
                         [Msg(LE_FLOW_CONTROL_CREDIT, 0, 6) EXCEPT !.arg = c.coc.peer_cid])
    ELSE [c EXCEPT !.coc.rx_sdu_len = len, !.coc.rx_sdu_total = total]

\* A frame: when the announced length is reached the SDU is complete, and a
\* credit for it is sent to the channel the peer is known by.
SduPart(c, len, total) ==
    IF len >= total
    THEN queue_signaling([c EXCEPT !.coc.rx_sdu_len = 0, !.coc.rx_sdu_total = 0],
                         [Msg(LE_FLOW_CONTROL_CREDIT, 0, 6) EXCEPT !.arg = c.coc.peer_cid])
    ELSE [c EXCEPT !.coc.rx_sdu_len = len, !.coc.rx_sdu_total = total]

rx_coc_sdu(c, m) ==
    IF c.coc.rx_sdu_len = 0
    THEN IF m.len < 2 THEN c ELSE SduPart(c, m.len - 2, m.op + 256 * m.second)
    ELSE SduPart(c, Lesser(c.coc.rx_sdu_len + m.len, RX_SDU_LEN), c.coc.rx_sdu_total)

-----------------------------------------------------------------------------
handle_l2cap(c, cid, m) ==
    CASE cid = Att       -> handle_att(c, m)
      [] cid = Signaling -> handle_le_signaling(c, m)
      [] cid = Channel   -> IF c.coc = None THEN c ELSE rx_coc_sdu(c, m)

\* The end `to` after it has heard what `from` sends
Heard(to, from) ==
    IF from.tx_pending THEN handle_l2cap(to, from.tx_cid, from.tx_att) ELSE to

\* A connection event: the master sends, the slave handles it and answers, and
\* the master handles that.  Either packet may be lost.
EventBothHeard ==
    LET slave == Heard(conn["Slave"], conn["Master"])
    IN  /\ conn["Master"].tx_pending \/ slave.tx_pending
        /\ conn' = [Master |-> Heard(Sent(conn["Master"]), slave),
                    Slave  |-> Sent(slave)]
        /\ UNCHANGED calls

EventAnswerLost ==
    LET slave == Heard(conn["Slave"], conn["Master"])
    IN  /\ conn["Master"].tx_pending \/ slave.tx_pending
        /\ conn' = [Master |-> Sent(conn["Master"]), Slave |-> Lost(slave)]
        /\ UNCHANGED calls

EventUnheard ==
    /\ conn["Master"].tx_pending
    /\ conn' = [conn EXCEPT !["Master"] = Lost(@)]
    /\ UNCHANGED calls

-----------------------------------------------------------------------------
(* Calls of the application                                                *)

Call(e, c) ==
    /\ e \in Callers
    /\ calls < MaxCalls
    /\ calls' = calls + 1
    /\ conn' = [conn EXCEPT ![e] = c]

conn_send(e) == Call(e, queue_att(conn[e], Msg(Notification, HANDLE_TX_VALUE, 4)))

\* The requests of gatt_discover_primary_services, gatt_discover_characteristics
\* (over one declaration or none), gatt_read, gatt_write and gatt_subscribe
GattRequests ==
    {Msg(ReadByGroupReq, 0, 7)}
        \cup {[Msg(ReadByTypeReq, 3, 7) EXCEPT !.arg = n] : n \in {0, 1}}
        \cup {Msg(ReadReq, h, 3) : h \in ReadHandles}
        \cup {Msg(WriteReq, HANDLE_RX_VALUE, 4),
               [Msg(WriteReq, HANDLE_TX_CCCD, 5) EXCEPT !.arg = 1]}

gatt_send_request(e) ==
    /\ Paced => ~conn[e].pending_request /\ conn[e].gatt_result = None
    /\ \E m \in GattRequests :
          LET number == conn[e].asked + 1
          IN  Call(e, [queue_att(conn[e], [m EXCEPT !.ref = <<e, number>>])
                          EXCEPT !.pending_request = TRUE, !.asked = number])

gatt_poll(e) ==
    /\ conn[e].gatt_result # None
    /\ conn' = [conn EXCEPT ![e].gatt_result = None]
    /\ UNCHANGED calls

l2cap_connect(e) ==
    /\ conn[e].coc = None
    /\ Call(e, queue_signaling([conn[e] EXCEPT !.coc = NewCoc],
               [Msg(LE_CREDIT_BASED_CONNECTION_REQ, 0, 12) EXCEPT !.arg = COC_LOCAL_CID]))

l2cap_send(e) ==
    /\ conn[e].coc # None
    /\ conn[e].coc.credits > 0
    /\ \E len \in SduLengths :
          Call(e, [Queued(conn[e], Channel, [Msg(len, 0, len + 2) EXCEPT !.ref = <<"SDU">>])
                      EXCEPT !.coc.credits = @ - 1])

Event == EventBothHeard \/ EventAnswerLost \/ EventUnheard

Next ==
    \/ Event
    \/ \E e \in Ends :
          \/ conn_send(e)
          \/ gatt_send_request(e)
          \/ gatt_poll(e)
          \/ l2cap_connect(e)
          \/ l2cap_send(e)

\* conn_forever runs one connection event after the other.
Fairness == WF_vars(Event)

Spec == Init /\ [][Next]_vars /\ Fairness

-----------------------------------------------------------------------------
(***************************************************************************)
(* Credits are neither made nor forgotten.  Every credit that an end was   *)
(* granted is in its account, spent on an SDU in its slot, on its way back *)
(* in the slot of the peer, or was lost with one of these: overwritten in  *)
(* a slot, lost on the air, or sent to a channel the peer does not know.   *)
(* Excepted are ends that sent an ATT message on the channel, where it is  *)
(* taken for an SDU and earns a credit (l2cap_send, rx_coc_sdu,            *)
(* LE_FLOW_CONTROL_CREDIT).                                                *)
(***************************************************************************)
CreditsAccounted ==
    \A e \in Ends :
        LET c == conn[e]
            p == conn[Peer(e)]
        IN  c.coc # None /\ ~c.stray =>
              c.coc.credits + One(HoldsSdu(c)) + One(HoldsCredit(p)) + c.gone + p.peer_gone
                = c.granted

(***************************************************************************)
(* If clients ask one thing at a time, a result they poll answers their    *)
(* last request: not an earlier one, and not the server of the same end    *)
(* answering the peer, whose messages come in between and share the slot   *)
(* (handle_att goes by pending_request and the opcode alone).              *)
(***************************************************************************)
Correlated ==
    \A e \in Ends :
        conn[e].gatt_result # None => conn[e].gatt_result.ref = <<e, conn[e].asked>>

(***************************************************************************)
(* Exchanges end: if clients ask one thing at a time, no answer is itself  *)
(* answered for ever.  An unexpected response is answered by an error, and *)
(* an unexpected error by another error.                                   *)
(***************************************************************************)
ExchangesEnd == <>[](\A e \in Ends : ~conn[e].tx_pending)
=============================================================================
