--------------------------- MODULE ServicesProofs ---------------------------
(***************************************************************************)
(* Proofs about the services that share the transmit slot of an end, for   *)
(* every number of credits, every SDU length and any number of calls.      *)
(*                                                                         *)
(* A connection event is put together from two things that can happen to a *)
(* packet: it is heard (the sender becomes Sent, the receiver Heard) or    *)
(* lost (the sender becomes Lost).  Both invariants are therefore about a  *)
(* pair of ends, and shown to survive each of the two.                     *)
(***************************************************************************)
EXTENDS Services, TLAPS

\* Types
Refs     == {<< >>, <<"SDU">>} \cup (Ends \X Nat)
Messages == [op : Nat, second : Nat, len : Nat, arg : Nat, ref : Refs]
Cids     == {Att, Signaling, Channel}
Cocs     == [peer_cid : Nat, credits : Nat, peer_credits : Nat,
             rx_sdu_len : Nat, rx_sdu_total : Nat]

Conns ==
    [sn : {0, 1}, tx_pending : BOOLEAN, tx_cid : Cids, tx_att : Messages,
     pending_request : BOOLEAN, gatt_result : Messages \cup {None}, nus_cccd : Nat,
     coc : Cocs \cup {None}, asked : Nat, granted : Nat, gone : Nat, peer_gone : Nat,
     stray : BOOLEAN]

-----------------------------------------------------------------------------
(* Credits                                                                 *)

Credits(c) == IF c.coc = None THEN 0 ELSE c.coc.credits

\* The credits of c that it still has, has spent on the SDU in its slot or has
\* lost; and those of its peer that c holds or has lost
Own(c)  == Credits(c) + One(HoldsSdu(c)) + c.gone
Owed(c) == One(HoldsCredit(c)) + c.peer_gone

\* What ATT messages look like when they are sent on the signaling channel
AnswerOps == {ErrorRsp, ExchangeMtuRsp, FindInfoRsp, ReadByTypeRsp, ReadRsp, ReadBlobRsp,
              ReadByGroupRsp, WriteRsp}
RequestOps == {ReadByGroupReq, ReadByTypeReq, ReadReq, WriteReq}
AttOps == AnswerOps \cup RequestOps \cup {Notification}

Requesting(c) ==
    c.tx_pending /\ c.tx_cid = Signaling /\ c.tx_att.op = LE_CREDIT_BASED_CONNECTION_REQ

\* What the slot of an end may hold
SlotOK(c) ==
    c.tx_pending =>
        /\ c.tx_cid = Signaling =>
              c.tx_att.op \in AttOps \cup {LE_CREDIT_BASED_CONNECTION_REQ,
                  LE_CREDIT_BASED_CONNECTION_RSP, LE_FLOW_CONTROL_CREDIT}
        /\ c.tx_cid = Channel /\ ~c.stray =>
              /\ HoldsSdu(c) 
              /\ c.tx_att.second = 0 /\ c.tx_att.len = c.tx_att.op + 2

\* The account of c, which spends its credits on SDUs for p
Account(c, p) ==
    /\ c.granted \in {0, COC_CREDITS}
    /\ c.coc = None \/ p.coc = None \/ Requesting(p) => c.granted = 0
    /\ Requesting(c) => c.coc # None
    /\ ~c.stray =>
        /\ p.coc = None \/ p.coc.rx_sdu_len = 0
        /\ Own(c) + Owed(p) = c.granted

Pair(c, p) ==
    /\ c \in Conns /\ p \in Conns /\ SlotOK(c) /\ SlotOK(p)
    /\ Account(c, p) /\ Account(p, c)

CreditInv == DOMAIN conn = Ends /\ Pair(conn["Master"], conn["Slave"])

-----------------------------------------------------------------------------
(* Requests and answers                                                    *)

\* The slot of c holds a request of e, or an answer to one.
Concerns(c, e) == c.tx_pending /\ c.tx_att.ref \in {e} \X Nat

\* The request of e that is under way is its last, and is in one place: as a
\* request in the slot of e, or as an answer in that of the peer.
Thread(e, c, p) ==
    /\ Concerns(c, e) =>
        /\ c.pending_request /\ c.tx_att.ref = <<e, c.asked>>
        /\ c.tx_att.op \in RequestOps
        /\ ~Concerns(p, e)
    /\ Concerns(p, e) =>
        /\ c.pending_request /\ p.tx_att.ref = <<e, c.asked>>
        /\ p.tx_att.op \in AnswerOps \cap Responses
    /\ c.gatt_result # None => ~c.pending_request /\ c.gatt_result.ref = <<e, c.asked>>
    /\ c.tx_pending /\ c.tx_cid = Att =>
        c.tx_att.op = Notification \/ Concerns(c, "Master") \/ Concerns(c, "Slave")

Threads(e, c, p) ==
    c \in Conns /\ p \in Conns /\ Thread(e, c, p) /\ Thread(Peer(e), p, c)

ThreadInv == DOMAIN conn = Ends /\ Threads("Master", conn["Master"], conn["Slave"])

-----------------------------------------------------------------------------
(* What the operators on an end do to its fields                           *)

\* The fields that have to do with neither the slot nor the accounts
Rest(c) == <<c.pending_request, c.gatt_result, c.nus_cccd, c.asked>>

(***************************************************************************)
(* Messages are messages.                                                  *)
(***************************************************************************)
LEMMA MsgFields ==
    ASSUME NEW op \in Nat, NEW second \in Nat, NEW len \in Nat
    PROVE  /\ Msg(op, second, len) \in Messages
           /\ Msg(op, second, len).op = op
           /\ \A n \in Nat : [Msg(op, second, len) EXCEPT !.arg = n] \in Messages
           /\ \A r \in Refs : [Msg(op, second, len) EXCEPT !.ref = r] \in Messages
BY DEF Msg, Messages, Refs

(***************************************************************************)
(* What a slot loses is counted.                                           *)
(***************************************************************************)
LEMMA DroppedFields ==
    ASSUME NEW c \in Conns
    PROVE  LET d == Dropped(c)
           IN  /\ d \in Conns /\ d.tx_pending = FALSE
               /\ d.tx_cid = c.tx_cid /\ d.tx_att = c.tx_att
               /\ d.coc = c.coc /\ d.granted = c.granted /\ d.stray = c.stray
               /\ d.gone = c.gone + One(HoldsSdu(c))
               /\ d.peer_gone = c.peer_gone + One(HoldsCredit(c))
               /\ Rest(d) = Rest(c)
<1>1. One(HoldsSdu(c)) \in Nat /\ One(HoldsCredit(c)) \in Nat
  BY DEF One
<1>2. c.gone + One(HoldsSdu(c)) \in Nat /\ c.peer_gone + One(HoldsCredit(c)) \in Nat
  BY <1>1 DEF Conns
<1> QED
  BY <1>2 DEF Dropped, Conns, Rest

(***************************************************************************)
(* A message is queued in the place of the one that was there.             *)
(***************************************************************************)
LEMMA QueuedFields ==
    ASSUME NEW c \in Conns, NEW cid \in Cids, NEW m \in Messages
    PROVE  LET d == Queued(c, cid, m)
           IN  /\ d \in Conns /\ d.tx_pending = TRUE
               /\ d.tx_cid = cid /\ d.tx_att = m
               /\ d.coc = c.coc /\ d.granted = c.granted /\ d.stray = c.stray
               /\ d.gone = c.gone + One(HoldsSdu(c))
               /\ d.peer_gone = c.peer_gone + One(HoldsCredit(c))
               /\ Rest(d) = Rest(c)
<1> DEFINE e == Dropped(c)
<1>1. e \in Conns
  BY DroppedFields
<1>2. Queued(c, cid, m) = [e EXCEPT !.tx_pending = TRUE, !.tx_cid = cid, !.tx_att = m]
  BY DEF Queued
<1>3. /\ e.coc = c.coc /\ e.granted = c.granted /\ e.stray = c.stray
      /\ e.gone = c.gone + One(HoldsSdu(c)) /\ e.peer_gone = c.peer_gone + One(HoldsCredit(c))
      /\ Rest(e) = Rest(c)
  BY DroppedFields
<1> HIDE DEF e
<1> QED
  BY <1>1, <1>2, <1>3 DEF Conns, Rest

(***************************************************************************)
(* An ATT message goes out on the channel that was last used.              *)
(***************************************************************************)
LEMMA AttFields ==
    ASSUME NEW c \in Conns, NEW m \in Messages
    PROVE  LET d == queue_att(c, m)
           IN  /\ d \in Conns /\ d.tx_pending = TRUE
               /\ d.tx_cid = c.tx_cid /\ d.tx_att = m
               /\ d.coc = c.coc /\ d.granted = c.granted
               /\ d.stray = (c.stray \/ c.tx_cid = Channel)
               /\ d.gone = c.gone + One(HoldsSdu(c))
               /\ d.peer_gone = c.peer_gone + One(HoldsCredit(c))
               /\ Rest(d) = Rest(c)
<1> DEFINE e == Queued(c, c.tx_cid, m)
<1>1. c.tx_cid \in Cids
  BY DEF Conns
<1>2. /\ e \in Conns /\ e.tx_pending = TRUE /\ e.tx_cid = c.tx_cid /\ e.tx_att = m
      /\ e.coc = c.coc /\ e.granted = c.granted /\ e.stray = c.stray
      /\ e.gone = c.gone + One(HoldsSdu(c)) /\ e.peer_gone = c.peer_gone + One(HoldsCredit(c))
      /\ Rest(e) = Rest(c)
  BY <1>1, QueuedFields, ZenonT(60)
<1>3. queue_att(c, m) = [e EXCEPT !.stray = e.stray \/ c.tx_cid = Channel]
  BY DEF queue_att
<1> HIDE DEF e
<1> QED
  BY <1>2, <1>3 DEF Conns, Rest

(***************************************************************************)
(* After it was sent, heard or not, the slot is empty.                     *)
(***************************************************************************)
LEMMA SentFields ==
    ASSUME NEW c \in Conns
    PROVE  LET d == Sent(c)
           IN  /\ d \in Conns /\ d.tx_pending = FALSE
               /\ d.tx_cid = c.tx_cid /\ d.tx_att = c.tx_att
               /\ d.coc = c.coc /\ d.granted = c.granted /\ d.stray = c.stray
               /\ d.gone = c.gone /\ d.peer_gone = c.peer_gone
               /\ Rest(d) = Rest(c)
<1>1. (IF c.tx_pending THEN 1 - c.sn ELSE c.sn) \in {0, 1}
  BY DEF Conns
<1> QED
  BY <1>1 DEF Sent, Conns, Rest

(***************************************************************************)
(* A message that is lost on the air is lost as one that is overwritten.   *)
(***************************************************************************)
LEMMA LostFields ==
    ASSUME NEW c \in Conns
    PROVE  LET d == Lost(c)
           IN  /\ d \in Conns /\ d.tx_pending = FALSE
               /\ d.tx_cid = c.tx_cid /\ d.tx_att = c.tx_att
               /\ d.coc = c.coc /\ d.granted = c.granted /\ d.stray = c.stray
               /\ d.gone = c.gone + One(HoldsSdu(c))
               /\ d.peer_gone = c.peer_gone + One(HoldsCredit(c))
               /\ Rest(d) = Rest(c)
<1> DEFINE e == Dropped(c)
           n == Sent(c).sn
<1>1. n \in {0, 1}
  BY SentFields DEF Conns
<1>2. /\ e \in Conns /\ e.tx_pending = FALSE /\ e.tx_cid = c.tx_cid /\ e.tx_att = c.tx_att
      /\ e.coc = c.coc /\ e.granted = c.granted /\ e.stray = c.stray
      /\ e.gone = c.gone + One(HoldsSdu(c)) /\ e.peer_gone = c.peer_gone + One(HoldsCredit(c))
      /\ Rest(e) = Rest(c)
  BY DroppedFields
<1>3. Lost(c) = [e EXCEPT !.sn = n]
  BY DEF Lost
<1> HIDE DEF e, n
<1> QED
  BY <1>1, <1>2, <1>3 DEF Conns, Rest

(***************************************************************************)
(* The server answers every message with one of the responses, and the     *)
(* client takes the answers to the requests that it makes.                 *)
(***************************************************************************)
LEMMA AnswerFields ==
    ASSUME NEW c \in Conns, NEW m \in Messages
    PROVE  LET a == [Answer(c, m) EXCEPT !.ref = m.ref]
           IN  /\ a \in Messages /\ a.ref = m.ref /\ a.op \in AnswerOps
               /\ m.op \in RequestOps => a.op \in Responses
<1> USE DEF ErrorRsp, ExchangeMtuReq, ExchangeMtuRsp, FindInfoReq, FindInfoRsp, ReadByTypeReq,
            ReadByTypeRsp, ReadReq, ReadRsp, ReadBlobReq, ReadBlobRsp, ReadByGroupReq,
            ReadByGroupRsp, WriteReq, WriteRsp
<1>1. m.op \in Nat /\ m.second \in Nat /\ m.arg \in Nat /\ m.ref \in Refs /\ c.nus_cccd \in Nat
  BY DEF Messages, Conns
<1>2. read(c, m.second) \in Messages /\ read(c, m.second).op \in {ReadRsp, ErrorRsp}
  BY <1>1 DEF read, Msg, Messages, Refs
<1>3. /\ Answer(c, m) \in Messages /\ Answer(c, m).op \in AnswerOps
      /\ m.op \in RequestOps => Answer(c, m).op \in Responses
  <2> USE DEF AnswerOps, RequestOps, Responses
  <2>1. CASE m.op \in {ExchangeMtuReq, ReadByGroupReq}
    BY <1>1, <2>1 DEF Answer, ATT_MTU_DEFAULT, Msg, Messages, Refs
  <2>2. CASE m.op = FindInfoReq
    <3>1. 2 + 18 * Lesser(m.arg, 3) \in Nat
      BY <1>1 DEF Lesser
    <3>2. Answer(c, m) = Msg(FindInfoRsp, IF m.arg = 0 THEN 1 ELSE 2, 2 + 18 * Lesser(m.arg, 3))
      BY <2>2 DEF Answer
    <3> QED BY <2>2, <3>1, <3>2 DEF Msg, Messages, Refs
  <2>3. CASE m.op = ReadByTypeReq
    <3>1. 2 + 21 * m.arg \in Nat
      BY <1>1
    <3>2. Answer(c, m) = Msg(ReadByTypeRsp, IF m.arg = 0 THEN 0 ELSE 21, 2 + 21 * m.arg)
      BY <2>3 DEF Answer
    <3> QED BY <2>3, <3>1, <3>2 DEF Msg, Messages, Refs
  <2>4. CASE m.op = ReadReq
    BY <1>2, <2>4 DEF Answer
  <2>5. CASE m.op = ReadBlobReq
    <3>1. CASE m.second = HANDLE_TX_CCCD /\ m.arg < 2
      <4>1. 3 - m.arg \in Nat /\ (IF m.arg = 0 THEN c.nus_cccd ELSE 0) \in Nat
        BY <1>1, <3>1
      <4>2. Answer(c, m) = Msg(ReadBlobRsp, IF m.arg = 0 THEN c.nus_cccd ELSE 0, 3 - m.arg)
        BY <2>5, <3>1 DEF Answer
      <4> QED BY <2>5, <4>1, <4>2 DEF Msg, Messages, Refs
    <3>2. CASE ~(m.second = HANDLE_TX_CCCD /\ m.arg < 2)
      <4>1. Answer(c, m) = Msg(ErrorRsp, ReadBlobReq, 5)
        BY <2>5, <3>2 DEF Answer
      <4> QED BY <2>5, <4>1 DEF Msg, Messages, Refs
    <3> QED BY <3>1, <3>2
  <2>6. CASE m.op \notin {ExchangeMtuReq, ReadByGroupReq, FindInfoReq, ReadByTypeReq, ReadReq,
                          ReadBlobReq}
    <3>1. Answer(c, m) \in {Msg(WriteRsp, 0, 1), Msg(ErrorRsp, m.op, 5)}
      BY <2>6 DEF Answer
    <3> QED BY <1>1, <3>1 DEF Msg, Messages, Refs
  <2> QED BY <2>1, <2>2, <2>3, <2>4, <2>5, <2>6
<1> QED
  BY <1>1, <1>3 DEF Messages

-----------------------------------------------------------------------------
(* Changes that leave the accounts as they are                             *)

Quiet(c, d) ==
    /\ d \in Conns /\ SlotOK(d)
    /\ d.granted = c.granted
    /\ d.coc = None <=> c.coc = None
    /\ d.coc # None => d.coc.rx_sdu_len = c.coc.rx_sdu_len
    /\ Requesting(d) => Requesting(c)
    /\ Owed(d) = Owed(c)
    /\ ~d.stray => ~c.stray /\ Own(d) = Own(c)

(***************************************************************************)
(* Such a change of one end keeps the accounts of both.                    *)
(***************************************************************************)
LEMMA QuietPair ==
    ASSUME NEW c, NEW p, NEW d, Pair(c, p), Quiet(c, d)
    PROVE  Pair(d, p) /\ Pair(p, d)
BY DEF Pair, Account, Quiet

(***************************************************************************)
(* Such changes add up.                                                    *)
(***************************************************************************)
LEMMA QuietTrans ==
    ASSUME NEW c, NEW d, NEW e, Quiet(c, d), Quiet(d, e)
    PROVE  Quiet(c, e)
BY DEF Quiet

(***************************************************************************)
(* Leaving the slot and the accounts alone is quiet.                       *)
(***************************************************************************)
LEMMA SameQuiet ==
    ASSUME NEW c \in Conns, SlotOK(c), NEW d \in Conns,
           d.tx_pending = c.tx_pending, d.tx_cid = c.tx_cid, d.tx_att = c.tx_att,
           d.coc = c.coc, d.granted = c.granted, d.stray = c.stray,
           d.gone = c.gone, d.peer_gone = c.peer_gone
    PROVE  Quiet(c, d)
BY DEF Quiet, SlotOK, Requesting, Own, Owed, Credits, HoldsSdu, HoldsCredit

(***************************************************************************)
(* So is queueing an ATT message, which is no credit and no request for a  *)
(* channel, whatever channel it is sent on.                                *)
(***************************************************************************)
LEMMA AttQuiet ==
    ASSUME NEW c \in Conns, NEW m \in Messages, m.op \in AttOps
    PROVE  Quiet(c, queue_att(c, m))
<1> DEFINE d == queue_att(c, m)
<1>1. /\ d \in Conns /\ d.tx_pending = TRUE /\ d.tx_cid = c.tx_cid /\ d.tx_att = m
      /\ d.coc = c.coc /\ d.granted = c.granted /\ d.stray = (c.stray \/ c.tx_cid = Channel)
      /\ d.gone = c.gone + One(HoldsSdu(c)) /\ d.peer_gone = c.peer_gone + One(HoldsCredit(c))
  BY AttFields
<1> HIDE DEF d
<1>2. m.op # LE_FLOW_CONTROL_CREDIT /\ m.op # LE_CREDIT_BASED_CONNECTION_REQ
  BY DEF LE_FLOW_CONTROL_CREDIT, LE_CREDIT_BASED_CONNECTION_REQ, AttOps, AnswerOps, RequestOps,
     ErrorRsp, ExchangeMtuRsp, FindInfoRsp, ReadByTypeReq, ReadByTypeRsp, ReadReq, ReadRsp,
     ReadBlobRsp, ReadByGroupReq, ReadByGroupRsp, WriteReq, WriteRsp, Notification
<1>3. ~HoldsCredit(d) /\ ~Requesting(d)
  BY <1>1, <1>2 DEF HoldsCredit, Requesting
<1>4. ~d.stray => ~c.stray /\ ~HoldsSdu(d) /\ c.tx_cid # Channel
  BY <1>1 DEF HoldsSdu, Conns
<1>5. SlotOK(d)
  BY <1>1, <1>4 DEF SlotOK
<1>6. c.gone \in Nat /\ c.peer_gone \in Nat /\ One(HoldsSdu(c)) \in Nat /\ One(HoldsCredit(c)) \in Nat
  BY DEF Conns, One
<1>7. Owed(d) = Owed(c)
  BY <1>1, <1>3, <1>6 DEF Owed, One
<1>8. ~d.stray => Own(d) = Own(c)
  <2>1. Credits(d) = Credits(c) /\ Credits(c) \in Nat
    BY <1>1 DEF Credits, Conns, Cocs
  <2> QED BY <1>1, <1>4, <1>6, <2>1 DEF Own, One
<1> QED
  BY <1>1, <1>3, <1>4, <1>5, <1>7, <1>8 DEF Quiet, d

(***************************************************************************)
(* So is a message that is lost: its credit is counted as gone.            *)
(***************************************************************************)
LEMMA LostQuiet ==
    ASSUME NEW c \in Conns
    PROVE  Quiet(c, Lost(c))
<1> DEFINE d == Lost(c)
<1>1. /\ d \in Conns /\ d.tx_pending = FALSE
      /\ d.coc = c.coc /\ d.granted = c.granted /\ d.stray = c.stray
      /\ d.gone = c.gone + One(HoldsSdu(c)) /\ d.peer_gone = c.peer_gone + One(HoldsCredit(c))
  BY LostFields
<1> HIDE DEF d
<1>2. ~HoldsCredit(d) /\ ~Requesting(d) /\ ~HoldsSdu(d) /\ SlotOK(d)
  BY <1>1 DEF HoldsCredit, Requesting, HoldsSdu, SlotOK
<1>3. c.gone \in Nat /\ c.peer_gone \in Nat /\ One(HoldsSdu(c)) \in Nat /\ One(HoldsCredit(c)) \in Nat
  BY DEF Conns, One
<1>4. Credits(d) = Credits(c) /\ Credits(c) \in Nat
  BY <1>1 DEF Credits, Conns, Cocs
<1>5. Owed(d) = Owed(c) /\ Own(d) = Own(c)
  BY <1>1, <1>2, <1>3, <1>4 DEF Owed, Own, One
<1> QED
  BY <1>1, <1>2, <1>5 DEF Quiet, d

(***************************************************************************)
(* So is a message that is sent, if no credit goes with it.                *)
(***************************************************************************)
LEMMA SentQuiet ==
    ASSUME NEW c \in Conns, ~HoldsCredit(c), ~c.stray => ~HoldsSdu(c)
    PROVE  Quiet(c, Sent(c))
<1> DEFINE d == Sent(c)
<1>1. /\ d \in Conns /\ d.tx_pending = FALSE
      /\ d.coc = c.coc /\ d.granted = c.granted /\ d.stray = c.stray
      /\ d.gone = c.gone /\ d.peer_gone = c.peer_gone
  BY SentFields
<1> HIDE DEF d
<1>2. ~HoldsCredit(d) /\ ~Requesting(d) /\ ~HoldsSdu(d) /\ SlotOK(d)
  BY <1>1 DEF HoldsCredit, Requesting, HoldsSdu, SlotOK
<1>3. Credits(d) = Credits(c)
  BY <1>1 DEF Credits
<1>4. Owed(d) = Owed(c) /\ (~d.stray => Own(d) = Own(c))
  BY <1>1, <1>2, <1>3 DEF Owed, Own, One
<1> QED
  BY <1>1, <1>2, <1>4 DEF Quiet, d

(***************************************************************************)
(* What the ATT server and the GATT client do with a message.              *)
(***************************************************************************)
LEMMA HandleAttFields ==
    ASSUME NEW c \in Conns, NEW m \in Messages
    PROVE  \/ /\ c.pending_request /\ m.op \in Responses
              /\ handle_att(c, m) = [c EXCEPT !.pending_request = FALSE, !.gatt_result = m]
           \/ \E n \in Nat : LET w == [c EXCEPT !.nus_cccd = n]
                IN  \/ /\ m.op \in {Notification, WriteCmd}
                       /\ handle_att(c, m) = w
                    \/ /\ ~(c.pending_request /\ m.op \in Responses)
                       /\ m.op \notin {Notification, WriteCmd}
                       /\ handle_att(c, m) = queue_att(w, [Answer(c, m) EXCEPT !.ref = m.ref])
<1> DEFINE written == IF m.op \in {WriteReq, WriteCmd} THEN write(c, m) ELSE c
<1>1. PICK n \in Nat : written = [c EXCEPT !.nus_cccd = n]
  <2>1. c = [c EXCEPT !.nus_cccd = c.nus_cccd] /\ c.nus_cccd \in Nat /\ m.arg \in Nat
    BY DEF Conns, Messages
  <2>2. written = c \/ written = [c EXCEPT !.nus_cccd = m.arg]
    BY DEF write
  <2> HIDE DEF written
  <2> QED BY <2>1, <2>2
<1>2. handle_att(c, m) =
        CASE c.pending_request /\ m.op \in Responses ->
                [c EXCEPT !.pending_request = FALSE, !.gatt_result = m]
          [] m.op = Notification -> c
          [] m.op = WriteCmd     -> written
          [] OTHER               -> queue_att(written, [Answer(c, m) EXCEPT !.ref = m.ref])
  BY DEF handle_att
<1>3. m.op = Notification => written = c
  BY DEF Notification, WriteReq, WriteCmd
<1> HIDE DEF written
<1>4. CASE c.pending_request /\ m.op \in Responses
  <2>1. m.op # Notification /\ m.op # WriteCmd
    BY <1>4 DEF Responses, Notification, WriteCmd, ErrorRsp, ExchangeMtuRsp, ReadByTypeRsp,
       ReadRsp, ReadByGroupRsp, WriteRsp
  <2>2. handle_att(c, m) = [c EXCEPT !.pending_request = FALSE, !.gatt_result = m]
    BY <1>2, <1>4, <2>1
  <2> QED BY <1>4, <2>2
<1>5. CASE ~(c.pending_request /\ m.op \in Responses)
  <2>1. CASE m.op = Notification
    BY <1>1, <1>2, <1>3, <1>5, <2>1
  <2>2. CASE m.op # Notification /\ m.op = WriteCmd
    BY <1>1, <1>2, <1>5, <2>2
  <2>3. CASE m.op # Notification /\ m.op # WriteCmd
    <3>1. handle_att(c, m) = queue_att(written, [Answer(c, m) EXCEPT !.ref = m.ref])
      BY <1>2, <1>5, <2>3
    <3> QED BY <1>1, <1>5, <2>3, <3>1
  <2> QED BY <2>1, <2>2, <2>3
<1> QED BY <1>4, <1>5

(***************************************************************************)
(* An ATT message moves no credit.                                         *)
(***************************************************************************)
LEMMA HandleAttQuiet ==
    ASSUME NEW c \in Conns, SlotOK(c), NEW m \in Messages
    PROVE  Quiet(c, handle_att(c, m))
<1>1. CASE handle_att(c, m) = [c EXCEPT !.pending_request = FALSE, !.gatt_result = m]
  <2> DEFINE d == [c EXCEPT !.pending_request = FALSE, !.gatt_result = m]
  <2>1. /\ d \in Conns /\ d.tx_pending = c.tx_pending /\ d.tx_cid = c.tx_cid
        /\ d.tx_att = c.tx_att /\ d.coc = c.coc /\ d.granted = c.granted
        /\ d.stray = c.stray /\ d.gone = c.gone /\ d.peer_gone = c.peer_gone
    BY DEF Conns
  <2> HIDE DEF d
  <2>2. Quiet(c, d)
    BY <2>1, SameQuiet
  <2> QED BY <1>1, <2>2 DEF d
<1>2. ASSUME NEW n \in Nat
      PROVE  LET w == [c EXCEPT !.nus_cccd = n]
             IN  Quiet(c, w) /\ Quiet(c, queue_att(w, [Answer(c, m) EXCEPT !.ref = m.ref]))
  <2> DEFINE w == [c EXCEPT !.nus_cccd = n]
             a == [Answer(c, m) EXCEPT !.ref = m.ref]
  <2>1. /\ w \in Conns /\ w.tx_pending = c.tx_pending /\ w.tx_cid = c.tx_cid
        /\ w.tx_att = c.tx_att /\ w.coc = c.coc /\ w.granted = c.granted
        /\ w.stray = c.stray /\ w.gone = c.gone /\ w.peer_gone = c.peer_gone
    BY DEF Conns
  <2>2. a \in Messages /\ a.op \in AttOps
    BY AnswerFields DEF AttOps
  <2> HIDE DEF w, a
  <2>3. Quiet(c, w)
    BY <2>1, SameQuiet
  <2>4. Quiet(w, queue_att(w, a))
    BY <2>1, <2>2, AttQuiet
  <2>5. Quiet(c, queue_att(w, a))
    BY <2>3, <2>4, QuietTrans
  <2> QED BY <2>3, <2>5 DEF w, a
<1> QED
  BY <1>1, <1>2, HandleAttFields

-----------------------------------------------------------------------------
(* A packet that is heard                                                  *)

(***************************************************************************)
(* The credits granted are a u16, lengths and handles are numbers, and     *)
(* None is no channel.                                                     *)
(***************************************************************************)
LEMMA Constants ==
    /\ COC_CREDITS \in Nat /\ COC_CREDITS <= U16_MAX /\ U16_MAX \in Nat
    /\ \A len \in SduLengths : len \in Nat
    /\ \A h \in ReadHandles : h \in Nat
    /\ \A coc \in Cocs : coc # None
<1>1. U16_MAX \in Nat
  BY SMTT(20) DEF U16_MAX
<1>2. COC_CREDITS \in Nat /\ COC_CREDITS <= U16_MAX
  BY <1>1, ServicesAssumption
<1>3. /\ \A len \in SduLengths : len \in Nat
      /\ \A h \in ReadHandles : h \in Nat
  BY ServicesAssumption
<1>4. \A coc \in Cocs : coc # None
  BY NoneAssumption, Zenon DEF Cocs
<1> QED BY <1>1, <1>2, <1>3, <1>4

(***************************************************************************)
(* An end holds no more credits than it was granted, so that an increment  *)
(* never meets the bound of u16.                                           *)
(***************************************************************************)
LEMMA Sums ==
    ASSUME NEW c, NEW p, Pair(c, p)
    PROVE  /\ Credits(c) \in Nat /\ c.gone \in Nat /\ p.peer_gone \in Nat
           /\ One(HoldsSdu(c)) \in Nat /\ One(HoldsCredit(p)) \in Nat
           /\ Own(c) \in Nat /\ Owed(p) \in Nat
           /\ c.granted \in Nat /\ c.granted <= U16_MAX
           /\ ~c.stray => Own(c) + Owed(p) = c.granted
           /\ ~c.stray /\ c.granted = 0 => Own(c) = 0 /\ Owed(p) = 0
<1>1. c \in Conns /\ p \in Conns /\ Account(c, p)
  BY DEF Pair
<1>2. Credits(c) \in Nat /\ c.gone \in Nat /\ p.peer_gone \in Nat
  BY <1>1 DEF Conns, Cocs, Credits
<1>3. One(HoldsSdu(c)) \in Nat /\ One(HoldsCredit(p)) \in Nat
  BY DEF One
<1>4. Own(c) \in Nat /\ Owed(p) \in Nat
  BY <1>2, <1>3 DEF Own, Owed
<1>5. c.granted \in Nat /\ c.granted <= U16_MAX
  BY <1>1, Constants DEF Account
<1>6. ~c.stray => Own(c) + Owed(p) = c.granted
  BY <1>1 DEF Account
<1> QED
  BY <1>2, <1>3, <1>4, <1>5, <1>6

(***************************************************************************)
(* A request for a channel: the peer grants its credits for the first and  *)
(* only time.                                                              *)
(***************************************************************************)
LEMMA RequestHeard ==
    ASSUME NEW a, NEW b, Pair(a, b), Requesting(a)
    PROVE  Pair(Sent(a), Accept(b))
<1> DEFINE coc == [NewCoc EXCEPT !.peer_cid = COC_LOCAL_CID, !.credits = COC_CREDITS]
           b1  == [b EXCEPT !.coc = coc, !.granted = COC_CREDITS]
           m   == [Msg(LE_CREDIT_BASED_CONNECTION_RSP, 0, 12) EXCEPT !.arg = COC_LOCAL_CID]
           d   == Queued(b1, Signaling, m)
           s   == Sent(a)
<1>1. a \in Conns /\ b \in Conns /\ Account(a, b) /\ Account(b, a) /\ COC_CREDITS \in Nat
  BY Constants DEF Pair
<1>2. coc \in Cocs /\ coc # None /\ coc.credits = COC_CREDITS /\ coc.rx_sdu_len = 0
  <2>1. coc \in Cocs /\ coc.credits = COC_CREDITS /\ coc.rx_sdu_len = 0
    BY <1>1 DEF NewCoc, Cocs, COC_LOCAL_CID
  <2> QED BY <2>1, Constants
<1>3. m \in Messages /\ m.op = LE_CREDIT_BASED_CONNECTION_RSP
  BY DEF Msg, Messages, Refs, LE_CREDIT_BASED_CONNECTION_RSP, COC_LOCAL_CID
<1> HIDE DEF coc, m
<1>4. /\ b1 \in Conns /\ b1.coc = coc /\ b1.granted = COC_CREDITS /\ b1.stray = b.stray
      /\ b1.gone = b.gone /\ b1.peer_gone = b.peer_gone /\ b1.tx_pending = b.tx_pending
      /\ b1.tx_cid = b.tx_cid /\ b1.tx_att = b.tx_att
  BY <1>1, <1>2 DEF Conns
<1>5. One(HoldsSdu(b1)) = One(HoldsSdu(b)) /\ One(HoldsCredit(b1)) = One(HoldsCredit(b))
  BY <1>4 DEF HoldsSdu, HoldsCredit, One
<1> HIDE DEF b1
<1>6. /\ d \in Conns /\ d.tx_pending = TRUE /\ d.tx_cid = Signaling /\ d.tx_att = m
      /\ d.coc = coc /\ d.granted = COC_CREDITS /\ d.stray = b.stray
      /\ d.gone = b.gone + One(HoldsSdu(b)) /\ d.peer_gone = b.peer_gone + One(HoldsCredit(b))
  <2>1. Signaling \in Cids
    BY DEF Cids
  <2>2. /\ d \in Conns /\ d.tx_pending = TRUE /\ d.tx_cid = Signaling /\ d.tx_att = m
        /\ d.coc = b1.coc /\ d.granted = b1.granted /\ d.stray = b1.stray
        /\ d.gone = b1.gone + One(HoldsSdu(b1))
        /\ d.peer_gone = b1.peer_gone + One(HoldsCredit(b1))
    BY <1>3, <1>4, <2>1, QueuedFields, ZenonT(60)
  <2> QED BY <1>4, <1>5, <2>2
<1>7. /\ s \in Conns /\ s.tx_pending = FALSE /\ s.coc = a.coc /\ s.granted = a.granted
      /\ s.stray = a.stray /\ s.gone = a.gone /\ s.peer_gone = a.peer_gone
  BY <1>1, SentFields
<1> HIDE DEF d, s
<1>8. a.coc # None /\ b.granted = 0
  BY <1>1 DEF Account
<1>9. ~HoldsCredit(a) /\ ~HoldsSdu(a) /\ One(HoldsCredit(a)) = 0 /\ One(HoldsSdu(a)) = 0
  <2>1. a.tx_att.op = 20 /\ a.tx_cid = Signaling
    BY DEF Requesting, LE_CREDIT_BASED_CONNECTION_REQ
  <2> QED BY <2>1 DEF HoldsCredit, HoldsSdu, LE_FLOW_CONTROL_CREDIT, Signaling, Channel, One
<1>10. ~HoldsCredit(d) /\ ~HoldsSdu(d) /\ ~Requesting(d) /\ SlotOK(d)
  <2>1. d.tx_att.op = 21
    BY <1>3, <1>6 DEF LE_CREDIT_BASED_CONNECTION_RSP
  <2> QED
    BY <1>6, <2>1 DEF HoldsCredit, HoldsSdu, Requesting, SlotOK, Signaling, Channel,
       LE_CREDIT_BASED_CONNECTION_REQ, LE_CREDIT_BASED_CONNECTION_RSP, LE_FLOW_CONTROL_CREDIT
<1>11. ~HoldsCredit(s) /\ ~HoldsSdu(s) /\ ~Requesting(s) /\ SlotOK(s)
  BY <1>7 DEF HoldsCredit, HoldsSdu, Requesting, SlotOK
<1>12. Account(s, d)
  <2>1. Credits(s) = Credits(a)
    BY <1>7 DEF Credits
  <2>2. Own(s) = Own(a)
    BY <1>7, <1>9, <1>11, <2>1 DEF Own, One
  <2>3. Owed(d) = Owed(b)
    <3>1. b.peer_gone \in Nat /\ One(HoldsCredit(b)) \in Nat
      BY <1>1 DEF Conns, One
    <3> QED BY <1>6, <1>10, <3>1 DEF Owed, One
  <2> QED BY <1>1, <1>2, <1>6, <1>7, <1>10, <1>11, <2>2, <2>3 DEF Account
<1>13. Account(d, s)
  <2>1. Owed(s) = Owed(a)
    BY <1>7, <1>9, <1>11 DEF Owed, One
  <2>2. ~b.stray => Own(b) = 0 /\ Owed(a) = 0 /\ Own(b) \in Nat
    BY <1>8, Sums DEF Pair
  <2>3. ~b.stray => b.gone = 0 /\ One(HoldsSdu(b)) = 0
    BY <1>1, <2>2, Sums DEF Own, Pair
  <2>4. Credits(d) = COC_CREDITS
    BY <1>2, <1>6 DEF Credits
  <2>5. ~d.stray => Own(d) + Owed(s) = COC_CREDITS
    BY <1>1, <1>6, <1>10, <2>1, <2>2, <2>3, <2>4 DEF Own, One
  <2>6. ~d.stray => s.coc = None \/ s.coc.rx_sdu_len = 0
    BY <1>1, <1>6, <1>7 DEF Account
  <2> QED BY <1>2, <1>6, <1>7, <1>8, <1>10, <1>11, <2>5, <2>6 DEF Account
<1>14. Pair(s, d)
  BY <1>6, <1>7, <1>10, <1>11, <1>12, <1>13 DEF Pair
<1> QED BY <1>14 DEF s, d, b1, coc, m, Accept, queue_signaling

(***************************************************************************)
(* The end that has sent: what was in its slot has left its accounts.      *)
(***************************************************************************)
LEMMA SentAccount ==
    ASSUME NEW c \in Conns
    PROVE  LET s == Sent(c)
           IN  /\ s \in Conns /\ SlotOK(s) /\ ~Requesting(s)
               /\ s.coc = c.coc /\ s.granted = c.granted /\ s.stray = c.stray
               /\ Own(s) = Own(c) - One(HoldsSdu(c))
               /\ Owed(s) = Owed(c) - One(HoldsCredit(c))
<1> DEFINE s == Sent(c)
<1>1. /\ s \in Conns /\ s.tx_pending = FALSE /\ s.coc = c.coc /\ s.granted = c.granted
      /\ s.stray = c.stray /\ s.gone = c.gone /\ s.peer_gone = c.peer_gone
  BY SentFields
<1> HIDE DEF s
<1>2. ~HoldsCredit(s) /\ ~Requesting(s) /\ ~HoldsSdu(s) /\ SlotOK(s)
  BY <1>1 DEF HoldsCredit, Requesting, HoldsSdu, SlotOK
<1>3. c.gone \in Nat /\ c.peer_gone \in Nat /\ One(HoldsSdu(c)) \in Nat /\ One(HoldsCredit(c)) \in Nat
  BY DEF Conns, One
<1>4. Credits(s) = Credits(c) /\ Credits(c) \in Nat
  BY <1>1 DEF Credits, Conns, Cocs
<1>5. Own(s) = Own(c) - One(HoldsSdu(c))
  <2>1. One(HoldsSdu(s)) = 0
    BY <1>2 DEF One
  <2> QED BY <1>1, <1>3, <1>4, <2>1 DEF Own
<1>6. Owed(s) = Owed(c) - One(HoldsCredit(c))
  <2>1. One(HoldsCredit(s)) = 0
    BY <1>2 DEF One
  <2> QED BY <1>1, <1>3, <2>1 DEF Owed
<1> QED
  BY <1>1, <1>2, <1>5, <1>6 DEF s

(***************************************************************************)
(* A credit: it moves from the slot of one end into the account of the     *)
(* other, or is counted as gone.                                           *)
(***************************************************************************)
LEMMA CreditHeard ==
    ASSUME NEW a, NEW b, Pair(a, b), HoldsCredit(a)
    PROVE  Pair(Sent(a), Credited(b, a.tx_att))
<1> DEFINE s == Sent(a)
           d == Credited(b, a.tx_att)
<1>1. /\ a \in Conns /\ b \in Conns /\ SlotOK(b) /\ Account(a, b) /\ Account(b, a)
      /\ Pair(b, a)
  BY DEF Pair
<1>2. ~HoldsSdu(a)
  BY DEF HoldsCredit, HoldsSdu, Signaling, Channel
<1>3. Own(a) \in Nat /\ Owed(a) \in Nat /\ Own(b) \in Nat /\ Owed(b) \in Nat
  BY <1>1, Sums
<1>4. /\ s \in Conns /\ SlotOK(s) /\ ~Requesting(s)
      /\ s.coc = a.coc /\ s.granted = a.granted /\ s.stray = a.stray
      /\ Own(s) = Own(a) /\ Owed(s) = Owed(a) - 1
  BY <1>1, <1>2, <1>3, SentAccount DEF One
<1>5. ~b.stray => Own(b) + Owed(a) = b.granted /\ b.granted \in Nat /\ b.granted <= U16_MAX
  BY <1>1, Sums
<1>6. Owed(a) >= 1
  <2>1. a.peer_gone \in Nat
    BY <1>1 DEF Conns
  <2> QED BY <2>1 DEF Owed, One
<1>7. /\ d \in Conns /\ d.tx_pending = b.tx_pending /\ d.tx_cid = b.tx_cid
      /\ d.tx_att = b.tx_att /\ d.stray = b.stray /\ d.granted = b.granted
      /\ d.peer_gone = b.peer_gone /\ (d.coc = None <=> b.coc = None)
      /\ d.coc # None => d.coc.rx_sdu_len = b.coc.rx_sdu_len
      /\ ~b.stray => Own(d) = Own(b) + 1
  <2>1. CASE b.coc = None
    <3>1. b.granted = 0
      BY <1>1, <2>1 DEF Account
    <3>2. b.stray
      BY <1>3, <1>5, <1>6, <3>1
    <3>3. d = b
      BY <2>1 DEF Credited
    <3> HIDE DEF d
    <3> QED BY <1>1, <3>2, <3>3
  <2>2. CASE b.coc # None /\ a.tx_att.arg \in {COC_LOCAL_CID, b.coc.peer_cid}
    <3> DEFINE n == Lesser(b.coc.credits + 1, U16_MAX)
               coc == [b.coc EXCEPT !.credits = n]
    <3>1. d = [b EXCEPT !.coc = coc]
      BY <2>2 DEF Credited
    <3>2. b.coc \in Cocs /\ b.coc.credits \in Nat /\ b.gone \in Nat /\ One(HoldsSdu(b)) \in Nat
      BY <1>1, <2>2 DEF Conns, Cocs, One
    <3>3. n \in Nat
      BY <3>2, Constants DEF Lesser
    <3>4. ~b.stray => n = b.coc.credits + 1
      <4>1. Own(b) = b.coc.credits + One(HoldsSdu(b)) + b.gone
        BY <2>2 DEF Own, Credits
      <4>2. U16_MAX \in Nat
        BY Constants
      <4> QED BY <1>3, <1>5, <1>6, <3>2, <4>1, <4>2 DEF Lesser
    <3> HIDE DEF n
    <3>5. /\ coc \in Cocs /\ coc # None /\ coc.credits = n
          /\ coc.rx_sdu_len = b.coc.rx_sdu_len
      <4>1. coc \in Cocs /\ coc.credits = n /\ coc.rx_sdu_len = b.coc.rx_sdu_len
        BY <3>2, <3>3 DEF Cocs
      <4> QED BY <4>1, Constants
    <3> HIDE DEF coc
    <3>6. /\ d \in Conns /\ d.tx_pending = b.tx_pending /\ d.tx_cid = b.tx_cid
          /\ d.tx_att = b.tx_att /\ d.stray = b.stray /\ d.granted = b.granted
          /\ d.peer_gone = b.peer_gone /\ d.coc = coc /\ d.gone = b.gone
      BY <1>1, <3>1, <3>5 DEF Conns
    <3> HIDE DEF d
    <3>7. ~b.stray => Own(d) = Own(b) + 1
      <4>1. One(HoldsSdu(d)) = One(HoldsSdu(b))
        BY <3>6 DEF HoldsSdu, One
      <4>2. Credits(d) = n /\ Credits(b) = b.coc.credits
        BY <2>2, <3>5, <3>6 DEF Credits
      <4> QED BY <3>2, <3>3, <3>4, <3>6, <4>1, <4>2 DEF Own
    <3> QED BY <2>2, <3>5, <3>6, <3>7
  <2>3. CASE b.coc # None /\ a.tx_att.arg \notin {COC_LOCAL_CID, b.coc.peer_cid}
    <3>1. d = [b EXCEPT !.gone = b.gone + 1]
      BY <2>3 DEF Credited
    <3>2. b.gone \in Nat /\ One(HoldsSdu(b)) \in Nat /\ Credits(b) \in Nat
      BY <1>1 DEF Conns, Cocs, Credits, One
    <3>3. /\ d \in Conns /\ d.tx_pending = b.tx_pending /\ d.tx_cid = b.tx_cid
          /\ d.tx_att = b.tx_att /\ d.stray = b.stray /\ d.granted = b.granted
          /\ d.peer_gone = b.peer_gone /\ d.coc = b.coc /\ d.gone = b.gone + 1
      BY <1>1, <3>1, <3>2 DEF Conns
    <3> HIDE DEF d
    <3>4. Own(d) = Own(b) + 1
      <4>1. One(HoldsSdu(d)) = One(HoldsSdu(b))
        BY <3>3 DEF HoldsSdu, One
      <4>2. Credits(d) = Credits(b)
        BY <3>3 DEF Credits
      <4> QED BY <3>2, <3>3, <4>1, <4>2 DEF Own
    <3> QED BY <3>3, <3>4
  <2> QED BY <2>1, <2>2, <2>3
<1> HIDE DEF s, d
<1>8. SlotOK(d) /\ (Requesting(d) <=> Requesting(b)) /\ Owed(d) = Owed(b)
  BY <1>1, <1>7 DEF SlotOK, Requesting, Owed, HoldsSdu, HoldsCredit
<1>9. Account(s, d)
  BY <1>1, <1>4, <1>7, <1>8 DEF Account
<1>10. Account(d, s)
  <2>1. ~d.stray => Own(d) + Owed(s) = d.granted
    BY <1>3, <1>4, <1>5, <1>7
  <2> QED BY <1>1, <1>4, <1>7, <1>8, <2>1 DEF Account
<1>11. Pair(s, d)
  BY <1>4, <1>7, <1>8, <1>9, <1>10 DEF Pair
<1> QED BY <1>11 DEF s, d

\* What rx_coc_sdu does: part of an SDU, or all of it and a credit in return
WithSdu(c, len, total) == [c EXCEPT !.coc.rx_sdu_len = len, !.coc.rx_sdu_total = total]

Credit(c) == [Msg(LE_FLOW_CONTROL_CREDIT, 0, 6) EXCEPT !.arg = c.coc.peer_cid]

(***************************************************************************)
(* A frame that begins an SDU and holds all of it is answered by a credit. *)
(***************************************************************************)
LEMMA SduFields ==
    ASSUME NEW b \in Conns, b.coc # None, NEW m \in Messages
    PROVE  /\ \/ rx_coc_sdu(b, m) = Queued(WithSdu(b, 0, 0), Signaling, Credit(b))
              \/ rx_coc_sdu(b, m) = b
              \/ \E len, total \in Nat : rx_coc_sdu(b, m) = WithSdu(b, len, total)
           /\ b.coc.rx_sdu_len = 0 /\ m.second = 0 /\ m.len = m.op + 2 =>
                rx_coc_sdu(b, m) = Queued(WithSdu(b, 0, 0), Signaling, Credit(b))
<1>1. /\ b.coc.rx_sdu_len \in Nat /\ b.coc.rx_sdu_total \in Nat
      /\ m.len \in Nat /\ m.op \in Nat /\ m.second \in Nat
  BY DEF Conns, Cocs, Messages
<1>2. ASSUME NEW len \in Nat, NEW total \in Nat
      PROVE  /\ len >= total =>
                  SduPart(b, len, total) = Queued(WithSdu(b, 0, 0), Signaling, Credit(b))
             /\ ~(len >= total) => SduPart(b, len, total) = WithSdu(b, len, total)
  BY DEF SduPart, WithSdu, Credit, queue_signaling
<1>3. CASE b.coc.rx_sdu_len = 0
  <2>1. CASE m.len < 2
    <3>1. rx_coc_sdu(b, m) = b
      BY <1>3, <2>1 DEF rx_coc_sdu
    <3>2. m.len # m.op + 2
      BY <1>1, <2>1
    <3> QED BY <3>1, <3>2
  <2>2. CASE ~(m.len < 2)
    <3> DEFINE len == m.len - 2
               total == m.op + 256 * m.second
    <3>1. len \in Nat /\ total \in Nat
      BY <1>1, <2>2
    <3>2. rx_coc_sdu(b, m) = SduPart(b, len, total)
      BY <1>3, <2>2 DEF rx_coc_sdu
    <3>3. m.second = 0 /\ m.len = m.op + 2 => len >= total
      BY <1>1
    <3> HIDE DEF len, total
    <3> QED BY <1>2, <3>1, <3>2, <3>3
  <2> QED BY <2>1, <2>2
<1>4. CASE b.coc.rx_sdu_len # 0
  <2> DEFINE len == Lesser(b.coc.rx_sdu_len + m.len, RX_SDU_LEN)
  <2>1. len \in Nat
    BY <1>1 DEF Lesser, RX_SDU_LEN
  <2>2. rx_coc_sdu(b, m) = SduPart(b, len, b.coc.rx_sdu_total)
    BY <1>4 DEF rx_coc_sdu
  <2> HIDE DEF len
  <2> QED BY <1>1, <1>2, <1>4, <2>1, <2>2
<1> QED BY <1>3, <1>4

(***************************************************************************)
(* The fields that part of an SDU leaves alone.                            *)
(***************************************************************************)
LEMMA WithSduFields ==
    ASSUME NEW b \in Conns, b.coc # None, NEW len \in Nat, NEW total \in Nat
    PROVE  LET w == WithSdu(b, len, total)
           IN  /\ w \in Conns /\ w.tx_pending = b.tx_pending /\ w.tx_cid = b.tx_cid
               /\ w.tx_att = b.tx_att /\ w.granted = b.granted /\ w.stray = b.stray
               /\ w.gone = b.gone /\ w.peer_gone = b.peer_gone
               /\ w.coc \in Cocs /\ w.coc # None /\ w.coc.rx_sdu_len = len
               /\ w.coc.credits = b.coc.credits /\ w.coc.peer_cid = b.coc.peer_cid
               /\ Rest(w) = Rest(b)
<1> DEFINE coc == [b.coc EXCEPT !.rx_sdu_len = len, !.rx_sdu_total = total]
<1>1. WithSdu(b, len, total) = [b EXCEPT !.coc = coc]
  BY DEF WithSdu, Conns
<1>2. b.coc \in Cocs
  BY DEF Conns
<1>3. /\ coc \in Cocs /\ coc.rx_sdu_len = len
      /\ coc.credits = b.coc.credits /\ coc.peer_cid = b.coc.peer_cid
  BY <1>2 DEF Cocs
<1>4. coc # None
  BY <1>3, Constants
<1> HIDE DEF coc
<1> QED BY <1>1, <1>3, <1>4 DEF Conns, Rest

(***************************************************************************)
(* The credit is a signaling message.                                      *)
(***************************************************************************)
LEMMA CreditFields ==
    ASSUME NEW b \in Conns, b.coc # None
    PROVE  Credit(b) \in Messages /\ Credit(b).op = LE_FLOW_CONTROL_CREDIT
           /\ Credit(b).ref = << >>
<1>1. b.coc.peer_cid \in Nat
  BY DEF Conns, Cocs
<1> QED BY <1>1 DEF Credit, Msg, Messages, Refs, LE_FLOW_CONTROL_CREDIT

(***************************************************************************)
(* An end that queues a credit owes one more.                              *)
(***************************************************************************)
LEMMA CreditQueued ==
    ASSUME NEW c \in Conns, NEW k \in Messages, k.op = LE_FLOW_CONTROL_CREDIT
    PROVE  LET q == Queued(c, Signaling, k)
           IN  /\ q \in Conns /\ SlotOK(q) /\ ~Requesting(q)
               /\ q.coc = c.coc /\ q.granted = c.granted /\ q.stray = c.stray
               /\ Own(q) = Own(c) /\ Owed(q) = Owed(c) + 1
<1> DEFINE q == Queued(c, Signaling, k)
<1>1. c.gone \in Nat /\ c.peer_gone \in Nat /\ One(HoldsSdu(c)) \in Nat
      /\ One(HoldsCredit(c)) \in Nat /\ Credits(c) \in Nat
  BY DEF Conns, Cocs, Credits, One
<1>2. /\ q \in Conns /\ q.tx_pending = TRUE /\ q.tx_cid = Signaling /\ q.tx_att = k
      /\ q.coc = c.coc /\ q.granted = c.granted /\ q.stray = c.stray
      /\ q.gone = c.gone + One(HoldsSdu(c)) /\ q.peer_gone = c.peer_gone + One(HoldsCredit(c))
  <2>1. Signaling \in Cids
    BY DEF Cids
  <2> QED BY <2>1, QueuedFields, ZenonT(60)
<1> HIDE DEF q
<1>3. q.tx_att.op = 22
  BY <1>2 DEF LE_FLOW_CONTROL_CREDIT
<1>4. HoldsCredit(q) /\ ~HoldsSdu(q) /\ ~Requesting(q) /\ SlotOK(q)
  BY <1>2, <1>3 DEF HoldsCredit, HoldsSdu, Requesting, SlotOK, Signaling, Channel,
     LE_CREDIT_BASED_CONNECTION_REQ, LE_CREDIT_BASED_CONNECTION_RSP, LE_FLOW_CONTROL_CREDIT
<1>5. Own(q) = Own(c)
  <2>1. Credits(q) = Credits(c)
    BY <1>2 DEF Credits
  <2>2. One(HoldsSdu(q)) = 0
    BY <1>4 DEF One
  <2> QED BY <1>1, <1>2, <2>1, <2>2 DEF Own
<1>6. Owed(q) = Owed(c) + 1
  <2>1. One(HoldsCredit(q)) = 1
    BY <1>4 DEF One
  <2> QED BY <1>1, <1>2, <2>1 DEF Owed
<1> QED BY <1>2, <1>4, <1>5, <1>6 DEF q

(***************************************************************************)
(* What part of an SDU, or a whole one, does to the accounts of its        *)
(* receiver: a credit more is owed for a whole one.                        *)
(***************************************************************************)
LEMMA SduAccount ==
    ASSUME NEW b \in Conns, SlotOK(b), b.coc # None, NEW m \in Messages
    PROVE  LET d == rx_coc_sdu(b, m)
           IN  /\ d \in Conns /\ SlotOK(d) /\ (Requesting(d) => Requesting(b))
               /\ d.coc # None /\ d.granted = b.granted /\ d.stray = b.stray
               /\ Own(d) = Own(b)
               /\ b.coc.rx_sdu_len = 0 /\ m.second = 0 /\ m.len = m.op + 2 =>
                    d.coc.rx_sdu_len = 0 /\ Owed(d) = Owed(b) + 1
<1> DEFINE d == rx_coc_sdu(b, m)
           w == WithSdu(b, 0, 0)
           k == Credit(b)
           q == Queued(w, Signaling, k)
<1>1. ASSUME NEW len \in Nat, NEW total \in Nat
      PROVE  LET v == WithSdu(b, len, total)
             IN  /\ v \in Conns /\ SlotOK(v) /\ (Requesting(v) => Requesting(b))
                 /\ v.coc # None /\ v.granted = b.granted /\ v.stray = b.stray
                 /\ Own(v) = Own(b) /\ Owed(v) = Owed(b) /\ v.coc.rx_sdu_len = len
  <2> DEFINE v == WithSdu(b, len, total)
  <2>1. /\ v \in Conns /\ v.tx_pending = b.tx_pending /\ v.tx_cid = b.tx_cid
        /\ v.tx_att = b.tx_att /\ v.granted = b.granted /\ v.stray = b.stray
        /\ v.gone = b.gone /\ v.peer_gone = b.peer_gone
        /\ v.coc # None /\ v.coc.rx_sdu_len = len /\ v.coc.credits = b.coc.credits
    BY WithSduFields
  <2> HIDE DEF v
  <2>2. /\ SlotOK(v) /\ (Requesting(v) => Requesting(b))
        /\ HoldsSdu(v) <=> HoldsSdu(b)
        /\ HoldsCredit(v) <=> HoldsCredit(b)
    BY <2>1 DEF SlotOK, Requesting, HoldsSdu, HoldsCredit
  <2>3. Own(v) = Own(b) /\ Owed(v) = Owed(b)
    <3>1. One(HoldsSdu(v)) = One(HoldsSdu(b)) /\ One(HoldsCredit(v)) = One(HoldsCredit(b))
      BY <2>2 DEF One
    <3>2. Credits(v) = Credits(b)
      BY <2>1 DEF Credits
    <3> QED BY <2>1, <3>1, <3>2 DEF Own, Owed
  <2> QED BY <2>1, <2>2, <2>3 DEF v
<1>2. /\ q \in Conns /\ SlotOK(q) /\ ~Requesting(q)
      /\ q.coc # None /\ q.granted = b.granted /\ q.stray = b.stray
      /\ Own(q) = Own(b) /\ q.coc.rx_sdu_len = 0 /\ Owed(q) = Owed(b) + 1
  <2>1. /\ w \in Conns /\ w.coc # None /\ w.coc.rx_sdu_len = 0
        /\ w.granted = b.granted /\ w.stray = b.stray
        /\ Own(w) = Own(b) /\ Owed(w) = Owed(b)
    BY <1>1
  <2>2. k \in Messages /\ k.op = LE_FLOW_CONTROL_CREDIT
    BY CreditFields
  <2> HIDE DEF w, k
  <2>3. /\ q \in Conns /\ SlotOK(q) /\ ~Requesting(q)
        /\ q.coc = w.coc /\ q.granted = w.granted /\ q.stray = w.stray
        /\ Own(q) = Own(w) /\ Owed(q) = Owed(w) + 1
    BY <2>1, <2>2, CreditQueued
  <2> QED BY <2>1, <2>3
<1>3. /\ d = q \/ d = b \/ \E len, total \in Nat : d = WithSdu(b, len, total)
      /\ b.coc.rx_sdu_len = 0 /\ m.second = 0 /\ m.len = m.op + 2 => d = q
  BY SduFields
<1> HIDE DEF d, w, q
<1>4. CASE d = q
  BY <1>2, <1>4 DEF d
<1>5. CASE d # q
  <2>1. ~(b.coc.rx_sdu_len = 0 /\ m.second = 0 /\ m.len = m.op + 2)
    BY <1>3, <1>5
  <2>2. CASE d = b
    <3>1. /\ d \in Conns /\ SlotOK(d) /\ (Requesting(d) => Requesting(b))
          /\ d.coc # None /\ d.granted = b.granted /\ d.stray = b.stray
          /\ Own(d) = Own(b)
      BY <2>2
    <3> QED BY <2>1, <3>1 DEF d
  <2>3. CASE \E len, total \in Nat : d = WithSdu(b, len, total)
    BY <1>1, <2>1, <2>3 DEF d
  <2> QED BY <1>3, <1>5, <2>2, <2>3
<1> QED BY <1>4, <1>5

(***************************************************************************)
(* An SDU: the credit spent on it is on its way back, in the slot of the   *)
(* receiver.                                                               *)
(***************************************************************************)
LEMMA SduHeard ==
    ASSUME NEW a, NEW b, Pair(a, b), a.tx_pending, a.tx_cid = Channel, b.coc # None
    PROVE  Pair(Sent(a), rx_coc_sdu(b, a.tx_att))
<1> DEFINE s == Sent(a)
           m == a.tx_att
           d == rx_coc_sdu(b, m)
<1>1. /\ a \in Conns /\ b \in Conns /\ SlotOK(a) /\ SlotOK(b) /\ Account(a, b) /\ Account(b, a)
      /\ Pair(b, a) /\ m \in Messages
  BY DEF Pair, Conns
<1>2. ~HoldsCredit(a)
  BY DEF HoldsCredit, Signaling, Channel
<1>3. Own(a) \in Nat /\ Owed(a) \in Nat /\ Own(b) \in Nat /\ Owed(b) \in Nat
  BY <1>1, Sums
<1>4. /\ s \in Conns /\ SlotOK(s) /\ ~Requesting(s)
      /\ s.coc = a.coc /\ s.granted = a.granted /\ s.stray = a.stray
      /\ Own(s) = Own(a) - One(HoldsSdu(a)) /\ Owed(s) = Owed(a)
  <2>1. Owed(s) = Owed(a) - One(HoldsCredit(a))
    BY <1>1, SentAccount
  <2>2. One(HoldsCredit(a)) = 0
    BY <1>2 DEF One
  <2>3. Owed(s) = Owed(a)
    BY <1>3, <2>1, <2>2
  <2> QED BY <1>1, <2>3, SentAccount
<1>5. ~a.stray => /\ HoldsSdu(a) /\ m.second = 0 /\ m.len = m.op + 2 /\ b.coc.rx_sdu_len = 0
                  /\ Own(a) + Owed(b) = a.granted
  BY <1>1 DEF SlotOK, Account
<1>6. /\ d \in Conns /\ SlotOK(d) /\ (Requesting(d) => Requesting(b))
      /\ d.coc # None /\ d.granted = b.granted /\ d.stray = b.stray /\ Own(d) = Own(b)
      /\ ~a.stray => d.coc.rx_sdu_len = 0 /\ Owed(d) = Owed(b) + 1
  BY <1>1, <1>5, SduAccount
<1> HIDE DEF s, m, d
<1>7. Account(s, d)
  <2>1. ~a.stray => Own(s) + Owed(d) = a.granted
    <3>1. ~a.stray => One(HoldsSdu(a)) = 1
      BY <1>5 DEF One
    <3> QED BY <1>3, <1>4, <1>5, <1>6, <3>1
  <2> QED BY <1>1, <1>4, <1>6, <2>1 DEF Account
<1>8. Account(d, s)
  BY <1>1, <1>4, <1>6 DEF Account
<1>9. Pair(s, d)
  BY <1>4, <1>6, <1>7, <1>8 DEF Pair
<1> QED BY <1>9 DEF s, d, m

(***************************************************************************)
(* A channel response changes whose channel it is, and no account.         *)
(***************************************************************************)
LEMMA OpenedQuiet ==
    ASSUME NEW b \in Conns, SlotOK(b), NEW m \in Messages
    PROVE  Quiet(b, Opened(b, m))
<1>1. CASE b.coc = None
  <2>1. Opened(b, m) = b
    BY <1>1 DEF Opened
  <2>2. Quiet(b, b)
    BY SameQuiet
  <2> QED BY <2>1, <2>2
<1>2. CASE b.coc # None
  <2> DEFINE coc == [b.coc EXCEPT !.peer_cid = m.arg, !.peer_credits = COC_CREDITS]
             d   == [b EXCEPT !.coc = coc]
  <2>1. Opened(b, m) = d
    BY <1>2 DEF Opened, Conns
  <2>2. b.coc \in Cocs /\ m.arg \in Nat /\ COC_CREDITS \in Nat
    BY <1>2, Constants DEF Conns, Messages
  <2>3. /\ coc \in Cocs /\ coc.credits = b.coc.credits
        /\ coc.rx_sdu_len = b.coc.rx_sdu_len
    BY <2>2 DEF Cocs
  <2>4. coc # None
    BY <2>3, Constants
  <2> HIDE DEF coc
  <2>5. /\ d \in Conns /\ d.tx_pending = b.tx_pending /\ d.tx_cid = b.tx_cid
        /\ d.tx_att = b.tx_att /\ d.granted = b.granted /\ d.stray = b.stray
        /\ d.gone = b.gone /\ d.peer_gone = b.peer_gone /\ d.coc = coc
    BY <2>3 DEF Conns
  <2> HIDE DEF d
  <2>6. SlotOK(d) /\ (Requesting(d) => Requesting(b)) /\ Owed(d) = Owed(b)
    BY <2>5 DEF SlotOK, Requesting, Owed, HoldsSdu, HoldsCredit
  <2>7. Own(d) = Own(b)
    <3>1. Credits(d) = Credits(b)
      BY <1>2, <2>3, <2>4, <2>5 DEF Credits
    <3> QED BY <2>5, <3>1 DEF Own, HoldsSdu
  <2>8. Quiet(b, d)
    BY <1>2, <2>3, <2>4, <2>5, <2>6, <2>7 DEF Quiet
  <2> QED BY <2>1, <2>8
<1> QED BY <1>1, <1>2

(***************************************************************************)
(* A packet that is heard keeps the accounts of both ends.                 *)
(***************************************************************************)
LEMMA HeardPair ==
    ASSUME NEW a, NEW b, Pair(a, b)
    PROVE  Pair(Sent(a), Heard(b, a))
<1> DEFINE m == a.tx_att
<1>1. /\ a \in Conns /\ b \in Conns /\ SlotOK(a) /\ SlotOK(b) /\ m \in Messages
      /\ a.tx_cid \in Cids /\ a.tx_pending \in BOOLEAN
  BY DEF Pair, Conns
<1>2. ASSUME ~HoldsCredit(a), ~a.stray => ~HoldsSdu(a), Quiet(b, Heard(b, a))
      PROVE  Pair(Sent(a), Heard(b, a))
  <2>1. Quiet(a, Sent(a))
    BY <1>1, <1>2, SentQuiet
  <2>2. Pair(b, Sent(a))
    BY <2>1, QuietPair
  <2> QED BY <1>2, <2>2, QuietPair
<1>3. Quiet(b, b)
  BY <1>1, SameQuiet
<1>4. CASE ~a.tx_pending
  <2>1. ~HoldsCredit(a) /\ ~HoldsSdu(a) /\ Heard(b, a) = b
    BY <1>4 DEF HoldsCredit, HoldsSdu, Heard
  <2> QED BY <1>2, <1>3, <2>1
<1>5. CASE a.tx_pending /\ a.tx_cid = Att
  <2>1. ~HoldsCredit(a) /\ ~HoldsSdu(a)
    BY <1>5 DEF HoldsCredit, HoldsSdu, Att, Signaling, Channel
  <2>2. Heard(b, a) = handle_att(b, m)
    BY <1>5 DEF Heard, handle_l2cap, Att, Signaling, Channel
  <2>3. Quiet(b, handle_att(b, m))
    BY <1>1, HandleAttQuiet
  <2> QED BY <1>2, <2>1, <2>2, <2>3
<1>6. CASE a.tx_pending /\ a.tx_cid = Signaling
  <2>1. ~HoldsSdu(a) /\ Heard(b, a) = handle_le_signaling(b, m)
    BY <1>6 DEF HoldsSdu, Heard, handle_l2cap, Att, Signaling, Channel
  <2>2. m.op \in AttOps \cup {LE_CREDIT_BASED_CONNECTION_REQ,
             LE_CREDIT_BASED_CONNECTION_RSP, LE_FLOW_CONTROL_CREDIT}
    BY <1>1, <1>6 DEF SlotOK
  <2> USE DEF LE_CREDIT_BASED_CONNECTION_REQ, LE_CREDIT_BASED_CONNECTION_RSP,
              LE_FLOW_CONTROL_CREDIT, LE_CREDIT_BASED_CONNECTION_END
  <2>3. CASE m.op \in AttOps
    <3>1. m.op \notin {20, 21, 22, 23}
      BY <2>3 DEF AttOps, AnswerOps, RequestOps, ErrorRsp, ExchangeMtuRsp, FindInfoRsp,
         ReadByTypeReq, ReadByTypeRsp, ReadReq, ReadRsp, ReadBlobRsp, ReadByGroupReq,
         ReadByGroupRsp, WriteReq, WriteRsp, Notification
    <3>2. ~HoldsCredit(a) /\ handle_le_signaling(b, m) = b
      BY <3>1 DEF HoldsCredit, handle_le_signaling
    <3> QED BY <1>2, <1>3, <2>1, <3>2
  <2>4. CASE m.op = LE_CREDIT_BASED_CONNECTION_REQ
    <3>1. handle_le_signaling(b, m) = Accept(b)
      BY <2>4 DEF handle_le_signaling
    <3>2. Requesting(a)
      BY <1>6, <2>4 DEF Requesting
    <3> QED BY <2>1, <3>1, <3>2, RequestHeard
  <2>5. CASE m.op = LE_CREDIT_BASED_CONNECTION_RSP
    <3>1. ~HoldsCredit(a) /\ handle_le_signaling(b, m) = Opened(b, m)
      BY <2>5 DEF HoldsCredit, handle_le_signaling
    <3>2. Quiet(b, Opened(b, m))
      BY <1>1, OpenedQuiet
    <3> QED BY <1>2, <2>1, <3>1, <3>2
  <2>6. CASE m.op = LE_FLOW_CONTROL_CREDIT
    <3>1. handle_le_signaling(b, m) = Credited(b, m)
      BY <2>6 DEF handle_le_signaling
    <3>2. HoldsCredit(a)
      BY <1>6, <2>6 DEF HoldsCredit
    <3> QED BY <2>1, <3>1, <3>2, CreditHeard
  <2> QED BY <2>2, <2>3, <2>4, <2>5, <2>6
<1>7. CASE a.tx_pending /\ a.tx_cid = Channel
  <2>1. ~HoldsCredit(a) /\ Heard(b, a) = IF b.coc = None THEN b ELSE rx_coc_sdu(b, m)
    BY <1>7 DEF HoldsCredit, Heard, handle_l2cap, Att, Signaling, Channel
  <2>2. CASE b.coc = None
    <3>1. ~a.stray => ~HoldsSdu(a)
      <4>1. a.granted = 0
        BY <2>2 DEF Pair, Account
      <4>2. ~a.stray => Own(a) = 0 /\ Credits(a) \in Nat /\ a.gone \in Nat
        BY <4>1, Sums
      <4> QED BY <4>2 DEF Own, One
    <3> QED BY <1>2, <1>3, <2>1, <2>2, <3>1
  <2>3. CASE b.coc # None
    BY <1>7, <2>1, <2>3, SduHeard
  <2> QED BY <2>2, <2>3
<1> QED
  BY <1>1, <1>4, <1>5, <1>6, <1>7 DEF Cids

-----------------------------------------------------------------------------
(* The calls of the application                                            *)

\* The end c after one of the calls
Requested(c, e, m) ==
    [queue_att(c, [m EXCEPT !.ref = <<e, c.asked + 1>>])
        EXCEPT !.pending_request = TRUE, !.asked = c.asked + 1]

Polled(c) == [c EXCEPT !.gatt_result = None]

Connecting(c) ==
    queue_signaling([c EXCEPT !.coc = NewCoc],
        [Msg(LE_CREDIT_BASED_CONNECTION_REQ, 0, 12) EXCEPT !.arg = COC_LOCAL_CID])

Sdu(len) == [Msg(len, 0, len + 2) EXCEPT !.ref = <<"SDU">>]

Sending(c, len) == [Queued(c, Channel, Sdu(len)) EXCEPT !.coc.credits = @ - 1]

\* A call takes the end c, which is e, to d.
Called(e, c, d) ==
    \/ d = queue_att(c, Msg(Notification, HANDLE_TX_VALUE, 4))
    \/ /\ Paced => ~c.pending_request /\ c.gatt_result = None
       /\ \E m \in GattRequests : d = Requested(c, e, m)
    \/ d = Polled(c)
    \/ c.coc = None /\ d = Connecting(c)
    \/ /\ c.coc # None /\ c.coc.credits > 0
       /\ \E len \in SduLengths : d = Sending(c, len)

(***************************************************************************)
(* Every step is a connection event, a call, or nothing.                   *)
(***************************************************************************)
LEMMA EveryStep ==
    ASSUME [Next]_vars, DOMAIN conn = Ends
    PROVE  \/ Event
           \/ \E e \in Ends : \E d : Called(e, conn[e], d) /\ conn' = [conn EXCEPT ![e] = d]
           \/ UNCHANGED conn
<1>1. ASSUME NEW e \in Ends, conn_send(e)
      PROVE  \E d : Called(e, conn[e], d) /\ conn' = [conn EXCEPT ![e] = d]
  BY <1>1 DEF conn_send, Call, Called
<1>2. ASSUME NEW e \in Ends, gatt_send_request(e)
      PROVE  \E d : Called(e, conn[e], d) /\ conn' = [conn EXCEPT ![e] = d]
  <2>1. PICK m \in GattRequests : conn' = [conn EXCEPT ![e] = Requested(conn[e], e, m)]
    BY <1>2 DEF gatt_send_request, Call, Requested
  <2> QED BY <1>2, <2>1 DEF gatt_send_request, Called
<1>3. ASSUME NEW e \in Ends, gatt_poll(e)
      PROVE  \E d : Called(e, conn[e], d) /\ conn' = [conn EXCEPT ![e] = d]
  <2>1. conn' = [conn EXCEPT ![e] = Polled(conn[e])]
    BY <1>3 DEF gatt_poll, Polled
  <2> QED BY <2>1 DEF Called
<1>4. ASSUME NEW e \in Ends, l2cap_connect(e)
      PROVE  \E d : Called(e, conn[e], d) /\ conn' = [conn EXCEPT ![e] = d]
  <2>1. conn[e].coc = None /\ conn' = [conn EXCEPT ![e] = Connecting(conn[e])]
    BY <1>4 DEF l2cap_connect, Call, Connecting
  <2> QED BY <2>1 DEF Called
<1>5. ASSUME NEW e \in Ends, l2cap_send(e)
      PROVE  \E d : Called(e, conn[e], d) /\ conn' = [conn EXCEPT ![e] = d]
  <2>1. PICK len \in SduLengths : conn' = [conn EXCEPT ![e] = Sending(conn[e], len)]
    BY <1>5 DEF l2cap_send, Call, Sending, Sdu
  <2> QED BY <1>5, <2>1 DEF l2cap_send, Called
<1> QED
  BY <1>1, <1>2, <1>3, <1>4, <1>5 DEF Next, vars

(***************************************************************************)
(* The requests of the client.                                             *)
(***************************************************************************)
LEMMA RequestFields ==
    ASSUME NEW m \in GattRequests, NEW e \in Ends, NEW n \in Nat
    PROVE  LET r == [m EXCEPT !.ref = <<e, n>>]
           IN  r \in Messages /\ r.op \in RequestOps /\ r.ref = <<e, n>>
<1>1. ReadHandles \subseteq Nat
  BY Constants
<1>2. <<e, n>> \in Refs
  BY DEF Refs
<1>3. m \in Messages /\ m.op \in RequestOps
  <2> USE DEF Msg, Messages, Refs, RequestOps, ReadByGroupReq, ReadByTypeReq, ReadReq, WriteReq,
              HANDLE_RX_VALUE, HANDLE_TX_CCCD
  <2>1. CASE m = Msg(ReadByGroupReq, 0, 7)
    BY <2>1
  <2>2. CASE \E k \in {0, 1} : m = [Msg(ReadByTypeReq, 3, 7) EXCEPT !.arg = k]
    BY <2>2
  <2>3. CASE \E h \in ReadHandles : m = Msg(ReadReq, h, 3)
    BY <1>1, <2>3
  <2>4. CASE \/ m = Msg(WriteReq, HANDLE_RX_VALUE, 4)
             \/ m = [Msg(WriteReq, HANDLE_TX_CCCD, 5) EXCEPT !.arg = 1]
    BY <2>4
  <2> QED BY <2>1, <2>2, <2>3, <2>4 DEF GattRequests
<1> QED BY <1>2, <1>3 DEF Messages

(***************************************************************************)
(* An end after a request.                                                 *)
(***************************************************************************)
LEMMA RequestedFields ==
    ASSUME NEW c \in Conns, NEW m \in GattRequests, NEW e \in Ends
    PROVE  LET d == Requested(c, e, m)
           IN  /\ d \in Conns /\ d.tx_pending = TRUE /\ d.tx_cid = c.tx_cid
               /\ d.tx_att.ref = <<e, c.asked + 1>> /\ d.tx_att.op \in RequestOps
               /\ d.pending_request = TRUE /\ d.asked = c.asked + 1
               /\ d.gatt_result = c.gatt_result
               /\ Quiet(c, d)
<1> DEFINE r == [m EXCEPT !.ref = <<e, c.asked + 1>>]
           q == queue_att(c, r)
           d == [q EXCEPT !.pending_request = TRUE, !.asked = c.asked + 1]
<1>1. c.asked + 1 \in Nat
  BY DEF Conns
<1>2. r \in Messages /\ r.op \in RequestOps /\ r.ref = <<e, c.asked + 1>>
  BY <1>1, RequestFields
<1> HIDE DEF r
<1>3. q \in Conns /\ q.tx_pending = TRUE /\ q.tx_cid = c.tx_cid /\ q.tx_att = r /\ Rest(q) = Rest(c)
  BY <1>2, AttFields
<1>4. Quiet(c, q)
  BY <1>2, AttQuiet DEF AttOps
<1> HIDE DEF q
<1>5. /\ d \in Conns /\ d.tx_pending = q.tx_pending /\ d.tx_cid = q.tx_cid /\ d.tx_att = q.tx_att
      /\ d.coc = q.coc /\ d.granted = q.granted /\ d.stray = q.stray
      /\ d.gone = q.gone /\ d.peer_gone = q.peer_gone
      /\ d.pending_request = TRUE /\ d.asked = c.asked + 1 /\ d.gatt_result = q.gatt_result
  BY <1>1, <1>3 DEF Conns
<1> HIDE DEF d
<1>6. Quiet(q, d)
  BY <1>3, <1>4, <1>5, SameQuiet DEF Quiet
<1>7. Quiet(c, d)
  BY <1>4, <1>6, QuietTrans
<1>8. q.gatt_result = c.gatt_result
  BY <1>3 DEF Rest
<1> QED BY <1>2, <1>3, <1>5, <1>7, <1>8 DEF d, q, r, Requested

(***************************************************************************)
(* An end after an SDU was queued: a credit has moved to the slot.         *)
(***************************************************************************)
LEMMA SendingFields ==
    ASSUME NEW c \in Conns, NEW len \in SduLengths
    PROVE  c.coc # None /\ c.coc.credits > 0 =>
           LET d == Sending(c, len)
           IN  /\ d \in Conns /\ d.tx_pending = TRUE /\ d.tx_cid = Channel
               /\ d.tx_att.ref = <<"SDU">> /\ Rest(d) = Rest(c)
               /\ Quiet(c, d)
<1> DEFINE m == Sdu(len)
           q == Queued(c, Channel, m)
           coc == [q.coc EXCEPT !.credits = q.coc.credits - 1]
           d == [q EXCEPT !.coc = coc]
<1>1. len \in Nat
  BY Constants
<1>2. /\ m \in Messages /\ m.ref = <<"SDU">> /\ m.second = 0 /\ m.op = len
      /\ m.len = m.op + 2
  BY <1>1 DEF Sdu, Msg, Messages, Refs
<1> HIDE DEF m
<1>3. /\ q \in Conns /\ q.tx_pending = TRUE /\ q.tx_cid = Channel /\ q.tx_att = m
      /\ q.coc = c.coc /\ q.granted = c.granted /\ q.stray = c.stray
      /\ q.gone = c.gone + One(HoldsSdu(c)) /\ q.peer_gone = c.peer_gone + One(HoldsCredit(c))
      /\ Rest(q) = Rest(c)
  <2>1. Channel \in Cids
    BY DEF Cids
  <2>2. m \in Messages
    BY <1>2
  <2> QED BY <2>1, <2>2, QueuedFields, ZenonT(60)
<1> HIDE DEF q
<1> HAVE c.coc # None /\ c.coc.credits > 0
<1>4. Sending(c, len) = d
  <2>1. Sending(c, len) = [q EXCEPT !.coc.credits = @ - 1]
    BY DEF Sending, q, m
  <2> QED BY <1>3, <2>1 DEF Conns
<1>5. q.coc \in Cocs /\ q.coc.credits \in Nat /\ q.coc.credits - 1 \in Nat
  <2>1. c.coc \in Cocs /\ c.coc.credits \in Nat
    BY DEF Conns, Cocs
  <2> QED BY <1>3, <2>1
<1>6. coc \in Cocs /\ coc.credits = c.coc.credits - 1 /\ coc.rx_sdu_len = c.coc.rx_sdu_len
  BY <1>3, <1>5 DEF Cocs
<1>7. coc # None
  BY <1>6, Constants
<1> HIDE DEF coc
<1>8. /\ d \in Conns /\ d.tx_pending = TRUE /\ d.tx_cid = Channel /\ d.tx_att = m
      /\ d.coc = coc /\ d.granted = c.granted /\ d.stray = c.stray
      /\ d.gone = c.gone + One(HoldsSdu(c)) /\ d.peer_gone = c.peer_gone + One(HoldsCredit(c))
      /\ Rest(d) = Rest(c)
  <2>1. /\ d \in Conns /\ d.tx_pending = q.tx_pending /\ d.tx_cid = q.tx_cid /\ d.tx_att = q.tx_att
        /\ d.coc = coc /\ d.granted = q.granted /\ d.stray = q.stray
        /\ d.gone = q.gone /\ d.peer_gone = q.peer_gone /\ Rest(d) = Rest(q)
    BY <1>3, <1>6 DEF Conns, Rest
  <2> HIDE DEF d
  <2> QED BY <1>3, <2>1
<1> HIDE DEF d
<1>9. HoldsSdu(d) /\ ~HoldsCredit(d) /\ ~Requesting(d) /\ SlotOK(d)
  BY <1>2, <1>8 DEF HoldsSdu, HoldsCredit, Requesting, SlotOK, Signaling, Channel
<1>10. c.gone \in Nat /\ c.peer_gone \in Nat /\ One(HoldsSdu(c)) \in Nat
       /\ One(HoldsCredit(c)) \in Nat /\ c.coc.credits \in Nat
  BY DEF Conns, Cocs, One
<1>11. Own(d) = Own(c)
  <2>1. Credits(d) = c.coc.credits - 1 /\ Credits(c) = c.coc.credits
    BY <1>6, <1>7, <1>8 DEF Credits
  <2>2. One(HoldsSdu(d)) = 1
    BY <1>9 DEF One
  <2> QED BY <1>8, <1>10, <2>1, <2>2 DEF Own
<1>12. Owed(d) = Owed(c)
  <2>1. One(HoldsCredit(d)) = 0
    BY <1>9 DEF One
  <2> QED BY <1>8, <1>10, <2>1 DEF Owed
<1>13. Quiet(c, d)
  BY <1>6, <1>7, <1>8, <1>9, <1>11, <1>12 DEF Quiet
<1> QED BY <1>2, <1>4, <1>8, <1>13

(***************************************************************************)
(* An end after it has asked for a channel.                                *)
(***************************************************************************)
LEMMA ConnectingFields ==
    ASSUME NEW c \in Conns
    PROVE  c.coc = None =>
           LET d == Connecting(c)
           IN  /\ d \in Conns /\ d.tx_pending = TRUE /\ d.tx_cid = Signaling
               /\ d.tx_att.ref = << >> /\ Rest(d) = Rest(c)
               /\ SlotOK(d) /\ d.coc # None /\ d.coc.rx_sdu_len = 0
               /\ d.granted = c.granted /\ d.stray = c.stray
               /\ Own(d) = Own(c) /\ Owed(d) = Owed(c)
<1> DEFINE m == [Msg(LE_CREDIT_BASED_CONNECTION_REQ, 0, 12) EXCEPT !.arg = COC_LOCAL_CID]
           w == [c EXCEPT !.coc = NewCoc]
           d == Queued(w, Signaling, m)
<1>1. m \in Messages /\ m.ref = << >> /\ m.op = 20
  BY DEF Msg, Messages, Refs, LE_CREDIT_BASED_CONNECTION_REQ, COC_LOCAL_CID
<1>2. NewCoc \in Cocs /\ NewCoc.credits = 0 /\ NewCoc.rx_sdu_len = 0
  BY DEF NewCoc, Cocs
<1>3. NewCoc # None
  BY <1>2, Constants
<1>4. /\ w \in Conns /\ w.tx_pending = c.tx_pending /\ w.tx_cid = c.tx_cid /\ w.tx_att = c.tx_att
      /\ w.coc = NewCoc /\ w.granted = c.granted /\ w.stray = c.stray
      /\ w.gone = c.gone /\ w.peer_gone = c.peer_gone /\ Rest(w) = Rest(c)
  BY <1>2 DEF Conns, Rest
<1> HIDE DEF m, w
<1>5. One(HoldsSdu(w)) = One(HoldsSdu(c)) /\ One(HoldsCredit(w)) = One(HoldsCredit(c))
  BY <1>4 DEF HoldsSdu, HoldsCredit, One
<1>6. /\ d \in Conns /\ d.tx_pending = TRUE /\ d.tx_cid = Signaling /\ d.tx_att = m
      /\ d.coc = w.coc /\ d.granted = w.granted /\ d.stray = w.stray
      /\ d.gone = w.gone + One(HoldsSdu(w)) /\ d.peer_gone = w.peer_gone + One(HoldsCredit(w))
      /\ Rest(d) = Rest(w)
  <2>1. Signaling \in Cids
    BY DEF Cids
  <2>2. m \in Messages /\ w \in Conns
    BY <1>1, <1>4
  <2> QED BY <2>1, <2>2, QueuedFields, ZenonT(60)
<1> HIDE DEF d
<1> HAVE c.coc = None
<1>7. /\ d.coc = NewCoc /\ d.granted = c.granted /\ d.stray = c.stray /\ Rest(d) = Rest(c)
      /\ d.gone = c.gone + One(HoldsSdu(c)) /\ d.peer_gone = c.peer_gone + One(HoldsCredit(c))
  BY <1>4, <1>5, <1>6
<1>8. ~HoldsSdu(d) /\ ~HoldsCredit(d) /\ SlotOK(d)
  BY <1>1, <1>6 DEF HoldsSdu, HoldsCredit, SlotOK, Signaling, Channel,
     LE_FLOW_CONTROL_CREDIT, LE_CREDIT_BASED_CONNECTION_REQ
<1>9. c.gone \in Nat /\ c.peer_gone \in Nat /\ One(HoldsSdu(c)) \in Nat
      /\ One(HoldsCredit(c)) \in Nat
  BY DEF Conns, One
<1>10. Own(d) = Own(c)
  <2>1. Credits(d) = 0 /\ Credits(c) = 0
    BY <1>2, <1>3, <1>7 DEF Credits
  <2>2. One(HoldsSdu(d)) = 0
    BY <1>8 DEF One
  <2> QED BY <1>7, <1>9, <2>1, <2>2 DEF Own
<1>11. Owed(d) = Owed(c)
  <2>1. One(HoldsCredit(d)) = 0
    BY <1>8 DEF One
  <2> QED BY <1>7, <1>9, <2>1 DEF Owed
<1> QED
  BY <1>1, <1>2, <1>3, <1>6, <1>7, <1>8, <1>10, <1>11 DEF d, w, m, Connecting, queue_signaling

(***************************************************************************)
(* A call keeps the accounts of both ends.                                 *)
(***************************************************************************)
LEMMA CalledPair ==
    ASSUME NEW e \in Ends, NEW c, NEW p, NEW d, Pair(c, p), Called(e, c, d)
    PROVE  Pair(d, p) /\ Pair(p, d)
<1>1. c \in Conns /\ p \in Conns /\ SlotOK(c) /\ SlotOK(p) /\ Account(c, p) /\ Account(p, c)
  BY DEF Pair
<1>2. CASE Quiet(c, d)
  BY <1>2, QuietPair
<1>3. CASE d = queue_att(c, Msg(Notification, HANDLE_TX_VALUE, 4))
  <2>1. Msg(Notification, HANDLE_TX_VALUE, 4) \in Messages
        /\ Msg(Notification, HANDLE_TX_VALUE, 4).op \in AttOps
    BY DEF Msg, Messages, Refs, Notification, HANDLE_TX_VALUE, AttOps
  <2>2. Quiet(c, d)
    BY <1>1, <1>3, <2>1, AttQuiet
  <2> QED BY <1>2, <2>2
<1>4. CASE \E m \in GattRequests : d = Requested(c, e, m)
  <2>1. Quiet(c, d)
    BY <1>1, <1>4, RequestedFields
  <2> QED BY <1>2, <2>1
<1>5. CASE d = Polled(c)
  <2>1. /\ d \in Conns /\ d.tx_pending = c.tx_pending /\ d.tx_cid = c.tx_cid
        /\ d.tx_att = c.tx_att /\ d.coc = c.coc /\ d.granted = c.granted
        /\ d.stray = c.stray /\ d.gone = c.gone /\ d.peer_gone = c.peer_gone
    BY <1>1, <1>5 DEF Conns, Polled
  <2>2. Quiet(c, d)
    BY <1>1, <2>1, SameQuiet
  <2> QED BY <1>2, <2>2
<1>6. CASE c.coc = None /\ d = Connecting(c)
  <2>1. /\ d \in Conns /\ SlotOK(d) /\ d.coc # None /\ d.coc.rx_sdu_len = 0
        /\ d.granted = c.granted /\ d.stray = c.stray
        /\ Own(d) = Own(c) /\ Owed(d) = Owed(c)
    BY <1>1, <1>6, ConnectingFields
  <2>2. c.granted = 0 /\ p.granted = 0
    BY <1>1, <1>6 DEF Account
  <2>3. Account(d, p)
    BY <1>1, <2>1, <2>2 DEF Account
  <2>4. Account(p, d)
    BY <1>1, <2>1, <2>2 DEF Account
  <2> QED BY <1>1, <2>1, <2>3, <2>4 DEF Pair
<1>7. CASE c.coc # None /\ c.coc.credits > 0 /\ \E len \in SduLengths : d = Sending(c, len)
  <2>1. Quiet(c, d)
    BY <1>1, <1>7, SendingFields
  <2> QED BY <1>2, <2>1
<1> QED BY <1>3, <1>4, <1>5, <1>6, <1>7 DEF Called

(***************************************************************************)
(* Every credit granted is in an account, in a slot, or counted as lost,   *)
(* whatever is lost on the air or overwritten in a slot.                   *)
(***************************************************************************)
THEOREM NoCreditUnaccounted == Spec => []CreditsAccounted
<1>1. Init => CreditInv
  <2> SUFFICES ASSUME Init PROVE CreditInv
    OBVIOUS
  <2>1. conn = [e \in Ends |-> NewConn] /\ conn["Master"] = NewConn /\ conn["Slave"] = NewConn
    BY DEF Init, Ends
  <2>2. NewConn \in Conns /\ SlotOK(NewConn)
    BY DEF NewConn, Conns, Cids, Messages, Msg, Refs, SlotOK
  <2>3. Account(NewConn, NewConn)
    BY DEF Account, NewConn, Own, Owed, Credits, HoldsSdu, HoldsCredit, One, Requesting
  <2> QED BY <2>1, <2>2, <2>3 DEF CreditInv, Pair
<1>2. CreditInv /\ [Next]_vars => CreditInv'
  <2> SUFFICES ASSUME CreditInv, [Next]_vars PROVE CreditInv'
    OBVIOUS
  <2> DEFINE m == conn["Master"]
             s == conn["Slave"]
             slave == Heard(s, m)
  <2>1. DOMAIN conn = Ends /\ Pair(m, s) /\ Pair(s, m)
    BY DEF CreditInv, Pair
  <2>2. CASE Event
    <3>1. Pair(Sent(m), slave) /\ Pair(slave, Sent(m))
      BY <2>1, HeardPair DEF Pair
    <3>2. CASE EventBothHeard
      <4>1. conn' = [Master |-> Heard(Sent(m), slave), Slave |-> Sent(slave)]
        BY <3>2 DEF EventBothHeard
      <4>2. Pair(Sent(slave), Heard(Sent(m), slave))
        BY <3>1, HeardPair
      <4> QED BY <4>1, <4>2 DEF CreditInv, Pair, Ends
    <3>3. CASE EventAnswerLost
      <4>1. conn' = [Master |-> Sent(m), Slave |-> Lost(slave)]
        BY <3>3 DEF EventAnswerLost
      <4>2. Quiet(slave, Lost(slave))
        BY <3>1, LostQuiet DEF Pair
      <4>3. Pair(Sent(m), Lost(slave))
        BY <3>1, <4>2, QuietPair
      <4> QED BY <4>1, <4>3 DEF CreditInv, Ends
    <3>4. CASE EventUnheard
      <4>1. conn' = [conn EXCEPT !["Master"] = Lost(m)]
        BY <3>4 DEF EventUnheard
      <4>2. Quiet(m, Lost(m))
        BY <2>1, LostQuiet DEF Pair
      <4>3. Pair(Lost(m), s)
        BY <2>1, <4>2, QuietPair
      <4> QED BY <2>1, <4>1, <4>3 DEF CreditInv, Ends
    <3> QED BY <2>2, <3>2, <3>3, <3>4 DEF Event
  <2>3. ASSUME NEW e \in Ends, NEW d, Called(e, conn[e], d), conn' = [conn EXCEPT ![e] = d]
        PROVE  CreditInv'
    <3>1. CASE e = "Master"
      <4>1. Pair(d, s)
        BY <2>1, <2>3, <3>1, CalledPair
      <4> QED BY <2>1, <2>3, <3>1, <4>1 DEF CreditInv, Ends
    <3>2. CASE e = "Slave"
      <4>1. Pair(m, d)
        BY <2>1, <2>3, <3>2, CalledPair
      <4> QED BY <2>1, <2>3, <3>2, <4>1 DEF CreditInv, Ends
    <3> QED BY <3>1, <3>2 DEF Ends
  <2>4. CASE UNCHANGED conn
    BY <2>4 DEF CreditInv
  <2> QED BY <2>1, <2>2, <2>3, <2>4, EveryStep
<1>3. CreditInv => CreditsAccounted
  <2> SUFFICES ASSUME CreditInv, NEW e \in Ends, conn[e].coc # None, ~conn[e].stray
               PROVE  LET c == conn[e]
                          p == conn[Peer(e)]
                      IN  c.coc.credits + One(HoldsSdu(c)) + One(HoldsCredit(p)) + c.gone
                            + p.peer_gone = c.granted
    BY DEF CreditsAccounted
  <2> DEFINE c == conn[e]
             p == conn[Peer(e)]
  <2>1. Pair(c, p)
    BY DEF CreditInv, Pair, Ends, Peer
  <2> HIDE DEF c, p
  <2>2. Credits(c) = c.coc.credits
    BY DEF Credits, c
  <2>3. /\ Credits(c) \in Nat /\ c.gone \in Nat /\ p.peer_gone \in Nat
        /\ One(HoldsSdu(c)) \in Nat /\ One(HoldsCredit(p)) \in Nat
        /\ Own(c) + Owed(p) = c.granted
    BY <2>1, Sums DEF c
  <2> QED BY <2>2, <2>3 DEF Own, Owed, c, p
<1> QED
  BY <1>1, <1>2, <1>3, PTL DEF Spec

-----------------------------------------------------------------------------
(* Requests and answers                                                    *)

(***************************************************************************)
(* A message without a request concerns no end, and no message both.       *)
(***************************************************************************)
LEMMA RefsDiffer ==
    /\ \A e \in Ends : << >> \notin {e} \X Nat /\ <<"SDU">> \notin {e} \X Nat
    /\ \A e, f \in Ends, n \in Nat : <<e, n>> \in {f} \X Nat <=> e = f
    /\ \A e \in Ends : Peer(e) \in Ends /\ Peer(e) # e /\ Peer(Peer(e)) = e
    /\ \A e, f \in Ends : f = e \/ f = Peer(e)
BY DEF Ends, Peer

(***************************************************************************)
(* The invariant does not depend on which end is named first.              *)
(***************************************************************************)
LEMMA ThreadsSwap ==
    ASSUME NEW e \in Ends, NEW c, NEW p, Threads(e, c, p)
    PROVE  Threads(Peer(e), p, c)
BY RefsDiffer DEF Threads

\* A change that neither makes nor takes an answer
SlotSilent(c, d) ==
    \/ ~d.tx_pending
    \/ d.tx_pending = c.tx_pending /\ d.tx_cid = c.tx_cid /\ d.tx_att = c.tx_att
    \/ /\ d.tx_att.ref \in {<< >>, <<"SDU">>}
       /\ d.tx_cid = Att => d.tx_att.op = Notification

Silent(c, d) ==
    /\ d \in Conns /\ SlotSilent(c, d)
    /\ d.pending_request = c.pending_request /\ d.asked = c.asked
    /\ d.gatt_result = c.gatt_result \/ d.gatt_result = None

(***************************************************************************)
(* It keeps the invariant.                                                 *)
(***************************************************************************)
LEMMA SilentThreads ==
    ASSUME NEW e \in Ends, NEW c, NEW p, NEW d, Threads(e, c, p), Silent(c, d)
    PROVE  Threads(e, d, p)
<1>1. ASSUME NEW f \in Ends, Concerns(d, f)
      PROVE  Concerns(c, f) /\ d.tx_att = c.tx_att
  <2>1. d.tx_pending /\ d.tx_att.ref \in {f} \X Nat
    BY <1>1 DEF Concerns
  <2>2. d.tx_att.ref \notin {<< >>, <<"SDU">>}
    <3>1. << >> \notin {f} \X Nat /\ <<"SDU">> \notin {f} \X Nat
      BY RefsDiffer, Zenon
    <3> QED BY ONLY <2>1, <3>1, Zenon
  <2>3. d.tx_pending = c.tx_pending /\ d.tx_att = c.tx_att
    BY <2>1, <2>2 DEF Silent, SlotSilent
  <2> QED BY <2>1, <2>3 DEF Concerns
<1>2. Thread(e, d, p)
  <2>1. d.tx_pending /\ d.tx_cid = Att =>
          d.tx_att.op = Notification \/ Concerns(d, "Master") \/ Concerns(d, "Slave")
    BY DEF Threads, Thread, Silent, SlotSilent, Concerns
  <2>2. d.pending_request = c.pending_request /\ d.asked = c.asked
        /\ (d.gatt_result = c.gatt_result \/ d.gatt_result = None)
    BY DEF Silent
  <2> QED BY <1>1, <2>1, <2>2 DEF Threads, Thread
<1>3. Thread(Peer(e), p, d)
  <2>1. Peer(e) \in Ends
    BY RefsDiffer
  <2> QED BY <1>1, <2>1 DEF Threads, Thread
<1> QED BY <1>2, <1>3 DEF Threads, Silent

(***************************************************************************)
(* Queueing a message that is no answer, and losing or sending one.        *)
(***************************************************************************)
LEMMA SlotSilentSteps ==
    ASSUME NEW c \in Conns
    PROVE  /\ Silent(c, c) /\ Silent(c, Sent(c)) /\ Silent(c, Lost(c))
           /\ \A m \in Messages : m.ref = << >> => Silent(c, Queued(c, Signaling, m))
<1>1. Silent(c, c)
  BY DEF Silent, SlotSilent
<1>2. Silent(c, Sent(c))
  BY SentFields DEF Silent, SlotSilent, Rest
<1>3. Silent(c, Lost(c))
  BY LostFields DEF Silent, SlotSilent, Rest
<1>4. ASSUME NEW m \in Messages, m.ref = << >>
      PROVE  Silent(c, Queued(c, Signaling, m))
  <2> DEFINE q == Queued(c, Signaling, m)
  <2>1. Signaling \in Cids /\ Signaling # Att
    BY DEF Cids, Signaling, Att
  <2>2. q \in Conns /\ q.tx_cid = Signaling /\ q.tx_att = m /\ Rest(q) = Rest(c)
    BY <2>1, QueuedFields
  <2> HIDE DEF q
  <2>3. Silent(c, q)
    BY <1>4, <2>1, <2>2 DEF Silent, SlotSilent, Rest
  <2> QED BY <2>3 DEF q
<1> QED BY <1>1, <1>2, <1>3, <1>4

(***************************************************************************)
(* Changing no more than the channel or the subscription.                  *)
(***************************************************************************)
LEMMA SameSilent ==
    ASSUME NEW c \in Conns, NEW d \in Conns, d.tx_pending = c.tx_pending,
           d.tx_cid = c.tx_cid, d.tx_att = c.tx_att, d.pending_request = c.pending_request,
           d.asked = c.asked, d.gatt_result = c.gatt_result
    PROVE  Silent(c, d)
BY DEF Silent, SlotSilent

(***************************************************************************)
(* Such changes add up.                                                    *)
(***************************************************************************)
LEMMA SilentTrans ==
    ASSUME NEW c, NEW d, NEW e, Silent(c, d), Silent(d, e)
    PROVE  Silent(c, e)
BY DEF Silent, SlotSilent

(***************************************************************************)
(* What is heard on the other channels makes and takes no answer.          *)
(***************************************************************************)
LEMMA OtherChannelSilent ==
    ASSUME NEW b \in Conns, NEW m \in Messages
    PROVE  /\ Silent(b, handle_le_signaling(b, m))
           /\ b.coc # None => Silent(b, rx_coc_sdu(b, m))
<1>1. Silent(b, b)
  BY SlotSilentSteps
<1>2. Silent(b, Accept(b))
  <2> DEFINE coc == [NewCoc EXCEPT !.peer_cid = COC_LOCAL_CID, !.credits = COC_CREDITS]
             w == [b EXCEPT !.coc = coc, !.granted = COC_CREDITS]
             k == [Msg(LE_CREDIT_BASED_CONNECTION_RSP, 0, 12) EXCEPT !.arg = COC_LOCAL_CID]
  <2>1. COC_CREDITS \in Nat
    BY Constants
  <2>2. coc \in Cocs
    BY <2>1 DEF NewCoc, Cocs, COC_LOCAL_CID
  <2>3. k \in Messages /\ k.ref = << >>
    BY DEF Msg, Messages, Refs, LE_CREDIT_BASED_CONNECTION_RSP, COC_LOCAL_CID
  <2> HIDE DEF coc, k
  <2>4. /\ w \in Conns /\ w.tx_pending = b.tx_pending /\ w.tx_cid = b.tx_cid
        /\ w.tx_att = b.tx_att /\ w.pending_request = b.pending_request
        /\ w.asked = b.asked /\ w.gatt_result = b.gatt_result
    BY <2>1, <2>2 DEF Conns
  <2> HIDE DEF w
  <2>5. Silent(b, w) /\ Silent(w, Queued(w, Signaling, k))
    BY <2>3, <2>4, SameSilent, SlotSilentSteps
  <2>6. Silent(b, Queued(w, Signaling, k))
    BY <2>5, SilentTrans
  <2> QED BY <2>6 DEF Accept, queue_signaling, w, coc, k
<1>3. ASSUME NEW coc \in Cocs
      PROVE  Silent(b, [b EXCEPT !.coc = coc])
  <2> DEFINE w == [b EXCEPT !.coc = coc]
  <2>1. /\ w \in Conns /\ w.tx_pending = b.tx_pending /\ w.tx_cid = b.tx_cid
        /\ w.tx_att = b.tx_att /\ w.pending_request = b.pending_request
        /\ w.asked = b.asked /\ w.gatt_result = b.gatt_result
    BY DEF Conns
  <2> HIDE DEF w
  <2>2. Silent(b, w)
    BY <2>1, SameSilent
  <2> QED BY <2>2 DEF w
<1>4. Silent(b, Opened(b, m))
  <2>1. CASE b.coc = None
    BY <1>1, <2>1 DEF Opened
  <2>2. CASE b.coc # None
    <3> DEFINE coc == [b.coc EXCEPT !.peer_cid = m.arg, !.peer_credits = COC_CREDITS]
    <3>1. Opened(b, m) = [b EXCEPT !.coc = coc]
      BY <2>2 DEF Opened, Conns
    <3>2. b.coc \in Cocs /\ m.arg \in Nat /\ COC_CREDITS \in Nat
      BY <2>2, Constants DEF Conns, Messages
    <3>3. coc \in Cocs
      BY <3>2 DEF Cocs
    <3> QED BY <1>3, <3>1, <3>3
  <2> QED BY <2>1, <2>2
<1>5. Silent(b, Credited(b, m))
  <2>1. CASE b.coc = None
    BY <1>1, <2>1 DEF Credited
  <2>2. CASE b.coc # None /\ m.arg \in {COC_LOCAL_CID, b.coc.peer_cid}
    <3> DEFINE n == Lesser(b.coc.credits + 1, U16_MAX)
               coc == [b.coc EXCEPT !.credits = n]
    <3>1. Credited(b, m) = [b EXCEPT !.coc = coc]
      BY <2>2 DEF Credited
    <3>2. b.coc \in Cocs /\ n \in Nat
      BY <2>2, Constants DEF Conns, Cocs, Lesser
    <3>3. coc \in Cocs
      BY <3>2 DEF Cocs
    <3> QED BY <1>3, <3>1, <3>3
  <2>3. CASE b.coc # None /\ m.arg \notin {COC_LOCAL_CID, b.coc.peer_cid}
    <3> DEFINE w == [b EXCEPT !.gone = b.gone + 1]
    <3>1. Credited(b, m) = w
      BY <2>3 DEF Credited
    <3>2. b.gone + 1 \in Nat
      BY DEF Conns
    <3>3. /\ w \in Conns /\ w.tx_pending = b.tx_pending /\ w.tx_cid = b.tx_cid
          /\ w.tx_att = b.tx_att /\ w.pending_request = b.pending_request
          /\ w.asked = b.asked /\ w.gatt_result = b.gatt_result
      BY <3>2 DEF Conns
    <3> HIDE DEF w
    <3> QED BY <3>1, <3>3, SameSilent
  <2> QED BY <2>1, <2>2, <2>3
<1>6. Silent(b, Ended(b, m))
  <2> DEFINE w == [b EXCEPT !.coc = None]
  <2>1. /\ w \in Conns /\ w.tx_pending = b.tx_pending /\ w.tx_cid = b.tx_cid
        /\ w.tx_att = b.tx_att /\ w.pending_request = b.pending_request
        /\ w.asked = b.asked /\ w.gatt_result = b.gatt_result
    BY DEF Conns
  <2>2. Ended(b, m) = w \/ Ended(b, m) = b
    BY DEF Ended
  <2> HIDE DEF w
  <2> QED BY <1>1, <2>1, <2>2, SameSilent
<1>7. Silent(b, handle_le_signaling(b, m))
  <2>1. handle_le_signaling(b, m) \in {Accept(b), Opened(b, m), Credited(b, m), Ended(b, m), b}
    BY DEF handle_le_signaling, LE_CREDIT_BASED_CONNECTION_REQ, LE_CREDIT_BASED_CONNECTION_RSP,
       LE_FLOW_CONTROL_CREDIT, LE_CREDIT_BASED_CONNECTION_END
  <2> QED BY <1>1, <1>2, <1>4, <1>5, <1>6, <2>1
<1>8. ASSUME b.coc # None PROVE Silent(b, rx_coc_sdu(b, m))
  <2>1. ASSUME NEW len \in Nat, NEW total \in Nat
        PROVE  WithSdu(b, len, total) \in Conns /\ Silent(b, WithSdu(b, len, total))
    <3> DEFINE w == WithSdu(b, len, total)
    <3>1. /\ w \in Conns /\ w.tx_pending = b.tx_pending /\ w.tx_cid = b.tx_cid
          /\ w.tx_att = b.tx_att /\ Rest(w) = Rest(b)
      BY <1>8, WithSduFields
    <3> HIDE DEF w
    <3>2. Silent(b, w)
      BY <3>1, SameSilent DEF Rest
    <3> QED BY <3>1, <3>2 DEF w
  <2> DEFINE w == WithSdu(b, 0, 0)
             k == Credit(b)
  <2>2. w \in Conns /\ Silent(b, w) /\ k \in Messages /\ k.ref = << >>
    BY <1>8, <2>1, CreditFields
  <2> HIDE DEF w, k
  <2>3. Silent(w, Queued(w, Signaling, k))
    BY <2>2, SlotSilentSteps
  <2>4. Silent(b, Queued(w, Signaling, k))
    BY <2>2, <2>3, SilentTrans
  <2>5. \/ rx_coc_sdu(b, m) = Queued(w, Signaling, k)
        \/ rx_coc_sdu(b, m) = b
        \/ \E len, total \in Nat : rx_coc_sdu(b, m) = WithSdu(b, len, total)
    BY <1>8, SduFields DEF w, k
  <2> QED BY <1>1, <2>1, <2>4, <2>5
<1> QED BY <1>7, <1>8

(***************************************************************************)
(* A client's request is never taken for an answer.                        *)
(***************************************************************************)
LEMMA OpsDiffer ==
    /\ RequestOps \cap Responses = {}
    /\ RequestOps \cap {Notification, WriteCmd} = {}
    /\ Responses \cap {Notification, WriteCmd} = {}
BY DEF RequestOps, Responses, Notification, WriteCmd, ReadByGroupReq, ReadByTypeReq, ReadReq,
   WriteReq, ErrorRsp, ExchangeMtuRsp, ReadByTypeRsp, ReadRsp, ReadByGroupRsp, WriteRsp

(***************************************************************************)
(* An ATT message that is heard: the answer to the request of the receiver *)
(* is its result, and a request of the sender is answered.                 *)
(***************************************************************************)
LEMMA AttThreads ==
    ASSUME NEW e \in Ends, NEW a, NEW b, Threads(e, a, b), a.tx_pending, a.tx_cid = Att
    PROVE  Threads(e, Sent(a), handle_att(b, a.tx_att))
<1> DEFINE f == Peer(e)
           s == Sent(a)
           m == a.tx_att
           d == handle_att(b, m)
<1>1. /\ a \in Conns /\ b \in Conns /\ m \in Messages /\ f \in Ends /\ f # e
      /\ Thread(e, a, b) /\ Thread(f, b, a)
  BY RefsDiffer DEF Threads, Conns
<1>2. /\ s \in Conns /\ ~s.tx_pending /\ s.pending_request = a.pending_request
      /\ s.asked = a.asked /\ s.gatt_result = a.gatt_result
  BY <1>1, SentFields DEF Rest
<1>3. ~Concerns(s, e) /\ ~Concerns(s, f)
  BY <1>2 DEF Concerns
<1>4. m.op = Notification \/ Concerns(a, e) \/ Concerns(a, f)
  BY <1>1 DEF Thread, Peer, Ends
<1>5. Concerns(a, e) => a.pending_request /\ m.ref = <<e, a.asked>> /\ m.op \in RequestOps
  BY <1>1 DEF Thread
<1>6. Concerns(a, f) => /\ b.pending_request /\ m.ref = <<f, b.asked>> /\ m.op \in Responses
                        /\ ~Concerns(b, f)
  BY <1>1 DEF Thread
<1>7. CASE /\ b.pending_request /\ m.op \in Responses
           /\ d = [b EXCEPT !.pending_request = FALSE, !.gatt_result = m]
  <2>1. ~Concerns(b, f) /\ m.ref = <<f, b.asked>>
    BY <1>4, <1>5, <1>6, <1>7, OpsDiffer
  <2>2. /\ d \in Conns /\ d.tx_pending = b.tx_pending /\ d.tx_cid = b.tx_cid
        /\ d.tx_att = b.tx_att /\ d.pending_request = FALSE /\ d.asked = b.asked
        /\ d.gatt_result = m
    BY <1>1, <1>7 DEF Conns
  <2> HIDE DEF d, s, m, f
  <2>3. /\ Concerns(d, e) <=> Concerns(b, e)
        /\ Concerns(d, f) <=> Concerns(b, f)
        /\ Concerns(d, "Master") <=> Concerns(b, "Master")
        /\ Concerns(d, "Slave") <=> Concerns(b, "Slave")
    BY <2>2 DEF Concerns
  <2>4. Thread(e, s, d)
    BY <1>1, <1>2, <1>3, <2>2, <2>3 DEF Thread
  <2>5. Thread(f, d, s)
    BY <1>1, <1>3, <2>1, <2>2, <2>3 DEF Thread
  <2> QED BY <1>2, <2>2, <2>4, <2>5 DEF Threads, d, s, m, f
<1>8. ASSUME NEW n \in Nat
      PROVE  LET w == [b EXCEPT !.nus_cccd = n]
             IN  /\ w \in Conns /\ w.tx_pending = b.tx_pending /\ w.tx_cid = b.tx_cid
                 /\ w.tx_att = b.tx_att /\ w.pending_request = b.pending_request
                 /\ w.asked = b.asked /\ w.gatt_result = b.gatt_result
  BY <1>1 DEF Conns
<1>9. ASSUME NEW n \in Nat, d = [b EXCEPT !.nus_cccd = n]
      PROVE  Threads(e, s, d)
  <2>1. Silent(b, d)
    BY <1>1, <1>8, <1>9, SameSilent
  <2>2. Silent(a, s)
    BY <1>1, SlotSilentSteps
  <2>3. Threads(e, s, b)
    BY <2>2, SilentThreads
  <2>4. Threads(f, b, s)
    BY <2>3, ThreadsSwap
  <2>5. Threads(f, d, s)
    BY <1>1, <2>1, <2>4, SilentThreads
  <2> QED BY <1>1, <2>5, ThreadsSwap, RefsDiffer
<1>10. ASSUME NEW n \in Nat, ~(b.pending_request /\ m.op \in Responses),
              m.op \notin {Notification, WriteCmd},
              d = queue_att([b EXCEPT !.nus_cccd = n], [Answer(b, m) EXCEPT !.ref = m.ref])
       PROVE  Threads(e, s, d)
  <2> DEFINE w == [b EXCEPT !.nus_cccd = n]
             r == [Answer(b, m) EXCEPT !.ref = m.ref]
  <2>1. a.pending_request /\ m.ref = <<e, a.asked>> /\ m.op \in RequestOps
    BY <1>4, <1>5, <1>6, <1>10
  <2>2. r \in Messages /\ r.ref = m.ref /\ r.op \in AnswerOps /\ r.op \in Responses
    BY <1>1, <2>1, AnswerFields
  <2>3. /\ w \in Conns /\ w.pending_request = b.pending_request
        /\ w.asked = b.asked /\ w.gatt_result = b.gatt_result
    BY <1>8
  <2>4. d = queue_att(w, r)
    BY <1>10
  <2> HIDE DEF w, r, d
  <2>5. d \in Conns /\ d.tx_pending = TRUE /\ d.tx_att = r /\ Rest(d) = Rest(w)
    BY <2>2, <2>3, <2>4, AttFields
  <2>6. /\ d.pending_request = b.pending_request /\ d.asked = b.asked
        /\ d.gatt_result = b.gatt_result
    BY <2>3, <2>5 DEF Rest
  <2> HIDE DEF s, m, f
  <2>7. d.tx_att.ref = <<e, a.asked>> /\ a.asked \in Nat
    BY <1>1, <2>1, <2>2, <2>5 DEF Conns
  <2>8. Concerns(d, e) /\ ~Concerns(d, f)
    BY <1>1, <2>5, <2>7, RefsDiffer DEF Concerns
  <2>9. Thread(e, s, d)
    <3>1. s.gatt_result # None => ~s.pending_request /\ s.gatt_result.ref = <<e, s.asked>>
      BY <1>1, <1>2 DEF Thread
    <3> QED BY <1>2, <1>3, <2>1, <2>2, <2>5, <2>7, <3>1 DEF Thread
  <2>10. Thread(f, d, s)
    <3>1. d.gatt_result # None => ~d.pending_request /\ d.gatt_result.ref = <<f, d.asked>>
      BY <1>1, <2>6 DEF Thread
    <3>2. Concerns(d, "Master") \/ Concerns(d, "Slave")
      BY <2>8 DEF Ends
    <3> QED BY <1>3, <2>8, <3>1, <3>2 DEF Thread
  <2> QED BY <1>2, <2>5, <2>9, <2>10 DEF Threads, f
<1>11. \/ /\ b.pending_request /\ m.op \in Responses
          /\ d = [b EXCEPT !.pending_request = FALSE, !.gatt_result = m]
       \/ \E n \in Nat :
            \/ d = [b EXCEPT !.nus_cccd = n]
            \/ /\ ~(b.pending_request /\ m.op \in Responses)
               /\ m.op \notin {Notification, WriteCmd}
               /\ d = queue_att([b EXCEPT !.nus_cccd = n], [Answer(b, m) EXCEPT !.ref = m.ref])
  BY <1>1, HandleAttFields
<1>12. CASE \E n \in Nat :
              \/ d = [b EXCEPT !.nus_cccd = n]
              \/ /\ ~(b.pending_request /\ m.op \in Responses)
                 /\ m.op \notin {Notification, WriteCmd}
                 /\ d = queue_att([b EXCEPT !.nus_cccd = n], [Answer(b, m) EXCEPT !.ref = m.ref])
  <2>1. PICK n \in Nat :
               \/ d = [b EXCEPT !.nus_cccd = n]
               \/ /\ ~(b.pending_request /\ m.op \in Responses)
                  /\ m.op \notin {Notification, WriteCmd}
                  /\ d = queue_att([b EXCEPT !.nus_cccd = n], [Answer(b, m) EXCEPT !.ref = m.ref])
    BY <1>12
  <2>2. CASE d = [b EXCEPT !.nus_cccd = n]
    BY <1>9, <2>2, Zenon
  <2>3. CASE /\ ~(b.pending_request /\ m.op \in Responses)
             /\ m.op \notin {Notification, WriteCmd}
             /\ d = queue_att([b EXCEPT !.nus_cccd = n], [Answer(b, m) EXCEPT !.ref = m.ref])
    BY <1>10, <2>3, Zenon
  <2> QED BY <2>1, <2>2, <2>3, Zenon
<1> QED BY <1>7, <1>11, <1>12, Zenon

(***************************************************************************)
(* A packet that is heard.                                                 *)
(***************************************************************************)
LEMMA HeardThreads ==
    ASSUME NEW e \in Ends, NEW a, NEW b, Threads(e, a, b)
    PROVE  Threads(e, Sent(a), Heard(b, a))
<1> DEFINE m == a.tx_att
<1>1. /\ a \in Conns /\ b \in Conns /\ m \in Messages /\ a.tx_cid \in Cids
      /\ a.tx_pending \in BOOLEAN /\ Peer(e) \in Ends /\ Peer(Peer(e)) = e
  BY RefsDiffer DEF Threads, Conns
<1>2. ASSUME Silent(b, Heard(b, a)) PROVE Threads(e, Sent(a), Heard(b, a))
  <2>1. Silent(a, Sent(a))
    BY <1>1, SlotSilentSteps
  <2>2. Threads(e, Sent(a), b)
    BY <2>1, SilentThreads
  <2>3. Threads(Peer(e), b, Sent(a))
    BY <2>2, ThreadsSwap
  <2>4. Threads(Peer(e), Heard(b, a), Sent(a))
    BY <1>1, <1>2, <2>3, SilentThreads
  <2> QED BY <1>1, <2>4, ThreadsSwap
<1>3. CASE a.tx_pending /\ a.tx_cid = Att
  <2>1. Heard(b, a) = handle_att(b, m)
    BY <1>3 DEF Heard, handle_l2cap, Att, Signaling, Channel
  <2> QED BY <1>3, <2>1, AttThreads
<1>4. CASE ~a.tx_pending
  <2>1. Heard(b, a) = b
    BY <1>4 DEF Heard
  <2> QED BY <1>1, <1>2, <2>1, SlotSilentSteps
<1>5. CASE a.tx_pending /\ a.tx_cid = Signaling
  <2>1. Heard(b, a) = handle_le_signaling(b, m)
    BY <1>5 DEF Heard, handle_l2cap, Att, Signaling, Channel
  <2>2. Silent(b, handle_le_signaling(b, m))
    BY <1>1, OtherChannelSilent
  <2> QED BY <1>2, <2>1, <2>2
<1>6. CASE a.tx_pending /\ a.tx_cid = Channel
  <2>1. Heard(b, a) = IF b.coc = None THEN b ELSE rx_coc_sdu(b, m)
    BY <1>6 DEF Heard, handle_l2cap, Att, Signaling, Channel
  <2>2. Silent(b, b) /\ (b.coc # None => Silent(b, rx_coc_sdu(b, m)))
    BY <1>1, OtherChannelSilent, SlotSilentSteps
  <2>3. Silent(b, Heard(b, a))
    BY <2>1, <2>2
  <2> QED BY <1>2, <2>3
<1> QED BY <1>1, <1>3, <1>4, <1>5, <1>6 DEF Cids

(***************************************************************************)
(* A call, of a client that asks one thing at a time.                      *)
(***************************************************************************)
LEMMA CalledThreads ==
    ASSUME Paced, NEW e \in Ends, NEW c, NEW p, NEW d, Threads(e, c, p), Called(e, c, d)
    PROVE  Threads(e, d, p)
<1>1. /\ c \in Conns /\ p \in Conns /\ Thread(e, c, p) /\ Thread(Peer(e), p, c)
      /\ Peer(e) \in Ends /\ Peer(e) # e
  BY RefsDiffer DEF Threads
<1>2. CASE Silent(c, d)
  BY <1>2, SilentThreads
<1>3. CASE d = queue_att(c, Msg(Notification, HANDLE_TX_VALUE, 4))
  <2> DEFINE m == Msg(Notification, HANDLE_TX_VALUE, 4)
  <2>1. m \in Messages /\ m.ref = << >> /\ m.op = Notification
    BY DEF Msg, Messages, Refs, Notification, HANDLE_TX_VALUE
  <2> HIDE DEF m
  <2>2. d \in Conns /\ d.tx_att = m /\ Rest(d) = Rest(c)
    BY <1>1, <1>3, <2>1, AttFields DEF m
  <2>3. Silent(c, d)
    BY <2>1, <2>2 DEF Silent, SlotSilent, Rest
  <2> QED BY <1>2, <2>3
<1>4. CASE /\ ~c.pending_request /\ c.gatt_result = None
           /\ \E m \in GattRequests : d = Requested(c, e, m)
  <2>1. PICK m \in GattRequests : d = Requested(c, e, m)
    BY <1>4
  <2>2. /\ d \in Conns /\ d.tx_pending = TRUE /\ d.tx_cid = c.tx_cid
        /\ d.tx_att.ref = <<e, c.asked + 1>> /\ d.tx_att.op \in RequestOps
        /\ d.pending_request = TRUE /\ d.asked = c.asked + 1
        /\ d.gatt_result = c.gatt_result
    BY <1>1, <2>1, RequestedFields
  <2>3. c.asked + 1 \in Nat
    BY <1>1 DEF Conns
  <2>4. Concerns(d, e) /\ ~Concerns(d, Peer(e))
    BY <1>1, <2>2, <2>3, RefsDiffer DEF Concerns
  <2>5. ~Concerns(p, e)
    BY <1>1, <1>4 DEF Thread
  <2>6. Thread(e, d, p)
    <3>1. Concerns(d, "Master") \/ Concerns(d, "Slave")
      BY <2>4 DEF Ends
    <3> QED BY <1>4, <2>2, <2>5, <3>1 DEF Thread
  <2>7. Thread(Peer(e), p, d)
    BY <1>1, <2>4 DEF Thread
  <2> QED BY <1>1, <2>2, <2>6, <2>7 DEF Threads
<1>5. CASE d = Polled(c)
  <2>1. Silent(c, d)
    BY <1>1, <1>5 DEF Polled, Silent, SlotSilent, Conns
  <2> QED BY <1>2, <2>1
<1>6. CASE c.coc = None /\ d = Connecting(c)
  <2>1. /\ d \in Conns /\ d.tx_cid = Signaling /\ d.tx_att.ref = << >> /\ Rest(d) = Rest(c)
    BY <1>1, <1>6, ConnectingFields
  <2>2. Silent(c, d)
    BY <2>1 DEF Silent, SlotSilent, Rest, Signaling, Att
  <2> QED BY <1>2, <2>2
<1>7. CASE c.coc # None /\ c.coc.credits > 0 /\ \E len \in SduLengths : d = Sending(c, len)
  <2>1. /\ d \in Conns /\ d.tx_cid = Channel /\ d.tx_att.ref = <<"SDU">> /\ Rest(d) = Rest(c)
    BY <1>1, <1>7, SendingFields
  <2>2. Silent(c, d)
    BY <2>1 DEF Silent, SlotSilent, Rest, Channel, Att
  <2> QED BY <1>2, <2>2
<1> QED BY <1>3, <1>4, <1>5, <1>6, <1>7 DEF Called

(***************************************************************************)
(* If clients ask one thing at a time, a result is the answer to the last  *)
(* request of its client, whatever the two servers and the channel send in *)
(* between in the same slots, and whatever is lost.                        *)
(***************************************************************************)
THEOREM ResultsBelong ==
    ASSUME Paced
    PROVE  Spec => []Correlated
<1>0. "Master" \in Ends /\ "Slave" \in Ends /\ Peer("Master") = "Slave" /\ Peer("Slave") = "Master"
  BY DEF Ends, Peer
<1>1. Init => ThreadInv
  <2> SUFFICES ASSUME Init PROVE ThreadInv
    OBVIOUS
  <2>1. conn = [e \in Ends |-> NewConn] /\ conn["Master"] = NewConn /\ conn["Slave"] = NewConn
    BY DEF Init, Ends
  <2>2. NewConn \in Conns
    BY DEF NewConn, Conns, Cids, Messages, Msg, Refs
  <2>3. \A e \in Ends : Thread(e, NewConn, NewConn)
    BY DEF Thread, NewConn, Concerns
  <2> QED BY <1>0, <2>1, <2>2, <2>3 DEF ThreadInv, Threads
<1>2. ThreadInv /\ [Next]_vars => ThreadInv'
  <2> SUFFICES ASSUME ThreadInv, [Next]_vars PROVE ThreadInv'
    OBVIOUS
  <2> DEFINE m == conn["Master"]
             s == conn["Slave"]
             slave == Heard(s, m)
  <2>1. DOMAIN conn = Ends /\ Threads("Master", m, s) /\ Threads("Slave", s, m)
    BY <1>0, ThreadsSwap DEF ThreadInv
  <2>2. CASE Event
    <3>1. Threads("Master", Sent(m), slave)
      BY <1>0, <2>1, HeardThreads
    <3>2. Threads("Slave", slave, Sent(m))
      BY <1>0, <3>1, ThreadsSwap
    <3>3. CASE EventBothHeard
      <4>1. conn' = [Master |-> Heard(Sent(m), slave), Slave |-> Sent(slave)]
        BY <3>3 DEF EventBothHeard
      <4>2. Threads("Slave", Sent(slave), Heard(Sent(m), slave))
        BY <1>0, <3>2, HeardThreads
      <4>3. Threads("Master", Heard(Sent(m), slave), Sent(slave))
        BY <1>0, <4>2, ThreadsSwap
      <4> QED BY <4>1, <4>3 DEF ThreadInv, Ends
    <3>4. CASE EventAnswerLost
      <4>1. conn' = [Master |-> Sent(m), Slave |-> Lost(slave)]
        BY <3>4 DEF EventAnswerLost
      <4>2. Silent(slave, Lost(slave))
        BY <3>2, SlotSilentSteps DEF Threads
      <4>3. Threads("Slave", Lost(slave), Sent(m))
        BY <1>0, <3>2, <4>2, SilentThreads
      <4>4. Threads("Master", Sent(m), Lost(slave))
        BY <1>0, <4>3, ThreadsSwap
      <4> QED BY <4>1, <4>4 DEF ThreadInv, Ends
    <3>5. CASE EventUnheard
      <4>1. conn' = [conn EXCEPT !["Master"] = Lost(m)]
        BY <3>5 DEF EventUnheard
      <4>2. Silent(m, Lost(m))
        BY <2>1, SlotSilentSteps DEF Threads
      <4>3. Threads("Master", Lost(m), s)
        BY <1>0, <2>1, <4>2, SilentThreads
      <4> QED BY <2>1, <4>1, <4>3 DEF ThreadInv, Ends
    <3> QED BY <2>2, <3>3, <3>4, <3>5 DEF Event
  <2>3. ASSUME NEW e \in Ends, NEW d, Called(e, conn[e], d), conn' = [conn EXCEPT ![e] = d]
        PROVE  ThreadInv'
    <3>1. CASE e = "Master"
      <4>1. Threads("Master", d, s)
        BY <1>0, <2>1, <2>3, <3>1, CalledThreads
      <4> QED BY <2>1, <2>3, <3>1, <4>1 DEF ThreadInv, Ends
    <3>2. CASE e = "Slave"
      <4>1. Threads("Slave", d, m)
        BY <1>0, <2>1, <2>3, <3>2, CalledThreads
      <4>2. Threads("Master", m, d)
        BY <1>0, <4>1, ThreadsSwap
      <4> QED BY <2>1, <2>3, <3>2, <4>2 DEF ThreadInv, Ends
    <3> QED BY <3>1, <3>2 DEF Ends
  <2>4. CASE UNCHANGED conn
    BY <2>4 DEF ThreadInv
  <2> QED BY <2>1, <2>2, <2>3, <2>4, EveryStep
<1>3. ThreadInv => Correlated
  <2>1. ThreadInv => Thread("Master", conn["Master"], conn["Slave"])
                     /\ Thread("Slave", conn["Slave"], conn["Master"])
    BY <1>0 DEF ThreadInv, Threads
  <2> QED BY <2>1 DEF Correlated, Thread, Ends
<1> QED
  BY <1>1, <1>2, <1>3, PTL DEF Spec
=============================================================================
