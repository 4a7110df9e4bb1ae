----------------------------- MODULE L2capProofs -----------------------------
(***************************************************************************)
(* Proofs about the fragmenter for every set of message lengths and PDU    *)
(* sizes: where its arithmetic can underflow and why it can panic; and     *)
(* about fragmentation and reassembly together: what reaches a handler is  *)
(* one whole message, once, in order and on its own channel, but for the   *)
(* messages the code is known to lead astray.  Nothing is assumed of when  *)
(* the application or the stack's own answers use the slot.                *)
(***************************************************************************)
EXTENDS L2cap, TLAPS

\* A free slot has no fragment offset left over from the message before.
FreshSlot == ~tx_pending => tx_frag_offset = 0

RxBound == rx_l2cap_len <= RX_L2CAP_LEN

TxBound == tx_att_len <= L2CAP_PAYLOAD_MAX

IInv == TypeOK /\ FreshSlot /\ RxBound /\ TxBound /\ PanicCauses

-----------------------------------------------------------------------------
(***************************************************************************)
(* What tx_fragment takes from the message: no more than is left of it and *)
(* no more than the PDU has room for.                                      *)
(***************************************************************************)
LEMMA ChunkBounds ==
    ASSUME TypeOK
    PROVE  /\ Avail \in Nat /\ Chunk \in Nat /\ Chunk <= Avail
           /\ tx_frag_offset <= tx_att_len => Chunk <= tx_att_len - tx_frag_offset
<1>1. tx_pdu_max \in Nat /\ tx_att_len \in Nat /\ tx_frag_offset \in Nat
  BY DEF TypeOK
<1>2. Avail \in Nat
  BY <1>1 DEF Avail
<1> DEFINE left == tx_att_len - tx_frag_offset
<1>3. left \in Int /\ Usize \in Nat /\ Usize > 0
  BY <1>1, L2capAssumption
<1>4. left % Usize \in Nat /\ (left >= 0 => left % Usize <= left)
  <2> HIDE DEF left
  <2>1. left % Usize \in Nat
    BY <1>3
  <2>2. left >= 0 => left % Usize <= left
    BY <1>3
  <2> QED
    BY <2>1, <2>2
<1>5. Chunk = Lesser(left % Usize, Avail)
  BY DEF Chunk
<1> HIDE DEF left
<1>6. Chunk \in Nat /\ Chunk <= Avail /\ Chunk <= left % Usize
  BY <1>2, <1>4, <1>5 DEF Lesser
<1>7. left >= 0 => Chunk <= left
  BY <1>3, <1>4, <1>6
<1> QED
  BY <1>1, <1>2, <1>6, <1>7 DEF left

(***************************************************************************)
(* The fragment and its length are well formed.                            *)
(***************************************************************************)
LEMMA FragmentBounds ==
    ASSUME TypeOK
    PROVE  /\ Fragment.len \in Nat
           /\ Fragment.len <= 6 \/ Fragment.len <= tx_pdu_max + 2
           /\ RunLength(Fragment.run) = Chunk
           /\ Fragment.msg_len = tx_att_len
<1>1. /\ tx_pdu_max \in Nat /\ tx_frag_offset \in Nat
      /\ Avail \in Nat /\ Chunk \in Nat /\ Chunk <= Avail
  BY ChunkBounds DEF TypeOK
<1>2. Fragment.len = 2 + (IF First THEN 4 + Chunk ELSE Chunk)
  BY DEF Fragment
<1>3. Fragment.len \in Nat /\ (Fragment.len <= 6 \/ Fragment.len <= tx_pdu_max + 2)
  BY <1>1, <1>2 DEF Avail
<1>4. RunLength(Fragment.run) = Chunk
  BY <1>1 DEF Fragment, RunLength
<1> QED
  BY <1>3, <1>4 DEF Fragment

(***************************************************************************)
(* The reassembly buffer is never overrun, whatever is received.           *)
(***************************************************************************)
LEMMA Reassembly ==
    ASSUME TypeOK, RxBound, NEW pdu, handle_l2cap(pdu),
           RunLength(pdu.run) \in Nat, pdu.run[2] \in Nat, pdu.run[3] \in Nat,
           pdu.msg_len \in Nat
    PROVE  /\ rx_l2cap_len' \in Nat /\ rx_l2cap_len' <= RX_L2CAP_LEN
           /\ rx_l2cap_msg_len' \in Nat
<1>1. rx_l2cap_len \in Nat /\ rx_l2cap_len <= 256 /\ rx_l2cap_msg_len \in Nat
  BY DEF TypeOK, RxBound, RX_L2CAP_LEN
<1>2. CASE pdu.llid = "CONTINUATION" /\ rx_l2cap_len = 0
  <2>1. Misread(pdu)
    BY <1>2 DEF handle_l2cap
  <2> QED
    <3>1. CASE UNCHANGED rxVars
      BY <1>1, <3>1 DEF rxVars, RX_L2CAP_LEN
    <3>2. CASE rx_l2cap_len' = 0 /\ rx_l2cap_msg_len' = 0
      BY <3>2 DEF RX_L2CAP_LEN
    <3>3. CASE /\ rx_l2cap_len' = Lesser(pdu.run[3] - (pdu.run[2] + 4), RX_L2CAP_LEN)
               /\ RunLength(pdu.run) >= 4 /\ rx_l2cap_msg_len' = RX_L2CAP_LEN
      BY <3>3 DEF Lesser, RunLength, RX_L2CAP_LEN
    <3> QED
      BY <2>1, <3>1, <3>2, <3>3 DEF Misread, RunLength
<1>3. ASSUME NEW runs, NEW len \in Nat, NEW msg_len \in Nat, len <= 256,
             Collect(runs, len, msg_len, pdu)
      PROVE  /\ rx_l2cap_len' \in Nat /\ rx_l2cap_len' <= RX_L2CAP_LEN
             /\ rx_l2cap_msg_len' \in Nat
  BY <1>3 DEF Collect, Lesser, RX_L2CAP_LEN
<1>4. CASE pdu.llid = "CONTINUATION" /\ rx_l2cap_len > 0
  <2>1. Collect(rx_l2cap, rx_l2cap_len, rx_l2cap_msg_len, pdu)
    BY <1>1, <1>4 DEF handle_l2cap
  <2> QED
    BY <1>1, <1>3, <2>1
<1>5. CASE pdu.llid # "CONTINUATION" /\ pdu.cid = Att
  <2>1. Collect(<< >>, 0, pdu.msg_len, pdu)
    BY <1>5 DEF handle_l2cap
  <2> QED
    BY <1>3, <2>1
<1>6. CASE pdu.llid # "CONTINUATION" /\ pdu.cid # Att
  <2>1. Dispatch(pdu)
    BY <1>6 DEF handle_l2cap
  <2> QED
    BY <2>1 DEF Dispatch, RX_L2CAP_LEN
<1> QED
  BY <1>1, <1>2, <1>4, <1>5, <1>6

-----------------------------------------------------------------------------
(***************************************************************************)
(* Queueing a message: when the offset is left behind, it is recorded that *)
(* the two messages are mixed.                                             *)
(***************************************************************************)
LEMMA QueueIInv == IInv /\ (queue_att \/ queue_l2cap) => IInv'
<1> SUFFICES ASSUME IInv, queue_att \/ queue_l2cap PROVE IInv'
  OBVIOUS
<1>1. PICK cid \in Cids, len \in AttLengths \cup OtherLengths :
        /\ Fill(cid, len)
        /\ tx_cid' \in {cid, tx_cid}
        /\ \/ tx_frag_offset' = 0 /\ mixed' = mixed
           \/ /\ tx_frag_offset' = tx_frag_offset
              /\ mixed' = IF tx_frag_offset # 0 THEN mixed \cup {tx_att, tx_att'} ELSE mixed
  BY DEF queue_att, queue_l2cap, Cids
<1>2. len \in Nat /\ len <= 251
  BY L2capAssumption DEF LL_PDU_PAYLOAD_MAX
<1>3. /\ queued' = Append(queued, [cid |-> cid, len |-> len]) /\ Running
      /\ tx_att' = Len(queued') /\ tx_att_len' = len /\ tx_pending' = TRUE
      /\ UNCHANGED <<tx_pdu_max, pending_control, sent, rxVars>>
  BY <1>1 DEF Fill
<1>4. queued' \in Seq([cid : Cids, len : Nat]) /\ tx_att' \in Nat
  BY <1>2, <1>3 DEF IInv, TypeOK
<1>5. tx_frag_offset' \in Nat /\ mixed' \subseteq Nat /\ (Underflow' => tx_att' \in mixed')
  <2>1. tx_frag_offset \in Nat /\ mixed \subseteq Nat /\ tx_att \in Nat
    BY DEF IInv, TypeOK
  <2>2. CASE tx_frag_offset' = 0 /\ mixed' = mixed
    BY <1>2, <1>3, <2>1, <2>2 DEF Underflow
  <2>3. CASE /\ tx_frag_offset' = tx_frag_offset
             /\ mixed' = IF tx_frag_offset # 0 THEN mixed \cup {tx_att, tx_att'} ELSE mixed
    <3>1. CASE tx_frag_offset = 0
      BY <1>2, <1>3, <2>1, <2>3, <3>1 DEF Underflow
    <3>2. CASE tx_frag_offset # 0
      <4>1. mixed' = mixed \cup {tx_att, tx_att'}
        BY <2>3, <3>2
      <4> QED BY <1>4, <2>1, <2>3, <4>1
    <3> QED BY <3>1, <3>2
  <2> QED BY <1>1, <2>2, <2>3
<1>6. TypeOK'
  BY <1>1, <1>2, <1>3, <1>4, <1>5 DEF IInv, TypeOK, rxVars
<1>7. FreshSlot' /\ RxBound' /\ TxBound'
  BY <1>2, <1>3 DEF IInv, FreshSlot, RxBound, TxBound, rxVars, L2CAP_PAYLOAD_MAX
<1>8. PanicCauses'
  BY <1>3 DEF PanicCauses, Panicked, Running
<1> QED
  BY <1>6, <1>7, <1>8 DEF IInv

(***************************************************************************)
(* A request or a length response of the peer.                             *)
(***************************************************************************)
LEMMA ControlIInv ==
    IInv /\ (handle_length_req \/ handle_length_rsp \/ handle_other_req) => IInv'
<1> SUFFICES ASSUME IInv, handle_length_req \/ handle_length_rsp \/ handle_other_req
             PROVE  IInv'
  OBVIOUS
<1>1. tx_pdu_max' \in Nat
  BY L2capAssumption DEF handle_length_req, handle_length_rsp, handle_other_req, Lesser,
     LL_PDU_PAYLOAD_MAX, IInv, TypeOK
<1>2. /\ pending_control' \in {"LENGTH_RSP", "OTHER_RSP", None} /\ Running
      /\ UNCHANGED <<txVars, sent, rxVars, queued, mixed>>
  BY DEF handle_length_req, handle_length_rsp, handle_other_req, IInv, TypeOK
<1>3. PanicCauses'
  BY <1>2 DEF PanicCauses, Panicked, Running
<1> QED
  BY <1>1, <1>2, <1>3 DEF IInv, TypeOK, FreshSlot, RxBound, TxBound, Underflow, txVars, rxVars

(***************************************************************************)
(* Sending a fragment moves the offset on by what was sent.                *)
(***************************************************************************)
LEMMA FragmentIInv == IInv /\ respond_fragment => IInv'
<1> SUFFICES ASSUME IInv, respond_fragment PROVE IInv'
  OBVIOUS
<1>1. /\ sent' = Fragment.llid /\ AdvanceFragment
      /\ handle_l2cap(Fragment) \/ UNCHANGED rxVars
      /\ UNCHANGED <<tx_pdu_max, pending_control, queued, mixed>>
  BY DEF respond_fragment
<1>2. tx_frag_offset \in Nat /\ tx_att_len \in Nat /\ Chunk \in Nat
  BY ChunkBounds DEF IInv, TypeOK
<1>3. /\ UNCHANGED <<tx_att, tx_att_len, tx_cid>>
      /\ tx_frag_offset' = IF tx_frag_offset + Chunk >= tx_att_len THEN 0
                           ELSE tx_frag_offset + Chunk
      /\ tx_pending' = ~(tx_frag_offset + Chunk >= tx_att_len)
  BY <1>1 DEF AdvanceFragment
<1>4. /\ tx_frag_offset' \in Nat /\ tx_pending' \in BOOLEAN
      /\ tx_frag_offset' <= tx_att_len'
      /\ ~tx_pending' => tx_frag_offset' = 0
  <2>1. CASE tx_frag_offset + Chunk >= tx_att_len
    BY <1>2, <1>3, <2>1
  <2>2. CASE ~(tx_frag_offset + Chunk >= tx_att_len)
    <3>1. tx_pending' = TRUE
      BY <1>3, <2>2, Zenon
    <3>2. tx_frag_offset' = tx_frag_offset + Chunk /\ tx_att_len' = tx_att_len
      BY <1>3, <2>2
    <3>3. tx_frag_offset' \in Nat /\ tx_frag_offset' <= tx_att_len'
      BY <1>2, <2>2, <3>2
    <3> QED
      BY <3>1, <3>3, Zenon
  <2> QED
    BY <2>1, <2>2
<1>5. /\ RunLength(Fragment.run) \in Nat /\ Fragment.msg_len \in Nat
      /\ Fragment.run[2] \in Nat /\ Fragment.run[3] \in Nat
  BY <1>2, FragmentBounds DEF IInv, Fragment
<1>6. /\ rx_l2cap_len' \in Nat /\ rx_l2cap_len' <= RX_L2CAP_LEN
      /\ rx_l2cap_msg_len' \in Nat
  <2>1. CASE handle_l2cap(Fragment)
    BY <1>5, <2>1, Reassembly DEF IInv
  <2>2. CASE UNCHANGED rxVars
    BY <2>2 DEF IInv, TypeOK, RxBound, rxVars
  <2> QED BY <1>1, <2>1, <2>2
<1>7. sent' \in {"START", "COMPLETE", "CONTINUATION"}
  BY <1>1 DEF Fragment
<1>8. ~Underflow'
  BY <1>2, <1>3, <1>4 DEF Underflow
<1>9. TypeOK'
  BY <1>1, <1>3, <1>4, <1>6, <1>7, <1>8 DEF IInv, TypeOK
<1>10. PanicCauses'
  BY <1>7 DEF PanicCauses, Panicked
<1> QED
  BY <1>3, <1>4, <1>6, <1>9, <1>10 DEF IInv, FreshSlot, RxBound, TxBound

(***************************************************************************)
(* A panic: the offset is beyond a message that was mixed, or the peer     *)
(* announced more than tx_buf has room for.                                *)
(***************************************************************************)
LEMMA PanicIInv == IInv /\ fragment_panic => IInv'
<1> SUFFICES ASSUME IInv, fragment_panic PROVE IInv'
  OBVIOUS
<1>1. /\ Underflow \/ OutOfBounds
      /\ sent' = "PANIC"
      /\ UNCHANGED <<txVars, tx_pdu_max, pending_control, rxVars, queued, mixed>>
  BY DEF fragment_panic
<1>2. tx_att \in mixed \/ tx_pdu_max + 2 > TX_BUF_LEN
  <2> SUFFICES ASSUME tx_att \notin mixed PROVE tx_pdu_max + 2 > TX_BUF_LEN
    OBVIOUS
  <2>1. /\ tx_frag_offset \in Nat /\ tx_att_len \in Nat /\ tx_pdu_max \in Nat
        /\ ~Underflow /\ tx_att_len <= 251
    BY DEF IInv, TypeOK, TxBound, L2CAP_PAYLOAD_MAX
  <2>2. Chunk \in Nat /\ tx_frag_offset + Chunk <= tx_att_len
    BY <2>1, ChunkBounds DEF IInv, Underflow
  <2>3. Fragment.run[3] <= L2CAP_PAYLOAD_MAX
    <3>1. Fragment.run[3] = tx_frag_offset + Chunk
      BY DEF Fragment
    <3> QED BY <2>1, <2>2, <3>1 DEF L2CAP_PAYLOAD_MAX
  <2>4. Fragment.run[3] \in Nat
    BY <2>1, <2>2 DEF Fragment
  <2>5. Fragment.len > TX_BUF_LEN
    BY <1>1, <2>1, <2>3, <2>4 DEF OutOfBounds, L2CAP_PAYLOAD_MAX
  <2>6. Fragment.len \in Nat /\ (Fragment.len <= 6 \/ Fragment.len <= tx_pdu_max + 2)
    BY FragmentBounds DEF IInv
  <2> QED BY <2>1, <2>5, <2>6, L2capAssumption
<1>3. PanicCauses'
  BY <1>1, <1>2 DEF PanicCauses, txVars
<1> QED
  BY <1>1, <1>3 DEF IInv, TypeOK, FreshSlot, RxBound, TxBound, Underflow, txVars, rxVars

(***************************************************************************)
(* A control PDU or an empty one: the message waits.                       *)
(***************************************************************************)
LEMMA OtherPduIInv == IInv /\ (respond_control \/ respond_empty) => IInv'
<1> SUFFICES ASSUME IInv, respond_control \/ respond_empty PROVE IInv'
  OBVIOUS
<1>1. /\ pending_control' \in {"LENGTH_RSP", "OTHER_RSP", None}
      /\ UNCHANGED <<txVars, tx_pdu_max, rxVars, queued, mixed>>
      /\ sent' \in {"CONTROL", "EMPTY"}
  BY L2capAssumption DEF respond_control, respond_empty, IInv, TypeOK
<1>2. PanicCauses'
  BY <1>1 DEF PanicCauses, Panicked
<1> QED
  BY <1>1, <1>2 DEF IInv, TypeOK, FreshSlot, RxBound, TxBound, Underflow, txVars, rxVars

(***************************************************************************)
(* The invariant holds in every reachable state.                           *)
(***************************************************************************)
THEOREM SlotInvariant == Spec => []IInv
<1>1. Init => IInv
  <2> SUFFICES ASSUME Init PROVE IInv
    OBVIOUS
  <2>1. tx_pdu_max \in Nat /\ tx_cid \in Cids /\ sent = None /\ sent # "PANIC"
    BY L2capAssumption DEF Init, Cids, LL_PDU_PAYLOAD_DEFAULT
  <2>2. queued \in Seq([cid : Cids, len : Nat]) /\ mixed \subseteq Nat
    BY DEF Init
  <2>3. /\ tx_att \in Nat /\ tx_att_len \in Nat /\ tx_frag_offset \in Nat
        /\ ~Underflow /\ tx_frag_offset = 0 /\ tx_att_len <= L2CAP_PAYLOAD_MAX
        /\ rx_l2cap_len \in Nat /\ rx_l2cap_msg_len \in Nat
        /\ rx_l2cap_len <= RX_L2CAP_LEN
    BY DEF Init, RX_L2CAP_LEN, L2CAP_PAYLOAD_MAX, Underflow
  <2>4. tx_pending \in BOOLEAN /\ pending_control \in {"LENGTH_RSP", "OTHER_RSP", None}
    BY Zenon DEF Init
  <2>5. PanicCauses
    BY <2>1 DEF PanicCauses, Panicked
  <2> QED
    BY <2>1, <2>2, <2>3, <2>4, <2>5, Zenon DEF IInv, TypeOK, FreshSlot, RxBound, TxBound
<1>2. IInv /\ [Next]_vars => IInv'
  <2>1. IInv /\ UNCHANGED vars => IInv'
    BY DEF IInv, TypeOK, FreshSlot, RxBound, TxBound, Underflow, PanicCauses, Panicked,
       vars, txVars, rxVars
  <2> QED
    BY <2>1, QueueIInv, ControlIInv, FragmentIInv, PanicIInv, OtherPduIInv DEF Next, respond
<1> QED
  BY <1>1, <1>2, PTL DEF Spec

(***************************************************************************)
(* The types hold; with them, whoever queues what and when,                *)
(* tx_att_len - tx_frag_offset in tx_fragment underflows only for an ATT   *)
(* message that was queued over one half sent.                             *)
(***************************************************************************)
THEOREM NoUnderflow == Spec => []TypeOK
<1>1. IInv => TypeOK
  BY DEF IInv
<1> QED
  BY <1>1, SlotInvariant, PTL

(***************************************************************************)
(* tx_fragment indexes out of bounds only for such a message or when the   *)
(* peer has announced a PDU that leaves no room for its header in tx_buf,  *)
(* for every size a peer may announce and every size of tx_buf.            *)
(***************************************************************************)
THEOREM OnlyTwoPanics == Spec => []PanicCauses
<1>1. IInv => PanicCauses
  BY DEF IInv
<1> QED
  BY <1>1, SlotInvariant, PTL

-----------------------------------------------------------------------------
(* From the slot to the handlers of the peer                               *)

\* What the theorems below ask of the environment: a peer that announces sizes
\* the Core Specification allows.
Orderly == \A max \in PduMaxes : max >= LL_PDU_PAYLOAD_DEFAULT

Run     == Nat \X Nat \X Nat
Entries == [cid : Cids \cup {"MISREAD"}, len : Nat, runs : Seq(Run)]

From(runs) == runs[1][1]

\* Runs that follow each other in message m, from its first byte up to byte n
Chain(runs, m, n) ==
    /\ \A r \in 1 .. Len(runs) :
        /\ runs[r][1] = m
        /\ runs[r][2] = IF r = 1 THEN 0 ELSE runs[r - 1][3]
    /\ runs[Len(runs)][3] = n

\* OwnChannel and WholeMessage, of an entry h and the messages q queued
Own(h, q) == h.cid = q[From(h.runs)].cid /\ h.runs[1][2] = 0

Long(q, m) == q[m].len > LL_PDU_PAYLOAD_DEFAULT - 4

Lost(q, x, m) ==
    \/ q[m].cid = Att /\ \E k \in 1 .. m - 1 : q[k].cid \in OtherCid
    \/ q[m].cid \in OtherCid /\ Long(q, m)
    \/ m \in x

EntryOK(h, q, x) ==
    LET m == From(h.runs)
    IN  /\ Len(h.runs) >= 1 /\ m \in 1 .. Len(q)
        /\ Own(h, q) /\ (q[m].cid = Att \/ ~Long(q, m)) /\ m \notin x =>
             h.len = q[m].len /\ Chain(h.runs, m, h.len)
        /\ Own(h, q) \/ Lost(q, x, m)

\* The slot holds the last message queued.
SlotInv ==
    /\ tx_att = Len(queued) /\ mixed \subseteq 1 .. Len(queued)
    /\ tx_pending => /\ tx_att >= 1 /\ tx_att_len = queued[tx_att].len
                     /\ tx_att_len \in 1 .. LL_PDU_PAYLOAD_MAX
                     /\ queued[tx_att].cid \in {Att, tx_cid}
    /\ tx_cid # Att => \E k \in 1 .. tx_att : queued[k].cid \in OtherCid
    /\ tx_frag_offset > 0 => tx_pending
    /\ tx_pending /\ tx_att \in mixed => tx_frag_offset > 0
    /\ tx_frag_offset > 0 /\ tx_att \notin mixed =>
         tx_frag_offset < tx_att_len /\ tx_att_len > LL_PDU_PAYLOAD_DEFAULT - 4
    /\ tx_pdu_max >= LL_PDU_PAYLOAD_DEFAULT

Astray == tx_cid # Att \/ tx_att \in mixed

\* What is collected came from a message that is lost anyway; if it is the
\* beginning of one, the slot was filled over it, and nothing handled on its own
\* channel was queued later.
Collected ==
    /\ Len(rx_l2cap) >= 1 /\ From(rx_l2cap) \in 1 .. tx_att
    /\ Lost(queued, mixed, From(rx_l2cap))
    /\ \/ rx_l2cap[1][2] > 0
       \/ /\ tx_cid = Att /\ From(rx_l2cap) < tx_att /\ From(rx_l2cap) \in mixed
          /\ \A i \in 1 .. Len(handled) :
               Own(handled[i], queued) => From(handled[i].runs) < From(rx_l2cap)

\* Half way through a message the peer has the bytes sent so far, if they are
\* sent as ATT and not mixed with another's.
RxInv ==
    /\ rx_l2cap \in Seq(Run)
    /\ tx_frag_offset > 0 /\ ~Astray =>
         /\ rx_l2cap_len = tx_frag_offset /\ rx_l2cap_msg_len = tx_att_len
         /\ Len(rx_l2cap) >= 1 /\ Chain(rx_l2cap, tx_att, tx_frag_offset)
    /\ tx_frag_offset > 0 /\ Astray /\ rx_l2cap_len > 0 => Collected

\* What has been handled is right, and what is handled on its own channel comes
\* in the order queued: of the message in the slot, only one that goes to
\* another channel than ATT can have been handled.
HandledInv ==
    /\ handled \in Seq(Entries)
    /\ \A i \in 1 .. Len(handled) :
        /\ EntryOK(handled[i], queued, mixed)
        /\ Own(handled[i], queued) /\ From(handled[i].runs) = tx_att /\ tx_pending =>
             tx_frag_offset > 0 /\ tx_cid # Att
    /\ \A i, j \in 1 .. Len(handled) :
        i < j /\ Own(handled[i], queued) /\ Own(handled[j], queued) =>
          From(handled[i].runs) < From(handled[j].runs)

DeliveryInv == SlotInv /\ RxInv /\ HandledInv

-----------------------------------------------------------------------------
(***************************************************************************)
(* A sequence with one more element.                                       *)
(***************************************************************************)
LEMMA Appended ==
    ASSUME NEW S, NEW s \in Seq(S), NEW x \in S
    PROVE  /\ Append(s, x) \in Seq(S) /\ Len(s) \in Nat /\ Len(Append(s, x)) = Len(s) + 1
           /\ \A i \in 1 .. Len(s) : Append(s, x)[i] = s[i]
           /\ Append(s, x)[Len(s) + 1] = x
OBVIOUS

(***************************************************************************)
(* An element of a sequence.                                               *)
(***************************************************************************)
LEMMA ElementOf ==
    ASSUME NEW S, NEW s \in Seq(S), NEW i \in 1 .. Len(s)
    PROVE  s[i] \in S
OBVIOUS

(***************************************************************************)
(* What is left of a message is not reduced by the width of usize.         *)
(***************************************************************************)
LEMMA NoWrap ==
    ASSUME NEW n \in Nat, n <= LL_PDU_PAYLOAD_MAX
    PROVE  n % Usize = n
<1>1. Usize \in Nat /\ Usize > n
  BY L2capAssumption DEF LL_PDU_PAYLOAD_MAX
<1> QED
  BY <1>1

(***************************************************************************)
(* The first fragment of a message has some of its bytes, and all of them  *)
(* if they fit the smallest PDU.                                           *)
(***************************************************************************)
LEMMA FirstChunk ==
    ASSUME TypeOK, SlotInv, tx_pending, tx_frag_offset = 0
    PROVE  /\ Chunk \in 1 .. tx_att_len
           /\ Chunk < tx_att_len => tx_att_len > LL_PDU_PAYLOAD_DEFAULT - 4
<1>1. tx_att_len \in Nat /\ tx_att_len >= 1 /\ tx_att_len <= LL_PDU_PAYLOAD_MAX
  <2>1. tx_att_len \in 1 .. LL_PDU_PAYLOAD_MAX
    BY Zenon DEF SlotInv
  <2> QED BY <2>1 DEF LL_PDU_PAYLOAD_MAX
<1>2. tx_pdu_max \in Nat /\ tx_pdu_max >= 27
  BY DEF TypeOK, SlotInv, LL_PDU_PAYLOAD_DEFAULT
<1>3. Avail \in Nat /\ Avail >= 23
  BY <1>2 DEF Avail, First
<1>4. Chunk = Lesser(tx_att_len, Avail)
  <2>1. tx_att_len - tx_frag_offset = tx_att_len
    BY <1>1
  <2> QED BY <1>1, <2>1, NoWrap DEF Chunk
<1> QED
  BY <1>1, <1>3, <1>4 DEF Lesser, LL_PDU_PAYLOAD_DEFAULT

(***************************************************************************)
(* What tx_fragment hands to the peer.                                     *)
(***************************************************************************)
LEMMA FragmentFields ==
    ASSUME TypeOK, SlotInv, tx_pending
    PROVE  /\ Fragment.run = <<tx_att, tx_frag_offset, tx_frag_offset + Chunk>>
           /\ Fragment.run \in Run /\ RunLength(Fragment.run) = Chunk
           /\ Fragment.msg_len = tx_att_len /\ Fragment.cid = tx_cid
           /\ Fragment.llid = "CONTINUATION" <=> tx_frag_offset # 0
<1>1. tx_att \in Nat /\ tx_frag_offset \in Nat /\ tx_frag_offset + Chunk \in Nat
  BY ChunkBounds DEF TypeOK
<1>2. Fragment.llid = "CONTINUATION" <=> tx_frag_offset # 0
  BY DEF Fragment, First
<1> QED
  BY <1>1, <1>2, FragmentBounds DEF Fragment, Run

(***************************************************************************)
(* A message queued later changes nothing about what has been handled, nor *)
(* does it when more messages count as mixed.                              *)
(***************************************************************************)
LEMMA EntryStays ==
    ASSUME NEW q \in Seq([cid : Cids, len : Nat]), NEW e \in [cid : Cids, len : Nat],
           NEW x, NEW y, x \subseteq y, NEW h, EntryOK(h, q, x)
    PROVE  /\ EntryOK(h, Append(q, e), y)
           /\ Own(h, Append(q, e)) <=> Own(h, q)
           /\ From(h.runs) <= Len(q)
<1> DEFINE p == Append(q, e)
           m == From(h.runs)
<1>1. /\ Len(q) \in Nat /\ Len(p) = Len(q) + 1
      /\ \A i \in 1 .. Len(q) : p[i] = q[i]
  BY Appended
<1>2. m \in 1 .. Len(q) /\ m \in 1 .. Len(p)
  BY <1>1 DEF EntryOK
<1> HIDE DEF p, m
<1>3. p[m] = q[m] /\ \A k \in 1 .. m - 1 : p[k] = q[k]
  BY <1>1, <1>2
<1>4. Own(h, p) <=> Own(h, q)
  BY <1>3 DEF Own, m
<1>5. Long(p, m) <=> Long(q, m)
  BY <1>3 DEF Long
<1>6. Lost(q, x, m) => Lost(p, y, m)
  BY <1>3, <1>5 DEF Lost
<1>7. EntryOK(h, p, y)
  <2>1. Len(h.runs) >= 1 /\ m \in 1 .. Len(p)
    BY <1>2 DEF EntryOK, m
  <2>2. Own(h, q) \/ Lost(q, x, m)
    BY DEF EntryOK, m
  <2>3. Own(h, q) /\ (q[m].cid = Att \/ ~Long(q, m)) /\ m \notin x =>
          h.len = q[m].len /\ Chain(h.runs, m, h.len)
    BY DEF EntryOK, m
  <2> QED BY <1>3, <1>4, <1>5, <1>6, <2>1, <2>2, <2>3 DEF EntryOK, m
<1> QED
  BY <1>1, <1>2, <1>4, <1>7 DEF p, m

(***************************************************************************)
(* A fragment after which nothing more has been handled.                   *)
(***************************************************************************)
LEMMA NothingHandled ==
    ASSUME HandledInv, tx_pending, UNCHANGED <<tx_att, tx_cid, queued, mixed, handled>>,
           tx_pending' => tx_frag_offset' > 0
    PROVE  HandledInv'
<1>1. \A i \in 1 .. Len(handled) :
        Own(handled[i], queued) /\ From(handled[i].runs) = tx_att => tx_cid # Att
  BY DEF HandledInv
<1> QED
  BY <1>1 DEF HandledInv

(***************************************************************************)
(* A fragment after which one more message has been handled: the one in    *)
(* the slot, or one that the slot was filled over.                         *)
(***************************************************************************)
LEMMA OneMoreHandled ==
    ASSUME TypeOK, HandledInv, tx_pending, UNCHANGED <<tx_att, tx_cid, queued, mixed>>,
           tx_pending' => tx_frag_offset' > 0,
           NEW h \in Entries, handled' = Append(handled, h), EntryOK(h, queued, mixed),
           Own(h, queued) => \A i \in 1 .. Len(handled) :
              Own(handled[i], queued) => From(handled[i].runs) < From(h.runs),
           Own(h, queued) /\ From(h.runs) = tx_att /\ tx_pending' => tx_cid # Att
    PROVE  HandledInv'
<1> DEFINE n == Len(handled)
<1>1. /\ handled' \in Seq(Entries) /\ n \in Nat /\ Len(handled') = n + 1
      /\ \A i \in 1 .. n : handled'[i] = handled[i]
      /\ handled'[n + 1] = h
  BY Appended DEF HandledInv
<1>2. /\ \A i \in 1 .. n : EntryOK(handled[i], queued, mixed)
      /\ \A i \in 1 .. n :
           Own(handled[i], queued) /\ From(handled[i].runs) = tx_att =>
             tx_frag_offset > 0 /\ tx_cid # Att
      /\ \A i, j \in 1 .. n :
           i < j /\ Own(handled[i], queued) /\ Own(handled[j], queued) =>
             From(handled[i].runs) < From(handled[j].runs)
  BY DEF HandledInv
<1> HIDE DEF n
<1>3. ASSUME NEW i \in 1 .. n + 1
      PROVE  /\ EntryOK(handled'[i], queued, mixed)
             /\ Own(handled'[i], queued) /\ From(handled'[i].runs) = tx_att /\ tx_pending' =>
                  tx_frag_offset' > 0 /\ tx_cid # Att
  <2>1. CASE i \in 1 .. n
    BY <1>1, <1>2, <2>1
  <2>2. CASE i = n + 1
    BY <1>1, <2>2
  <2> QED BY <1>1, <2>1, <2>2
<1>4. ASSUME NEW i \in 1 .. n, Own(h, queued), Own(handled[i], queued)
      PROVE  From(handled[i].runs) < From(h.runs)
  BY <1>4 DEF n
<1>5. ASSUME NEW i \in 1 .. n + 1, NEW j \in 1 .. n + 1, i < j,
             Own(handled'[i], queued), Own(handled'[j], queued)
      PROVE  From(handled'[i].runs) < From(handled'[j].runs)
  <2>1. i \in 1 .. n /\ handled'[i] = handled[i]
    BY <1>1, <1>5
  <2>2. CASE j \in 1 .. n
    BY <1>1, <1>2, <1>5, <2>1, <2>2
  <2>3. CASE j = n + 1
    BY <1>1, <1>4, <1>5, <2>1, <2>3
  <2> QED BY <1>1, <2>2, <2>3
<1> QED
  BY <1>1, <1>3, <1>5 DEF HandledInv

(***************************************************************************)
(* Unless the message in the slot is half sent to another channel, all     *)
(* that was handled on its own channel comes before it.                    *)
(***************************************************************************)
LEMMA HandledBefore ==
    ASSUME TypeOK, SlotInv, HandledInv, tx_pending, tx_frag_offset = 0 \/ tx_cid = Att,
           NEW i \in 1 .. Len(handled), Own(handled[i], queued)
    PROVE  From(handled[i].runs) < tx_att
<1>1. From(handled[i].runs) # tx_att
  BY DEF HandledInv, TypeOK
<1>2. From(handled[i].runs) \in 1 .. Len(queued) /\ tx_att = Len(queued)
  BY DEF HandledInv, EntryOK, SlotInv
<1> QED
  BY <1>1, <1>2 DEF TypeOK

(***************************************************************************)
(* What a fragment makes of the slot, whoever receives it.                 *)
(***************************************************************************)
LEMMA FragmentSlot ==
    ASSUME TypeOK, FreshSlot, SlotInv, respond_fragment
    PROVE  /\ SlotInv' /\ UNCHANGED <<tx_att, tx_att_len, tx_cid, queued, mixed>>
           /\ tx_pending' => tx_frag_offset' > 0
           /\ tx_frag_offset' > 0 => /\ tx_frag_offset' = tx_frag_offset + Chunk
                                     /\ tx_frag_offset + Chunk < tx_att_len
           /\ ~tx_pending' => tx_frag_offset + Chunk >= tx_att_len /\ tx_frag_offset' = 0
           /\ Chunk \in Nat
           /\ tx_att \notin mixed \/ tx_frag_offset = 0 => tx_frag_offset + Chunk <= tx_att_len
<1>1. /\ tx_pending = TRUE
      /\ UNCHANGED <<tx_att, tx_att_len, tx_cid, queued, mixed, tx_pdu_max>>
      /\ tx_frag_offset' = IF tx_frag_offset + Chunk >= tx_att_len THEN 0
                           ELSE tx_frag_offset + Chunk
      /\ tx_pending' = ~(tx_frag_offset + Chunk >= tx_att_len)
  BY DEF respond_fragment, AdvanceFragment, TypeOK
<1>2. tx_frag_offset \in Nat /\ tx_att_len \in Nat /\ Chunk \in Nat
  BY ChunkBounds DEF TypeOK
<1>3. tx_att \notin mixed \/ tx_frag_offset = 0 => tx_frag_offset + Chunk <= tx_att_len
  BY <1>2, ChunkBounds DEF TypeOK, Underflow
<1>4. tx_frag_offset = 0 => /\ Chunk > 0
                            /\ Chunk < tx_att_len => tx_att_len > LL_PDU_PAYLOAD_DEFAULT - 4
  BY <1>1, <1>2, FirstChunk
<1>5. tx_frag_offset > 0 /\ tx_att \notin mixed => tx_att_len > LL_PDU_PAYLOAD_DEFAULT - 4
  BY DEF SlotInv
<1>6. CASE tx_frag_offset + Chunk >= tx_att_len
  <2>1. tx_frag_offset' = 0 /\ tx_pending' = FALSE
    BY <1>1, <1>6
  <2> QED BY <1>1, <1>2, <1>3, <1>6, <2>1 DEF SlotInv
<1>7. CASE ~(tx_frag_offset + Chunk >= tx_att_len)
  <2>1. tx_frag_offset' = tx_frag_offset + Chunk
    BY <1>1, <1>7
  <2>2. tx_pending' = TRUE
    BY <1>1, <1>7, Zenon
  <2>3. tx_frag_offset' > 0 /\ tx_frag_offset' < tx_att_len
    BY <1>2, <1>4, <1>7, <2>1
  <2>4. tx_att \notin mixed => tx_att_len > LL_PDU_PAYLOAD_DEFAULT - 4
    BY <1>2, <1>4, <1>5, <1>7
  <2>5. /\ tx_att >= 1 /\ tx_att_len = queued[tx_att].len
        /\ tx_att_len \in 1 .. LL_PDU_PAYLOAD_MAX
        /\ queued[tx_att].cid \in {Att, tx_cid}
    BY <1>1, Zenon DEF SlotInv
  <2>6. SlotInv'
    BY <1>1, <2>2, <2>3, <2>4, <2>5 DEF SlotInv
  <2> QED BY <1>1, <1>2, <1>3, <2>1, <2>2, <2>3, <2>6
<1> QED
  BY <1>6, <1>7

(***************************************************************************)
(* Only a mixed message is sent in an empty PDU; every other fragment is   *)
(* given to handle_l2cap.                                                  *)
(***************************************************************************)
LEMMA FragmentHeard ==
    ASSUME TypeOK, SlotInv, respond_fragment, tx_frag_offset = 0 \/ tx_att \notin mixed
    PROVE  handle_l2cap(Fragment)
<1>1. Fragment.len > 2
  <2>1. /\ tx_frag_offset \in Nat /\ tx_att_len \in Nat /\ tx_pdu_max \in Nat
        /\ Chunk \in Nat /\ tx_pdu_max >= 27 /\ tx_pending
    BY ChunkBounds DEF TypeOK, SlotInv, LL_PDU_PAYLOAD_DEFAULT, respond_fragment
  <2>2. Fragment.len = 2 + (IF First THEN 4 + Chunk ELSE Chunk)
    BY DEF Fragment
  <2>3. CASE tx_frag_offset = 0
    BY <2>1, <2>2, <2>3 DEF First
  <2>4. CASE tx_frag_offset # 0
    <3> DEFINE left == tx_att_len - tx_frag_offset
    <3>1. left \in Nat /\ left > 0 /\ left <= LL_PDU_PAYLOAD_MAX
      <4>1. tx_frag_offset < tx_att_len
        BY <2>1, <2>4 DEF SlotInv
      <4>2. tx_att_len \in 1 .. LL_PDU_PAYLOAD_MAX
        BY <2>1, Zenon DEF SlotInv
      <4> QED BY <2>1, <4>1, <4>2 DEF LL_PDU_PAYLOAD_MAX
    <3>2. left % Usize = left
      BY <3>1, NoWrap
    <3>3. Avail = tx_pdu_max /\ Chunk = Lesser(left, Avail)
      BY <2>4, <3>2 DEF Chunk, Avail, First
    <3> QED BY <2>1, <2>2, <2>4, <3>1, <3>3 DEF First, Lesser
  <2> QED BY <2>3, <2>4
<1> QED
  BY <1>1 DEF respond_fragment

(***************************************************************************)
(* A run that continues a chain.                                           *)
(***************************************************************************)
LEMMA ChainGrows ==
    ASSUME NEW runs \in Seq(Run), NEW m \in Nat, NEW n \in Nat, NEW k \in Nat,
           Len(runs) >= 1, Chain(runs, m, n)
    PROVE  LET all == Append(runs, <<m, n, k>>)
           IN  /\ all \in Seq(Run) /\ Len(all) >= 1 /\ Chain(all, m, k)
               /\ From(all) = m /\ all[1][2] = 0
<1> DEFINE all == Append(runs, <<m, n, k>>)
           l == Len(runs)
<1>1. <<m, n, k>> \in Run
  BY DEF Run
<1>2. /\ all \in Seq(Run) /\ l \in Nat /\ Len(all) = l + 1
      /\ \A i \in 1 .. l : all[i] = runs[i]
      /\ all[l + 1] = <<m, n, k>>
  BY <1>1, Appended
<1>3. /\ \A r \in 1 .. l :
           runs[r][1] = m /\ runs[r][2] = IF r = 1 THEN 0 ELSE runs[r - 1][3]
      /\ runs[l][3] = n /\ l >= 1
  BY DEF Chain
<1> HIDE DEF all, l
<1>4. ASSUME NEW r \in 1 .. l + 1
      PROVE  all[r][1] = m /\ all[r][2] = IF r = 1 THEN 0 ELSE all[r - 1][3]
  <2>1. CASE r \in 1 .. l /\ r = 1
    BY <1>2, <1>3, <2>1
  <2>2. CASE r \in 1 .. l /\ r # 1
    <3>1. r - 1 \in 1 .. l
      BY <1>2, <2>2
    <3> QED BY <1>2, <1>3, <2>2, <3>1
  <2>3. CASE r = l + 1
    <3>1. all[r][1] = m /\ all[r][2] = n
      BY <1>2, <2>3
    <3>2. r # 1 /\ r - 1 = l /\ all[l] = runs[l]
      BY <1>2, <1>3, <2>3
    <3> QED BY <1>3, <3>1, <3>2
  <2> QED BY <1>2, <2>1, <2>2, <2>3
<1>5. all[1] = runs[1] /\ runs[1][1] = m /\ runs[1][2] = 0
  BY <1>2, <1>3
<1>6. all[Len(all)][3] = k
  BY <1>2
<1> QED
  BY <1>2, <1>3, <1>4, <1>5, <1>6 DEF all, Chain, From

(***************************************************************************)
(* A chain of one run.                                                     *)
(***************************************************************************)
LEMMA ChainStarts ==
    ASSUME NEW m \in Nat, NEW n \in Nat
    PROVE  LET all == <<<<m, 0, n>>>>
           IN  /\ all \in Seq(Run) /\ Len(all) >= 1 /\ Chain(all, m, n)
               /\ From(all) = m /\ all[1][2] = 0
<1>1. <<m, 0, n>> \in Run
  BY DEF Run
<1> QED
  BY <1>1 DEF Chain, From

(***************************************************************************)
(* The message in the slot, known by its place in the queue: it goes to    *)
(* its own channel, or it is an ATT message behind another one's.          *)
(***************************************************************************)
LEMMA SlotMessage ==
    ASSUME TypeOK, SlotInv, tx_pending
    PROVE  /\ tx_att \in 1 .. Len(queued) /\ Len(queued) \in Nat
           /\ queued[tx_att].len = tx_att_len /\ queued[tx_att].cid \in Cids
           /\ tx_cid = Att => queued[tx_att].cid = Att
           /\ queued[tx_att].cid # tx_cid => Lost(queued, mixed, tx_att)
           /\ tx_frag_offset > 0 /\ tx_cid # Att => Lost(queued, mixed, tx_att)
<1>1. queued \in Seq([cid : Cids, len : Nat]) /\ Len(queued) \in Nat
  BY DEF TypeOK
<1>2. /\ tx_att = Len(queued) /\ tx_att >= 1 /\ tx_att_len = queued[tx_att].len
      /\ queued[tx_att].cid \in {Att, tx_cid}
  BY DEF SlotInv
<1>3. queued[tx_att].cid \in Cids /\ tx_cid \in Cids
  <2>1. tx_att \in 1 .. Len(queued)
    BY <1>1, <1>2
  <2>2. queued[tx_att] \in [cid : Cids, len : Nat]
    BY <1>1, <2>1, ElementOf
  <2> QED BY <2>2 DEF TypeOK
<1>4. queued[tx_att].cid # tx_cid => Lost(queued, mixed, tx_att)
  <2> SUFFICES ASSUME queued[tx_att].cid # tx_cid PROVE Lost(queued, mixed, tx_att)
    OBVIOUS
  <2>1. queued[tx_att].cid = Att /\ tx_cid # Att
    BY <1>2
  <2>2. PICK k \in 1 .. tx_att : queued[k].cid \in OtherCid
    BY <2>1 DEF SlotInv
  <2>3. k # tx_att
    BY <2>1, <2>2 DEF Att, OtherCid
  <2>4. k \in 1 .. tx_att - 1
    BY <1>1, <1>2, <2>2, <2>3
  <2> QED BY <2>1, <2>2, <2>4 DEF Lost
<1>5. tx_frag_offset > 0 /\ tx_cid # Att => Lost(queued, mixed, tx_att)
  <2> SUFFICES ASSUME tx_frag_offset > 0, tx_cid # Att, queued[tx_att].cid = tx_cid,
                      tx_att \notin mixed
               PROVE  Lost(queued, mixed, tx_att)
    BY <1>4 DEF Lost
  <2>1. tx_att_len > LL_PDU_PAYLOAD_DEFAULT - 4
    BY DEF SlotInv
  <2> QED BY <1>2, <1>3, <2>1 DEF Lost, Long, Cids
<1> QED
  BY <1>1, <1>2, <1>3, <1>4, <1>5

-----------------------------------------------------------------------------
(* One fragment: it is the first or a later one of a message that goes to  *)
(* handle_att or to another handler.                                       *)

FragmentKept == SlotInv' /\ RxInv' /\ HandledInv'

(***************************************************************************)
(* The first fragment of an ATT message: a whole message is handled, the   *)
(* beginning of a longer one is kept.                                      *)
(***************************************************************************)
LEMMA FirstOfAtt ==
    ASSUME TypeOK, FreshSlot, DeliveryInv, respond_fragment, tx_frag_offset = 0, tx_cid = Att
    PROVE  FragmentKept
<1> DEFINE m == tx_att
           n == tx_att_len
           c == Chunk
           all == <<<<m, 0, c>>>>
<1>1. /\ SlotInv /\ RxInv /\ HandledInv /\ tx_pending
  BY DEF DeliveryInv, respond_fragment
<1>2. /\ SlotInv' /\ UNCHANGED <<tx_att, tx_att_len, tx_cid, queued, mixed>>
      /\ tx_pending' => tx_frag_offset' > 0
      /\ tx_frag_offset' > 0 => tx_frag_offset' = c /\ c < n
      /\ ~tx_pending' => c >= n /\ tx_frag_offset' = 0
      /\ c \in Nat /\ c <= n /\ m \in Nat /\ n \in Nat
  BY <1>1, FragmentSlot DEF TypeOK
<1>3. n <= 251
  <2>1. n \in 1 .. LL_PDU_PAYLOAD_MAX
    BY <1>1, Zenon DEF SlotInv
  <2> QED BY <2>1 DEF LL_PDU_PAYLOAD_MAX
<1>4. Collect(<< >>, 0, n, Fragment)
  BY <1>1, FragmentFields, FragmentHeard DEF handle_l2cap
<1>5. Lesser(RunLength(Fragment.run), RX_L2CAP_LEN - 0) = c /\ Lesser(n, RX_L2CAP_LEN) = n
  BY <1>1, <1>2, <1>3, FragmentFields DEF Lesser, RX_L2CAP_LEN
<1>6. Append(<< >>, <<Fragment.run[1], Fragment.run[2], Fragment.run[2] + c>>) = all
  <2>1. Fragment.run[1] = m /\ Fragment.run[2] = 0
    BY <1>1, FragmentFields
  <2> QED BY <1>2, <2>1
<1>7. IF 0 + c >= n
      THEN /\ handled' = Append(handled, [cid |-> Att, len |-> n, runs |-> all])
           /\ rx_l2cap' = << >> /\ rx_l2cap_len' = 0
           /\ rx_l2cap_msg_len' = n
      ELSE /\ rx_l2cap' = all /\ rx_l2cap_len' = 0 + c
           /\ rx_l2cap_msg_len' = n
           /\ UNCHANGED handled
  BY <1>4, <1>5, <1>6 DEF Collect
<1>8. all \in Seq(Run) /\ Len(all) >= 1 /\ Chain(all, m, c) /\ From(all) = m /\ all[1][2] = 0
  BY <1>2, ChainStarts
<1>9. /\ m \in 1 .. Len(queued) /\ queued[m].len = n /\ queued[m].cid = Att
      /\ m = Len(queued)
  BY <1>1, SlotMessage DEF SlotInv
<1> HIDE DEF m, n, c, all
<1>10. CASE c >= n
  <2> DEFINE h == [cid |-> Att, len |-> n, runs |-> all]
  <2>1. handled' = Append(handled, h) /\ rx_l2cap' = << >>
    BY <1>2, <1>7, <1>10
  <2>2. h \in Entries /\ h.cid = Att /\ h.len = n /\ h.runs = all
    BY <1>2, <1>8 DEF Entries, Cids
  <2> HIDE DEF h
  <2>3. c = n
    BY <1>2, <1>10
  <2>4. EntryOK(h, queued, mixed) /\ From(h.runs) = m
    BY <1>8, <1>9, <2>2, <2>3 DEF EntryOK, Own
  <2>5. ~(tx_frag_offset' > 0) /\ ~tx_pending'
    BY <1>2, <1>10
  <2>5a. \A i \in 1 .. Len(handled) : Own(handled[i], queued) => From(handled[i].runs) < m
    BY <1>1, HandledBefore DEF m
  <2>6. HandledInv'
    BY <1>1, <1>2, <1>9, <2>1, <2>2, <2>4, <2>5, <2>5a, OneMoreHandled DEF m
  <2>7. RxInv'
    BY <2>1, <2>5 DEF RxInv
  <2> QED BY <1>2, <2>6, <2>7 DEF FragmentKept
<1>11. CASE ~(c >= n)
  <2>1. rx_l2cap' = all /\ rx_l2cap_len' = c /\ rx_l2cap_msg_len' = n /\ handled' = handled
    BY <1>2, <1>7, <1>11
  <2>2. tx_frag_offset' = c /\ c > 0 /\ tx_pending'
    BY <1>2, <1>11
  <2>3. HandledInv'
    BY <1>1, <1>2, <2>1, <2>2, NothingHandled
  <2>4. RxInv'
    <3>1. ~Astray'
      BY <1>1, <1>2 DEF SlotInv, Astray
    <3> QED BY <1>2, <1>8, <2>1, <2>2, <3>1 DEF RxInv, m, n
  <2> QED BY <1>2, <2>3, <2>4 DEF FragmentKept
<1> QED
  BY <1>10, <1>11

(***************************************************************************)
(* A later fragment of an ATT message is put behind those before it.       *)
(***************************************************************************)
LEMMA LaterOfAtt ==
    ASSUME TypeOK, FreshSlot, DeliveryInv, respond_fragment, tx_frag_offset # 0, ~Astray
    PROVE  FragmentKept
<1> DEFINE m == tx_att
           n == tx_att_len
           k == tx_frag_offset
           c == Chunk
           all == Append(rx_l2cap, <<m, k, k + c>>)
<1>1. /\ SlotInv /\ RxInv /\ HandledInv /\ tx_pending
  BY DEF DeliveryInv, respond_fragment
<1>2. /\ SlotInv' /\ UNCHANGED <<tx_att, tx_att_len, tx_cid, queued, mixed>>
      /\ tx_pending' => tx_frag_offset' > 0
      /\ tx_frag_offset' > 0 => tx_frag_offset' = k + c /\ k + c < n
      /\ ~tx_pending' => k + c >= n /\ tx_frag_offset' = 0
      /\ c \in Nat /\ k + c <= n /\ m \in Nat /\ n \in Nat /\ k \in Nat /\ k > 0
  BY <1>1, FragmentSlot DEF TypeOK, Astray
<1>3. n <= 251
  <2>1. n \in 1 .. LL_PDU_PAYLOAD_MAX
    BY <1>1, Zenon DEF SlotInv
  <2> QED BY <2>1 DEF LL_PDU_PAYLOAD_MAX
<1>4. /\ rx_l2cap_len = k /\ rx_l2cap_msg_len = n /\ rx_l2cap \in Seq(Run)
      /\ Len(rx_l2cap) >= 1 /\ Chain(rx_l2cap, m, k)
  BY <1>1, <1>2 DEF RxInv
<1>5. Collect(rx_l2cap, k, n, Fragment)
  BY <1>1, <1>2, <1>4, FragmentFields, FragmentHeard DEF handle_l2cap, Astray
<1>6. Lesser(RunLength(Fragment.run), RX_L2CAP_LEN - k) = c /\ Lesser(n, RX_L2CAP_LEN) = n
  BY <1>1, <1>2, <1>3, FragmentFields DEF Lesser, RX_L2CAP_LEN
<1>7. Append(rx_l2cap, <<Fragment.run[1], Fragment.run[2], Fragment.run[2] + c>>) = all
  <2>1. Fragment.run[1] = m /\ Fragment.run[2] = k
    BY <1>1, FragmentFields
  <2> QED BY <2>1
<1>8. IF k + c >= n
      THEN /\ handled' = Append(handled, [cid |-> Att, len |-> n, runs |-> all])
           /\ rx_l2cap' = << >> /\ rx_l2cap_len' = 0
           /\ rx_l2cap_msg_len' = n
      ELSE /\ rx_l2cap' = all /\ rx_l2cap_len' = k + c
           /\ rx_l2cap_msg_len' = n
           /\ UNCHANGED handled
  BY <1>5, <1>6, <1>7 DEF Collect
<1>9. /\ all \in Seq(Run) /\ Len(all) >= 1 /\ Chain(all, m, k + c)
      /\ From(all) = m /\ all[1][2] = 0
  BY <1>2, <1>4, ChainGrows
<1>10. /\ m \in 1 .. Len(queued) /\ queued[m].len = n /\ queued[m].cid = Att
       /\ m = Len(queued)
  BY <1>1, SlotMessage DEF SlotInv, Astray
<1> HIDE DEF m, n, k, c, all
<1>11. CASE k + c >= n
  <2> DEFINE h == [cid |-> Att, len |-> n, runs |-> all]
  <2>1. handled' = Append(handled, h) /\ rx_l2cap' = << >>
    BY <1>8, <1>11
  <2>2. h \in Entries /\ h.cid = Att /\ h.len = n /\ h.runs = all
    BY <1>2, <1>9 DEF Entries, Cids
  <2> HIDE DEF h
  <2>3. k + c = n
    BY <1>2, <1>11
  <2>4. EntryOK(h, queued, mixed) /\ From(h.runs) = m
    BY <1>9, <1>10, <2>2, <2>3 DEF EntryOK, Own
  <2>5. ~(tx_frag_offset' > 0) /\ ~tx_pending'
    BY <1>2, <1>11
  <2>5a. \A i \in 1 .. Len(handled) : Own(handled[i], queued) => From(handled[i].runs) < m
    BY <1>1, HandledBefore DEF m, Astray
  <2>6. HandledInv'
    BY <1>1, <1>2, <1>10, <2>1, <2>2, <2>4, <2>5, <2>5a, OneMoreHandled DEF m
  <2>7. RxInv'
    BY <2>1, <2>5 DEF RxInv
  <2> QED BY <1>2, <2>6, <2>7 DEF FragmentKept
<1>12. CASE ~(k + c >= n)
  <2>1. rx_l2cap' = all /\ rx_l2cap_len' = k + c /\ rx_l2cap_msg_len' = n /\ handled' = handled
    BY <1>8, <1>12
  <2>2. tx_frag_offset' = k + c /\ tx_pending'
    BY <1>2, <1>12
  <2>3. HandledInv'
    BY <1>1, <1>2, <2>1, <2>2, NothingHandled
  <2>4. RxInv'
    <3>1. ~Astray'
      BY <1>2 DEF Astray
    <3> QED BY <1>2, <1>9, <2>1, <2>2, <3>1 DEF RxInv, m, n
  <2> QED BY <1>2, <2>3, <2>4 DEF FragmentKept
<1> QED
  BY <1>11, <1>12

(***************************************************************************)
(* The first fragment of a message for another channel is handled as it    *)
(* is: it is the whole message if that fits one PDU.                       *)
(***************************************************************************)
LEMMA FirstOfOther ==
    ASSUME TypeOK, FreshSlot, DeliveryInv, respond_fragment, tx_frag_offset = 0, tx_cid # Att
    PROVE  FragmentKept
<1> DEFINE m == tx_att
           n == tx_att_len
           c == Chunk
           all == <<<<m, 0, c>>>>
           h == [cid |-> tx_cid, len |-> n, runs |-> all]
<1>1. /\ SlotInv /\ RxInv /\ HandledInv /\ tx_pending
  BY DEF DeliveryInv, respond_fragment
<1>2. /\ SlotInv' /\ UNCHANGED <<tx_att, tx_att_len, tx_cid, queued, mixed>>
      /\ tx_pending' => tx_frag_offset' > 0
      /\ c \in Nat /\ c <= n /\ m \in Nat /\ n \in Nat
  BY <1>1, FragmentSlot DEF TypeOK
<1>3. c < n => n > LL_PDU_PAYLOAD_DEFAULT - 4
  BY <1>1, FirstChunk
<1>4. Dispatch(Fragment)
  BY <1>1, FragmentFields, FragmentHeard DEF handle_l2cap
<1>5. <<Fragment.run>> = all /\ Fragment.cid = tx_cid /\ Fragment.msg_len = n
  BY <1>1, <1>2, FragmentFields
<1>6. handled' = Append(handled, h) /\ rx_l2cap' = << >> /\ rx_l2cap_len' = 0
  BY <1>4, <1>5 DEF Dispatch
<1>7. all \in Seq(Run) /\ Len(all) >= 1 /\ Chain(all, m, c) /\ From(all) = m /\ all[1][2] = 0
  BY <1>2, ChainStarts
<1>8. /\ m \in 1 .. Len(queued) /\ queued[m].len = n /\ m = Len(queued)
      /\ queued[m].cid # tx_cid => Lost(queued, mixed, m)
  BY <1>1, SlotMessage DEF SlotInv
<1>9. queued[m].cid = Att => queued[m].cid # tx_cid
  OBVIOUS
<1> HIDE DEF m, n, c, all
<1>10. h \in Entries /\ h.cid = tx_cid /\ h.len = n /\ h.runs = all
  BY <1>2, <1>7 DEF Entries, TypeOK
<1> HIDE DEF h
<1>11. Own(h, queued) <=> queued[m].cid = tx_cid
  BY <1>7, <1>10 DEF Own
<1>12. ~Long(queued, m) => c = n
  BY <1>2, <1>3, <1>8 DEF Long
<1>13. EntryOK(h, queued, mixed) /\ From(h.runs) = m
  BY <1>7, <1>8, <1>9, <1>10, <1>11, <1>12 DEF EntryOK
<1>14a. \A i \in 1 .. Len(handled) : Own(handled[i], queued) => From(handled[i].runs) < m
  BY <1>1, HandledBefore DEF m
<1>14. HandledInv'
  BY <1>1, <1>2, <1>6, <1>10, <1>13, <1>14a, OneMoreHandled DEF m
<1>15. RxInv'
  BY <1>2, <1>6 DEF RxInv, Astray
<1> QED
  BY <1>2, <1>14, <1>15 DEF FragmentKept

(***************************************************************************)
(* A later fragment of a message for another channel or of a mixed one is  *)
(* misread, or put behind what has been collected: what is handled then is *)
(* of a message that the code leads astray.                                *)
(***************************************************************************)
LEMMA LaterAstray ==
    ASSUME TypeOK, FreshSlot, RxBound, DeliveryInv, respond_fragment, tx_frag_offset # 0,
           Astray
    PROVE  FragmentKept
<1> DEFINE m == tx_att
           k == tx_frag_offset
           c == Chunk
           F == Fragment
<1>1. /\ SlotInv /\ RxInv /\ HandledInv /\ tx_pending
  BY DEF DeliveryInv, respond_fragment
<1>2. /\ SlotInv' /\ UNCHANGED <<tx_att, tx_att_len, tx_cid, queued, mixed>> /\ Astray'
      /\ tx_pending' => tx_frag_offset' > 0
      /\ c \in Nat /\ m \in Nat /\ k \in Nat /\ k > 0
  BY <1>1, FragmentSlot DEF TypeOK, Astray
<1>3. /\ F.run[1] = m /\ F.run[2] = k /\ F.run[3] = k + c /\ RunLength(F.run) = c
      /\ F.llid = "CONTINUATION" /\ (handle_l2cap(F) \/ UNCHANGED rxVars)
  BY <1>1, FragmentFields DEF respond_fragment
<1>4. m \in 1 .. Len(queued) /\ m = Len(queued) /\ Lost(queued, mixed, m)
  <2>1. m \in 1 .. Len(queued) /\ m = Len(queued)
    BY <1>1, SlotMessage DEF SlotInv
  <2>2. Lost(queued, mixed, m)
    BY <1>1, <1>2, SlotMessage DEF Astray, Lost
  <2> QED BY <2>1, <2>2
<1>5. rx_l2cap_len \in Nat /\ rx_l2cap_len <= 256 /\ rx_l2cap_msg_len \in Nat
  BY DEF TypeOK, RxBound, RX_L2CAP_LEN
<1> HIDE DEF m, k, c, F
<1>6. ASSUME NEW h \in Entries, Len(h.runs) >= 1, From(h.runs) \in 1 .. m,
             Lost(queued, mixed, From(h.runs)), handled' = Append(handled, h),
             \/ h.runs[1][2] > 0
             \/ /\ From(h.runs) < m /\ From(h.runs) \in mixed
                /\ \A i \in 1 .. Len(handled) :
                     Own(handled[i], queued) => From(handled[i].runs) < From(h.runs)
      PROVE  HandledInv'
  <2>1. From(h.runs) \in 1 .. Len(queued)
    BY <1>4, <1>6
  <2>2. Own(h, queued) =>
          /\ From(h.runs) < m /\ From(h.runs) \in mixed
          /\ \A i \in 1 .. Len(handled) :
               Own(handled[i], queued) => From(handled[i].runs) < From(h.runs)
    <3>1. CASE h.runs[1][2] > 0
      BY <3>1 DEF Own
    <3> QED BY <1>6, <3>1
  <2>3. EntryOK(h, queued, mixed)
    BY <1>6, <2>1, <2>2 DEF EntryOK
  <2>4. Own(h, queued) => From(h.runs) # tx_att
    BY <1>2, <1>6, <2>2 DEF m
  <2> QED BY <1>1, <1>2, <1>6, <2>2, <2>3, <2>4, OneMoreHandled
<1>7. ASSUME UNCHANGED rxVars PROVE FragmentKept
  <2>1. UNCHANGED <<rx_l2cap, rx_l2cap_len, handled>>
    BY <1>7 DEF rxVars
  <2>2. HandledInv'
    BY <1>1, <1>2, <2>1, NothingHandled
  <2>3. rx_l2cap_len > 0 => Collected
    BY <1>1, <1>2 DEF RxInv, k
  <2>4. RxInv'
    BY <1>1, <1>2, <2>1, <2>3 DEF RxInv, Collected
  <2> QED BY <1>2, <2>2, <2>4 DEF FragmentKept
<1>8. CASE handle_l2cap(F) /\ rx_l2cap_len = 0
  <2> DEFINE rest == <<m, k + 4, k + c>>
  <2>1. Misread(F)
    BY <1>3, <1>8 DEF handle_l2cap
  <2>2. <<F.run[1], F.run[2] + 4, F.run[3]>> = rest
    BY <1>3
  <2>3. /\ rest \in Run /\ <<rest>> \in Seq(Run) /\ Len(<<rest>>) >= 1
        /\ From(<<rest>>) = m /\ <<rest>>[1][2] > 0
    BY <1>2 DEF Run, From
  <2> HIDE DEF rest
  <2>4. CASE UNCHANGED rxVars
    BY <1>7, <2>4
  <2>5. CASE /\ handled' = Append(handled, [cid |-> "MISREAD", len |-> 0, runs |-> <<rest>>])
             /\ rx_l2cap' = << >> /\ rx_l2cap_len' = 0
    <3> DEFINE h == [cid |-> "MISREAD", len |-> 0, runs |-> <<rest>>]
    <3>1. h \in Entries /\ h.runs = <<rest>>
      BY <2>3 DEF Entries
    <3> HIDE DEF h
    <3>2. m \in 1 .. m
      BY <1>2, <1>4
    <3>3. HandledInv'
      BY <1>4, <1>6, <2>3, <2>5, <3>1, <3>2 DEF h
    <3>4. RxInv'
      BY <1>2, <2>5 DEF RxInv
    <3> QED BY <1>2, <3>3, <3>4 DEF FragmentKept
  <2>6. CASE rx_l2cap' = <<rest>> /\ handled' = handled
    <3>1. HandledInv'
      BY <1>1, <1>2, <2>6, NothingHandled
    <3>2. Collected'
      BY <1>2, <1>4, <2>3, <2>6 DEF Collected, m
    <3>3. RxInv'
      BY <1>2, <2>3, <2>6, <3>2 DEF RxInv
    <3> QED BY <1>2, <3>1, <3>3 DEF FragmentKept
  <2> QED BY <2>1, <2>2, <2>4, <2>5, <2>6 DEF Misread
<1>9. CASE handle_l2cap(F) /\ rx_l2cap_len > 0
  <2>1. Collect(rx_l2cap, rx_l2cap_len, rx_l2cap_msg_len, F)
    BY <1>3, <1>5, <1>9 DEF handle_l2cap
  <2>2. rx_l2cap \in Seq(Run) /\ Collected
    BY <1>1, <1>2, <1>9 DEF RxInv, k
  <2> DEFINE body == Lesser(RunLength(F.run), RX_L2CAP_LEN - rx_l2cap_len)
             all == Append(rx_l2cap, <<F.run[1], F.run[2], F.run[2] + body>>)
  <2>3. body \in Nat
    BY <1>2, <1>3, <1>5 DEF Lesser, RX_L2CAP_LEN
  <2> HIDE DEF body
  <2>4. <<F.run[1], F.run[2], F.run[2] + body>> \in Run
    BY <1>2, <1>3, <2>3 DEF Run
  <2>5. /\ all \in Seq(Run) /\ Len(all) = Len(rx_l2cap) + 1 /\ Len(rx_l2cap) \in Nat
        /\ \A i \in 1 .. Len(rx_l2cap) : all[i] = rx_l2cap[i]
    BY <2>2, <2>4, Appended
  <2>6. \/ /\ handled' = Append(handled, [cid |-> Att, len |-> rx_l2cap_msg_len, runs |-> all])
           /\ rx_l2cap' = << >> /\ rx_l2cap_len' = 0
        \/ rx_l2cap' = all /\ handled' = handled
    BY <2>1 DEF Collect, body
  <2> HIDE DEF all
  <2>7. Len(all) >= 1 /\ From(all) = From(rx_l2cap) /\ all[1] = rx_l2cap[1]
    <3>1. all[1] = rx_l2cap[1]
      BY <2>2, <2>5 DEF Collected
    <3> QED BY <2>5, <3>1 DEF From
  <2>8. CASE /\ handled' = Append(handled, [cid |-> Att, len |-> rx_l2cap_msg_len, runs |-> all])
             /\ rx_l2cap' = << >> /\ rx_l2cap_len' = 0
    <3> DEFINE h == [cid |-> Att, len |-> rx_l2cap_msg_len, runs |-> all]
    <3>1. h \in Entries /\ h.runs = all
      BY <1>5, <2>5 DEF Entries, Cids
    <3> HIDE DEF h
    <3>2. HandledInv'
      BY <1>6, <2>2, <2>7, <2>8, <3>1 DEF h, Collected, m
    <3>3. RxInv'
      BY <1>2, <2>8 DEF RxInv
    <3> QED BY <1>2, <3>2, <3>3 DEF FragmentKept
  <2>9. CASE rx_l2cap' = all /\ handled' = handled
    <3>1. HandledInv'
      BY <1>1, <1>2, <2>9, NothingHandled
    <3>2. Collected'
      BY <1>2, <2>2, <2>7, <2>9 DEF Collected
    <3>3. RxInv'
      BY <1>2, <2>5, <2>9, <3>2 DEF RxInv
    <3> QED BY <1>2, <3>1, <3>3 DEF FragmentKept
  <2> QED BY <2>6, <2>8, <2>9
<1> QED
  BY <1>3, <1>5, <1>7, <1>8, <1>9

-----------------------------------------------------------------------------
(***************************************************************************)
(* A message queued: it comes after everything handled.  If it takes over  *)
(* the offset of one half sent, what the peer has collected of that one    *)
(* belongs to a message that counts as mixed from now on.                  *)
(***************************************************************************)
LEMMA QueueDelivery ==
    ASSUME TypeOK, FreshSlot, DeliveryInv, queue_att \/ queue_l2cap
    PROVE  DeliveryInv'
<1>1. SlotInv /\ RxInv /\ HandledInv
  BY DEF DeliveryInv
<1>2. PICK cid \in Cids, len \in 1 .. LL_PDU_PAYLOAD_MAX :
        /\ Fill(cid, len)
        /\ \/ /\ cid = Att /\ tx_cid' = tx_cid /\ tx_frag_offset' = tx_frag_offset
              /\ mixed' = IF tx_frag_offset # 0 THEN mixed \cup {tx_att, tx_att'} ELSE mixed
           \/ /\ cid \in OtherCid /\ tx_cid' = cid /\ tx_frag_offset' = 0
              /\ mixed' = mixed
  BY L2capAssumption DEF queue_att, queue_l2cap, Cids
<1> DEFINE e == [cid |-> cid, len |-> len]
           Queue == [cid : Cids, len : Nat]
<1>3. /\ queued' = Append(queued, e) /\ tx_att' = Len(queued') /\ tx_att_len' = len
      /\ tx_pending' = TRUE
      /\ UNCHANGED <<tx_pdu_max, rx_l2cap, rx_l2cap_len, rx_l2cap_msg_len, handled>>
  BY <1>2 DEF Fill, rxVars
<1>4. e \in Queue /\ queued \in Seq(Queue) /\ e.cid = cid /\ e.len = len
  BY DEF TypeOK, LL_PDU_PAYLOAD_MAX
<1> HIDE DEF e, Queue
<1>5. /\ Len(queued) \in Nat /\ Len(queued') = Len(queued) + 1
      /\ \A i \in 1 .. Len(queued) : queued'[i] = queued[i]
      /\ queued'[Len(queued) + 1] = e
  BY <1>3, <1>4, Appended
<1>6. /\ tx_att = Len(queued) /\ tx_att' = tx_att + 1 /\ tx_att \in Nat
      /\ tx_frag_offset \in Nat /\ (tx_frag_offset # 0 => tx_pending)
  BY <1>1, <1>3, <1>5 DEF SlotInv, TypeOK
<1>7. /\ mixed \subseteq mixed'
      /\ tx_frag_offset' # 0 => /\ tx_frag_offset' = tx_frag_offset /\ tx_cid' = tx_cid
                                /\ tx_att \in mixed' /\ tx_att' \in mixed'
  BY <1>2
<1>8. SlotInv'
  <2>1. tx_cid' # Att => \E k \in 1 .. tx_att' : queued'[k].cid \in OtherCid
    <3>1. CASE cid = Att /\ tx_cid' = tx_cid
      <4> SUFFICES ASSUME tx_cid # Att PROVE \E k \in 1 .. tx_att' : queued'[k].cid \in OtherCid
        BY <3>1
      <4>1. PICK k \in 1 .. Len(queued) : queued[k].cid \in OtherCid
        BY <1>1 DEF SlotInv
      <4> QED BY <1>3, <1>5, <4>1
    <3>2. CASE cid \in OtherCid
      <4>1. tx_att' \in 1 .. tx_att' /\ queued'[tx_att'].cid = cid
        BY <1>3, <1>4, <1>5
      <4> QED BY <3>2, <4>1
    <3> QED BY <1>2, <3>1, <3>2
  <2>2. /\ tx_att' >= 1 /\ tx_att_len' = queued'[tx_att'].len
        /\ queued'[tx_att'].cid \in {Att, tx_cid'}
    BY <1>2, <1>3, <1>4, <1>5
  <2>3. tx_pdu_max' >= LL_PDU_PAYLOAD_DEFAULT
    BY <1>1, <1>3 DEF SlotInv
  <2>4. mixed' \subseteq 1 .. Len(queued')
    <3>1. mixed \subseteq 1 .. Len(queued)
      BY <1>1 DEF SlotInv
    <3>2. tx_frag_offset # 0 => tx_att >= 1
      BY <1>1, <1>6 DEF SlotInv
    <3>3. tx_frag_offset # 0 => tx_att \in 1 .. Len(queued') /\ tx_att' \in 1 .. Len(queued')
      BY <1>3, <1>5, <1>6, <3>2
    <3>4. mixed \subseteq 1 .. Len(queued')
      BY <1>5, <3>1
    <3> QED BY <1>2, <3>3, <3>4
  <2>5. tx_frag_offset' > 0 <=> tx_att' \in mixed'
    <3>1. tx_att' \notin mixed
      BY <1>1, <1>6 DEF SlotInv
    <3> QED BY <1>2, <1>6, <3>1
  <2> QED BY <1>3, <2>1, <2>2, <2>3, <2>4, <2>5 DEF SlotInv
<1>9. ASSUME NEW i \in 1 .. Len(handled)
      PROVE  /\ EntryOK(handled[i], queued', mixed')
             /\ Own(handled[i], queued') <=> Own(handled[i], queued)
             /\ From(handled[i].runs) <= Len(queued) /\ From(handled[i].runs) \in Nat
  <2>1. EntryOK(handled[i], queued, mixed)
    BY <1>1 DEF HandledInv
  <2>2. From(handled[i].runs) \in Nat
    BY <1>5, <2>1 DEF EntryOK
  <2> QED BY <1>3, <1>4, <1>7, <2>1, <2>2, EntryStays DEF Queue
<1>10. \A i \in 1 .. Len(handled) : From(handled[i].runs) # tx_att'
  BY <1>3, <1>5, <1>9
<1>11. HandledInv'
  BY <1>1, <1>3, <1>9, <1>10 DEF HandledInv
<1>12. RxInv'
  <2>1. ASSUME tx_frag_offset' > 0, rx_l2cap_len > 0 PROVE Collected'
    <3>1. /\ tx_frag_offset > 0 /\ tx_pending /\ tx_cid' = tx_cid
          /\ tx_att \in mixed' /\ tx_att' \in mixed'
      BY <1>6, <1>7, <2>1
    <3>2. CASE ~Astray
      <4>1. /\ Len(rx_l2cap) >= 1 /\ Chain(rx_l2cap, tx_att, tx_frag_offset) /\ tx_cid = Att
        BY <1>1, <3>1, <3>2 DEF RxInv, Astray
      <4>2. From(rx_l2cap) = tx_att
        BY <4>1 DEF Chain, From
      <4>3. tx_att \in 1 .. tx_att'
        BY <1>1, <1>6, <3>1 DEF SlotInv
      <4>4. \A i \in 1 .. Len(handled) : Own(handled[i], queued') => From(handled[i].runs) < tx_att
        BY <1>1, <1>9, <3>1, <4>1, HandledBefore
      <4>5. Lost(queued', mixed', tx_att)
        BY <3>1 DEF Lost
      <4> QED BY <1>3, <1>6, <3>1, <4>1, <4>2, <4>3, <4>4, <4>5 DEF Collected
    <3>3. CASE Astray
      <4> DEFINE v == From(rx_l2cap)
      <4>1. Collected
        BY <1>1, <2>1, <3>1, <3>3 DEF RxInv
      <4>2. v \in 1 .. tx_att /\ Len(rx_l2cap) >= 1 /\ Lost(queued, mixed, v)
        BY <4>1 DEF Collected
      <4>3. Lost(queued', mixed', v)
        <5> HIDE DEF v
        <5>1. queued'[v] = queued[v] /\ \A k \in 1 .. v - 1 : queued'[k] = queued[k]
          BY <1>5, <1>6, <4>2
        <5> QED BY <1>7, <4>2, <5>1 DEF Lost, Long
      <4>4. v \in 1 .. tx_att' /\ v < tx_att'
        BY <1>6, <4>2
      <4> QED BY <1>3, <1>7, <1>9, <3>1, <4>1, <4>2, <4>3, <4>4 DEF Collected
    <3> QED BY <3>2, <3>3
  <2>2. tx_frag_offset' > 0 => Astray'
    BY <1>7 DEF Astray
  <2> QED BY <1>1, <1>3, <2>1, <2>2 DEF RxInv
<1> QED
  BY <1>8, <1>11, <1>12 DEF DeliveryInv

(***************************************************************************)
(* Control PDUs and empty ones between the fragments.                      *)
(***************************************************************************)
LEMMA OtherDelivery ==
    ASSUME Orderly, DeliveryInv, TypeOK,
           \/ handle_length_req \/ handle_length_rsp \/ handle_other_req
           \/ respond_control \/ respond_empty \/ fragment_panic \/ UNCHANGED vars
    PROVE  DeliveryInv'
<1>1. UNCHANGED <<tx_att, tx_att_len, tx_frag_offset, tx_pending, tx_cid, queued, mixed,
                  rx_l2cap, rx_l2cap_len, rx_l2cap_msg_len, handled>>
  BY DEF handle_length_req, handle_length_rsp, handle_other_req, respond_control,
     respond_empty, fragment_panic, vars, txVars, rxVars
<1>2. tx_pdu_max' >= LL_PDU_PAYLOAD_DEFAULT
  <2>1. CASE handle_length_req \/ handle_length_rsp
    <3>1. PICK max \in PduMaxes : tx_pdu_max' = Lesser(max, LL_PDU_PAYLOAD_MAX)
      BY <2>1 DEF handle_length_req, handle_length_rsp
    <3>2. max \in Nat /\ max >= 27
      BY L2capAssumption DEF Orderly, LL_PDU_PAYLOAD_DEFAULT
    <3> QED BY <3>1, <3>2 DEF Lesser, LL_PDU_PAYLOAD_MAX, LL_PDU_PAYLOAD_DEFAULT
  <2>2. CASE \/ handle_other_req \/ respond_control \/ respond_empty \/ fragment_panic
             \/ UNCHANGED vars
    <3>1. tx_pdu_max' = tx_pdu_max
      BY <2>2 DEF handle_other_req, respond_control, respond_empty, fragment_panic, vars
    <3> QED BY <3>1 DEF DeliveryInv, SlotInv
  <2> QED BY <2>1, <2>2
<1>3. SlotInv'
  BY <1>1, <1>2 DEF DeliveryInv, SlotInv
<1>4. RxInv' /\ HandledInv'
  BY <1>1 DEF DeliveryInv, RxInv, HandledInv, Collected, Astray
<1> QED
  BY <1>3, <1>4 DEF DeliveryInv

(***************************************************************************)
(* The slot, the bytes under way and what has been handled fit together in *)
(* every reachable state.                                                  *)
(***************************************************************************)
LEMMA Delivery ==
    ASSUME Orderly
    PROVE  Spec => []DeliveryInv
<1>1. Init => DeliveryInv
  <2> SUFFICES ASSUME Init PROVE DeliveryInv
    OBVIOUS
  <2>1. SlotInv
    BY DEF Init, SlotInv, LL_PDU_PAYLOAD_DEFAULT
  <2>2. RxInv
    BY DEF Init, RxInv
  <2>3. HandledInv
    BY DEF Init, HandledInv
  <2> QED BY <2>1, <2>2, <2>3 DEF DeliveryInv
<1>2. IInv /\ DeliveryInv /\ [Next]_vars => DeliveryInv'
  <2> SUFFICES ASSUME IInv, DeliveryInv, [Next]_vars PROVE DeliveryInv'
    OBVIOUS
  <2>1. TypeOK /\ FreshSlot /\ RxBound
    BY DEF IInv
  <2>2. CASE respond_fragment
    <3>1. FragmentKept
      BY <2>1, <2>2, FirstOfAtt, LaterOfAtt, FirstOfOther, LaterAstray
    <3> QED BY <3>1 DEF FragmentKept, DeliveryInv
  <2>3. CASE queue_att \/ queue_l2cap
    BY <2>1, <2>3, QueueDelivery
  <2>4. CASE \/ handle_length_req \/ handle_length_rsp \/ handle_other_req
             \/ respond_control \/ respond_empty \/ fragment_panic \/ UNCHANGED vars
    BY <2>1, <2>4, OtherDelivery
  <2> QED BY <2>2, <2>3, <2>4 DEF Next, respond
<1> QED
  BY <1>1, <1>2, SlotInvariant, PTL DEF Spec

(***************************************************************************)
(* The length of a queued message is a number.                             *)
(***************************************************************************)
LEMMA QueuedLength ==
    ASSUME TypeOK, NEW m \in 1 .. Len(queued)
    PROVE  queued[m].len \in Nat
<1>1. queued[m] \in [cid : Cids, len : Nat]
  BY ElementOf DEF TypeOK
<1> QED
  BY <1>1

(***************************************************************************)
(* Whatever control PDUs and changes of the PDU size come between its      *)
(* fragments, and whenever something is queued over it, an ATT message, or *)
(* another one that fits the smallest PDU, that reaches handle_att or the  *)
(* handler of its own channel is one whole queued message, unless it was   *)
(* half sent when an ATT message was queued over it, or is that message;   *)
(* and messages are handled once and in the order queued, for any lengths  *)
(* and any sizes a peer may legally announce.                              *)
(***************************************************************************)
THEOREM WholeOrNotAtAll ==
    ASSUME Orderly
    PROVE  Spec => []HandledWhole
<1>1. TypeOK /\ DeliveryInv => HandledWhole
  <2> SUFFICES ASSUME TypeOK, DeliveryInv PROVE HandledWhole
    OBVIOUS
  <2>1. HandledInv
    BY DEF DeliveryInv
  <2>2. \A i \in 1 .. Len(handled) : OwnChannel(i) <=> Own(handled[i], queued)
    BY DEF OwnChannel, Own, Message, From
  <2>3. ASSUME NEW i \in 1 .. Len(handled), OwnChannel(i), Reassembled(i),
               Message(i) \notin mixed
        PROVE  WholeMessage(i)
    <3> DEFINE m == Message(i)
    <3>1. EntryOK(handled[i], queued, mixed) /\ Own(handled[i], queued)
      BY <2>1, <2>2, <2>3 DEF HandledInv
    <3>2. m = From(handled[i].runs)
      BY DEF Message, From
    <3>3. m \in 1 .. Len(queued)
      BY <3>1, <3>2 DEF EntryOK
    <3>4. queued[m].cid = Att \/ ~Long(queued, m)
      <4>1. CASE queued[m].cid = Att
        BY <4>1
      <4>2. CASE OnePdu(m)
        BY <3>3, <4>2, QueuedLength DEF Long, OnePdu, LL_PDU_PAYLOAD_DEFAULT
      <4> QED BY <2>3, <4>1, <4>2 DEF Reassembled
    <3> HIDE DEF m
    <3>5. handled[i].len = queued[m].len /\ Chain(handled[i].runs, m, handled[i].len)
      BY <2>3, <3>1, <3>2, <3>4 DEF EntryOK, m
    <3> QED BY <3>5 DEF WholeMessage, Chain, m
  <2>4. ASSUME NEW i \in 1 .. Len(handled), NEW j \in 1 .. Len(handled), i < j,
               OwnChannel(i), OwnChannel(j)
        PROVE  Message(i) < Message(j)
    <3>1. Own(handled[i], queued) /\ Own(handled[j], queued)
      BY <2>2, <2>4
    <3>2. From(handled[i].runs) < From(handled[j].runs)
      BY <2>1, <2>4, <3>1 DEF HandledInv
    <3> QED BY <3>2 DEF Message, From
  <2> QED BY <2>3, <2>4 DEF HandledWhole
<1> QED
  BY <1>1, Delivery, NoUnderflow, PTL

(***************************************************************************)
(* A message reaches the handler of the channel it was queued for, from    *)
(* its first byte on, unless it is an ATT message queued after one for     *)
(* another channel, or one for another channel too long for the smallest   *)
(* PDU, or one that was mixed with another: nothing else goes astray.      *)
(***************************************************************************)
THEOREM NothingElseAstray ==
    ASSUME Orderly
    PROVE  Spec => []RightChannel
<1>1. TypeOK /\ DeliveryInv => RightChannel
  <2> SUFFICES ASSUME TypeOK, DeliveryInv, NEW i \in 1 .. Len(handled)
               PROVE  \/ OwnChannel(i)
                      \/ /\ queued[Message(i)].cid = Att
                         /\ \E k \in 1 .. Message(i) - 1 : queued[k].cid \in OtherCid
                      \/ queued[Message(i)].cid \in OtherCid /\ ~OnePdu(Message(i))
                      \/ Message(i) \in mixed
    BY DEF RightChannel
  <2> DEFINE m == Message(i)
  <2>1. m = From(handled[i].runs)
    BY DEF Message, From
  <2>2. EntryOK(handled[i], queued, mixed)
    BY DEF DeliveryInv, HandledInv
  <2>3. m \in 1 .. Len(queued) /\ (Own(handled[i], queued) \/ Lost(queued, mixed, m))
    BY <2>1, <2>2 DEF EntryOK
  <2>4. Own(handled[i], queued) <=> OwnChannel(i)
    BY DEF OwnChannel, Own, Message, From
  <2>5. Long(queued, m) <=> ~OnePdu(m)
    BY <2>3, QueuedLength DEF Long, OnePdu, LL_PDU_PAYLOAD_DEFAULT
  <2> HIDE DEF m
  <2> QED BY <2>3, <2>4, <2>5 DEF Lost, m
<1> QED
  BY <1>1, Delivery, NoUnderflow, PTL
=============================================================================
