--------------------------------- MODULE Hci ---------------------------------
(***************************************************************************)
(* The HCI controller layer (hci.rs) between a host on a UART and the      *)
(* stack of module Ble: the H4 framer, the commands that drive the stack,  *)
(* and the events that go back.                                            *)
(*                                                                         *)
(* The host writes whole packets; the framer is fed one byte at a time,    *)
(* while the stack ticks.  A byte that completes a packet is handled by    *)
(* on_packet at once.  After each tick of the stack Hci::tick empties the  *)
(* stack's queue into the HCI queue, which the transport empties before    *)
(* the next one.  The HCI queue is a ring of 16 cells like the stack's     *)
(* own, and a sequence here up to its first overflow: what a ring returns  *)
(* then is the subject of module EventQueue.  An index beyond the framer's *)
(* buffer is a panic, which ends the program.                              *)
(***************************************************************************)
EXTENDS Ble

CONSTANTS
    CREATE_PARAMS,   \* parameter bytes LE_CREATE_CONNECTION needs (25)
    HCI_QUEUE_LEN,   \* cells of Hci::events, 16 in the code
    FRAME_LEN,       \* bytes of H4Framer::buf, 260 in the code
    Packets,         \* byte sequences the host may write: packets, idle bytes
    MaxPackets       \* bound on the number of them

HCI_COMMAND  == 1
HCI_ACL_DATA == 2
HCI_EVENT    == 4

PacketTypes == {HCI_COMMAND, HCI_ACL_DATA, HCI_EVENT}

\* A whole packet with all the bytes its length field announces; idle bytes
Whole(p) ==
    \/ p[1] = HCI_COMMAND /\ Len(p) >= 4 /\ Len(p) = 4 + p[4]
    \/ p[1] = HCI_EVENT /\ Len(p) >= 3 /\ Len(p) = 3 + p[3]
    \/ p[1] = HCI_ACL_DATA /\ Len(p) >= 5 /\ Len(p) = 5 + p[4] + 256 * p[5]

Idle(p) == \A i \in 1 .. Len(p) : p[i] \notin PacketTypes

ASSUME HciAssumption ==
    /\ CREATE_PARAMS \in Nat /\ MaxPackets \in Nat /\ None \notin PacketTypes
    /\ HCI_QUEUE_LEN \in Nat /\ FRAME_LEN \in Nat
    /\ \A p \in Packets : p \in Seq(0 .. 255) /\ p # << >> /\ (Whole(p) \/ Idle(p))
    \* The length of a command or an event is one byte: 260 bytes hold each.
    /\ \A p \in Packets : p[1] \in {HCI_COMMAND, HCI_EVENT} => Len(p) <= 1 + FRAME_LEN

VARIABLES
    packet_type, expected, buf,      \* H4Framer
    panicked,        \* an index was out of bounds
    adv_enabled, scan_enabled, connection_open,
    hci_events,      \* Hci::events, up to the first overflow
    overflowed,      \* history: an event was pushed to a full queue
    line,            \* bytes written by the host and not yet fed
    written,         \* history: what the host has written
    answered,        \* history: opcodes answered by the events delivered
    host_link,       \* what the events delivered tell the host about a link
    lapsed           \* history: operations that the host enabled and that a
                     \* link, or a stop still pending, has ended since

stack   == <<adv_state, adv_connectable, scan_state, scan_active, connect_target,
             periodic_sync, conn, radio, events, loop, view, dropped>>
framer  == <<packet_type, expected, buf>>
flags   == <<adv_enabled, scan_enabled, connection_open>>
queue   == <<hci_events, overflowed>>
host    == <<written, answered, host_link>>
hciVars == <<stack, framer, panicked, flags, queue, line, host, lapsed>>

OCF_LE_SET_ADV_ENABLE    == <<10, 32>>   \* the opcode bytes, OGF_LE included
OCF_LE_SET_SCAN_ENABLE   == <<12, 32>>
OCF_LE_CREATE_CONNECTION == <<13, 32>>

HciInit ==
    /\ Init
    /\ packet_type = None /\ expected = 0 /\ buf = << >>
    /\ adv_enabled = FALSE /\ scan_enabled = FALSE /\ connection_open = FALSE
    /\ panicked = FALSE
    /\ hci_events = << >> /\ overflowed = FALSE /\ line = << >>
    /\ written = << >> /\ answered = << >> /\ host_link = FALSE
    /\ lapsed = {}

\* Nothing happens after a panic.
Running == ~panicked /\ UNCHANGED panicked

-----------------------------------------------------------------------------
(* H4Framer::feed                                                          *)

HeaderLen(type) ==
    CASE type = HCI_COMMAND -> 3 [] type = HCI_EVENT -> 2 [] type = HCI_ACL_DATA -> 4

\* Variant: the second length byte of an ACL packet is not counted as header
FrameLenShort(type, header) ==
    CASE type = HCI_COMMAND  -> 3 + header[3]
      [] type = HCI_EVENT    -> 2 + header[2]
      [] type = HCI_ACL_DATA -> 3 + header[3] + 256 * header[4]

FrameLen(type, header) ==
    CASE type = HCI_COMMAND  -> 3 + header[3]
      [] type = HCI_EVENT    -> 2 + header[2]
      [] type = HCI_ACL_DATA -> 4 + header[3] + 256 * header[4]

\* buf and expected with the next byte of the line
Grown       == Append(buf, Head(line))
NowExpected ==
    IF Len(Grown) = HeaderLen(packet_type) THEN FrameLen(packet_type, Grown) ELSE expected

\* Variant: a packet without parameters is not complete with its header
CompletesLate ==
    Len(Grown) = NowExpected /\ NowExpected > HeaderLen(packet_type)

Completes == Len(Grown) = NowExpected /\ NowExpected >= HeaderLen(packet_type)

\* Outside a packet everything but a packet type is skipped.
feed_type ==
    /\ Running
    /\ line # << >> /\ packet_type = None
    /\ IF Head(line) \in PacketTypes
       THEN packet_type' = Head(line) /\ buf' = << >>
       ELSE UNCHANGED <<packet_type, buf>>
    /\ line' = Tail(line)
    /\ UNCHANGED <<stack, expected, flags, queue, host, lapsed>>

\* There is a place for the next byte.
Fits == Len(buf) < FRAME_LEN

feed_byte ==
    /\ Running
    /\ line # << >> /\ packet_type # None
    /\ Fits /\ ~Completes
    /\ buf' = Grown /\ expected' = NowExpected
    /\ line' = Tail(line)
    /\ UNCHANGED <<stack, packet_type, flags, queue, host, lapsed>>

\* The byte after a full buffer: `buf[buf_len]` panics.
feed_overrun ==
    /\ ~panicked
    /\ line # << >> /\ packet_type # None
    /\ ~Fits
    /\ panicked' = TRUE
    /\ UNCHANGED <<stack, framer, flags, queue, line, host, lapsed>>

\* The last byte of a packet; reset.  The buffer is not read again before the
\* next packet type empties it.
LastByte(type) ==
    /\ Running
    /\ line # << >> /\ packet_type = type
    /\ Fits /\ Completes
    /\ packet_type' = None /\ expected' = 0 /\ buf' = << >>
    /\ line' = Tail(line)
    /\ UNCHANGED host

\* ACL data and events are taken from the line and ignored.
feed_other ==
    \E type \in {HCI_ACL_DATA, HCI_EVENT} :
        LastByte(type) /\ UNCHANGED <<stack, flags, queue, lapsed>>

-----------------------------------------------------------------------------
(* push_event, and handle_command                                          *)

\* One cell of the ring stays free.  From the first overflow on it is not
\* followed any more.
push_events(evts) ==
    IF ~overflowed /\ Len(hci_events) + Len(evts) < HCI_QUEUE_LEN
    THEN hci_events' = hci_events \o evts /\ UNCHANGED overflowed
    ELSE hci_events' = << >> /\ overflowed' = TRUE

Opcode  == SubSeq(Grown, 1, 2)
Enable  == Len(Grown) > 3 /\ Grown[4] = 1
Answer  == push_events(<<[code |-> "ANSWER", opcode |-> Opcode]>>)

\* A call of the stack whose error is ignored
Tried(call, possible) == IF possible THEN call ELSE UNCHANGED stack

\* Variant: disabling is not recorded
AdvEnableSticky ==
    /\ IF Enable
       THEN Tried(gap_adv_start /\ adv_connectable', adv_state = "Idle")
       ELSE Tried(gap_adv_stop, adv_state = "Running")
    /\ adv_enabled' = (adv_enabled \/ Enable)
    /\ lapsed' = IF Enable /\ adv_state = "StopPending" THEN lapsed \cup {"adv"}
                 ELSE lapsed \ {"adv"}
    /\ UNCHANGED <<scan_enabled, connection_open>>

AdvEnable ==
    /\ IF Enable
       THEN Tried(gap_adv_start /\ adv_connectable', adv_state = "Idle")
       ELSE Tried(gap_adv_stop, adv_state = "Running")
    /\ adv_enabled' = Enable
    /\ lapsed' = IF Enable /\ adv_state = "StopPending" THEN lapsed \cup {"adv"}
                 ELSE lapsed \ {"adv"}
    /\ UNCHANGED <<scan_enabled, connection_open>>

ScanEnable ==
    /\ IF Enable
       THEN Tried(gap_scan_start /\ ~scan_active', scan_state = "Idle")
       ELSE Tried(gap_scan_stop, scan_state = "Running")
    /\ scan_enabled' = Enable
    /\ lapsed' = IF Enable /\ scan_state = "StopPending" THEN lapsed \cup {"scan"}
                 ELSE lapsed \ {"scan"}
    /\ UNCHANGED <<adv_enabled, connection_open>>

CreateConnection ==
    /\ Tried(gap_connect, Len(Grown) >= 3 + CREATE_PARAMS /\ scan_state = "Idle")
    /\ UNCHANGED <<flags, lapsed>>

handle_command ==
    /\ LastByte(HCI_COMMAND)
    /\ Answer
    /\ \/ Opcode = OCF_LE_SET_ADV_ENABLE /\ AdvEnable
       \/ Opcode = OCF_LE_SET_SCAN_ENABLE /\ ScanEnable
       \/ Opcode = OCF_LE_CREATE_CONNECTION /\ CreateConnection
       \/ /\ Opcode \notin {OCF_LE_SET_ADV_ENABLE, OCF_LE_SET_SCAN_ENABLE,
                            OCF_LE_CREATE_CONNECTION}
          /\ UNCHANGED <<stack, flags, lapsed>>

-----------------------------------------------------------------------------
(* Hci::tick and the transport                                             *)

\* The elements of S in a sequence, in their order
Select(s, S) ==
    LET Kept[i \in 0 .. Len(s)] ==
            IF i = 0 THEN << >>
            ELSE IF s[i] \in S THEN Append(Kept[i - 1], s[i]) ELSE Kept[i - 1]
    IN  Kept[Len(s)]

Connected == {"ConnectedAsMaster", "ConnectedAsSlave"}
Reported  == Connected \cup {"Disconnected", "ScanReport"}

ForHost(evt) ==
    [code   |-> CASE evt \in Connected    -> "CONNECTION_COMPLETE"
                  [] evt = "Disconnected" -> "DISCONNECTION_COMPLETE"
                  [] evt = "ScanReport"   -> "ADVERTISING_REPORT",
     opcode |-> << >>]

ForHostAll(evts) == [i \in 1 .. Len(evts) |-> ForHost(evts[i])]

\* Does a sequence of events leave a link, one having been there or not?
LinkAfter(evts, before) ==
    \/ /\ before
       /\ \A i \in 1 .. Len(evts) : evts[i] # "Disconnected"
    \/ \E i \in 1 .. Len(evts) :
        /\ evts[i] \in Connected
        /\ \A j \in 1 .. Len(evts) : j > i => evts[j] # "Disconnected"

\* Variant: the end of a link is not passed on
TickKeepingLink ==
    /\ Running
    /\ loop = "drain" /\ loop' = "tick"
    /\ events' = << >>
    /\ push_events(ForHostAll(Select(events, Connected)))
    /\ connection_open' = (connection_open \/ LinkAfter(events, FALSE))
    /\ UNCHANGED <<adv_state, adv_connectable, scan_state, scan_active, connect_target,
                   periodic_sync, conn, radio, view, dropped, framer, adv_enabled,
                   scan_enabled, line, host, lapsed>>

tick ==
    /\ Running
    /\ loop = "drain" /\ loop' = "tick"
    /\ events' = << >>
    /\ push_events(ForHostAll(Select(events, Reported)))
    /\ connection_open' = LinkAfter(events, connection_open)
    /\ UNCHANGED <<adv_state, adv_connectable, scan_state, scan_active, connect_target,
                   periodic_sync, conn, radio, view, dropped, framer, adv_enabled,
                   scan_enabled, line, host, lapsed>>

\* Hci::next_event, and the host receives what it returns
hci_next_event ==
    /\ Running
    /\ hci_events # << >>
    /\ hci_events' = Tail(hci_events)
    /\ LET evt == Head(hci_events)
       IN  /\ answered' = IF evt.code = "ANSWER" THEN Append(answered, evt.opcode)
                          ELSE answered
           /\ host_link' = CASE evt.code = "CONNECTION_COMPLETE"    -> TRUE
                             [] evt.code = "DISCONNECTION_COMPLETE" -> FALSE
                             [] OTHER                               -> host_link
    /\ UNCHANGED <<stack, framer, flags, overflowed, line, written, lapsed>>

-----------------------------------------------------------------------------
(* The surroundings: the host, and the ticks of the stack                  *)

host_writes ==
    /\ Running
    /\ line = << >> /\ Len(written) < MaxPackets
    /\ \E p \in Packets : line' = p /\ written' = Append(written, p)
    /\ UNCHANGED <<stack, framer, flags, queue, answered, host_link, lapsed>>

\* An operation that ends without having been told to stop
Ended ==
    {x \in {"adv", "scan"} :
        \/ x = "adv" /\ adv_state = "Running" /\ adv_state' = "Idle"
        \/ x = "scan" /\ scan_state = "Running" /\ scan_state' = "Idle"}

stack_ticks ==
    /\ Running
    /\ hci_events = << >>
    /\ adv_tick \/ scan_tick \/ conn_tick
    /\ lapsed' = lapsed \cup Ended
    /\ UNCHANGED <<framer, flags, queue, line, host>>

HciNext ==
    \/ host_writes \/ feed_type \/ feed_byte \/ feed_other \/ handle_command
    \/ feed_overrun \/ tick \/ hci_next_event \/ stack_ticks

\* The loop that drives the controller feeds what the host has written, calls
\* Hci::tick and empties the queue; nothing is assumed of the air.
HciFairness ==
    /\ WF_hciVars(feed_type) /\ WF_hciVars(feed_byte)
    /\ WF_hciVars(feed_other) /\ WF_hciVars(handle_command)
    /\ WF_hciVars(tick) /\ WF_hciVars(hci_next_event)

HciSpec == HciInit /\ [][HciNext]_hciVars /\ HciFairness

-----------------------------------------------------------------------------
\* The opcodes of the commands the host has written and the framer been fed
CommandPackets == {p \in Packets : p[1] = HCI_COMMAND}

Commands ==
    LET all  == Select(written, CommandPackets)
        done == IF line # << >> /\ written[Len(written)] \in CommandPackets
                THEN Len(all) - 1 ELSE Len(all)
    IN  [i \in 1 .. done |-> SubSeq(all[i], 2, 3)]

\* The opcodes in the answers the host has been given or will be
AnswerEvents == [code : {"ANSWER"}, opcode : Seq(0 .. 255)]

Answers ==
    LET queued == Select(hci_events, AnswerEvents)
    IN  answered \o [i \in 1 .. Len(queued) |-> queued[i].opcode]

(***************************************************************************)
(* Each command is answered once, with its own opcode, in order, however   *)
(* its bytes are interleaved with the ticks of the stack and whatever the  *)
(* packets around it contain (an ACL payload that looks like a command, an *)
(* idle byte, an empty parameter list), up to the first event that is      *)
(* pushed to a full queue.                                                 *)
(***************************************************************************)
AnsweredOnceInOrder == ~overflowed => Answers = Commands

(***************************************************************************)
(* What the host was told it enabled is in effect, and what it disabled is *)
(* not: Hci ignores the errors of gap_adv_start and the others, and        *)
(* reports success.  The exceptions: an operation that a link has ended,   *)
(* and one enabled while its stop was pending, which stops all the same;   *)
(* and a scan that belongs to LE_CREATE_CONNECTION.                        *)
(***************************************************************************)
EnableInEffect ==
    /\ adv_enabled => adv_state = "Running" \/ "adv" \in lapsed
    /\ scan_enabled => scan_state = "Running" \/ "scan" \in lapsed
    /\ ~adv_enabled => adv_state # "Running"
    /\ ~scan_enabled => scan_state # "Running" \/ connect_target

(***************************************************************************)
(* Once both queues are empty, connection_open agrees with the stack on    *)
(* whether there is a link, and so does the host if no event of the HCI    *)
(* queue was overwritten.                                                  *)
(***************************************************************************)
HostKnowsLink ==
    /\ loop = "tick" => connection_open = (conn # None)
    /\ loop = "tick" /\ hci_events = << >> /\ ~overflowed => host_link = (conn # None)

(***************************************************************************)
(* feed writes beyond its buffer only for an ACL packet that is longer     *)
(* than it: bytes outside packets, and packets that came before, leave     *)
(* nothing in it that would make a shorter one overrun it.                 *)
(***************************************************************************)
PanicsOnLongAcl ==
    panicked => LET p == written[Len(written)]
                IN  p[1] = HCI_ACL_DATA /\ Len(p) > 1 + FRAME_LEN

(***************************************************************************)
(* Every command of the host is eventually answered, if the queue does not *)
(* overflow and no long ACL packet ends the program.                       *)
(***************************************************************************)
CommandAnswered ==
    \A n \in 1 .. MaxPackets :
        Len(Select(written, CommandPackets)) >= n
            ~> Len(answered) >= n \/ overflowed \/ panicked
=============================================================================
