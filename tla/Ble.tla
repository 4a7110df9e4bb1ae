--------------------------------- MODULE Ble ---------------------------------
(***************************************************************************)
(* The Ble object of ble.rs: advertising, scanning, initiating and the     *)
(* connection life cycle, composed with the event queue and with an        *)
(* application that drives it.  The queue is a sequence here: module       *)
(* EventQueue shows that the ring is a FIFO until it first overflows, and  *)
(* NoEventDropped below that this application never makes it overflow.     *)
(*                                                                         *)
(* Every operation takes &mut self, so an operation is one atomic step.    *)
(* The application calls gap_* operations at any time, event callbacks     *)
(* included, and drives the stack as the blocking loops adv_forever,       *)
(* scan_forever and conn_forever do: a tick, then next_event until it      *)
(* returns None.  Calls that return an Err and change nothing are not      *)
(* steps.  Addresses, payloads and parameter ranges are abstracted; the    *)
(* channel walk and the timer are the subject of module Scheduler.         *)
(***************************************************************************)
EXTENDS Integers, Sequences

CONSTANTS
    EVENT_QUEUE_LEN,  \* cells of the event ring: it holds one event less
    None,             \* Option::None
    SilenceLimit      \* connection events without a packet that add up to the
                      \* supervision timeout

ASSUME BleAssumption ==
    /\ EVENT_QUEUE_LEN \in Nat \ {0}
    /\ SilenceLimit \in Nat \ {0}
    /\ None \notin [role : {"Master", "Slave"}, terminate_pending : BOOLEAN,
                    rx_data : BOOLEAN, silence : 0 .. SilenceLimit]

VARIABLES
    adv_state,
    adv_connectable,  \* adv_params: a connectable type, and not extended
    scan_state, scan_active,
    connect_target,   \* is there an advertiser to connect to?
    periodic_sync,
    conn,             \* None, or what the connection's life cycle depends on
    radio,            \* access address and CRC the radio holds: "adv" or "link"
    events,           \* the events pushed and not yet popped
    loop,             \* "tick" or "drain": where the application's loop stands
    view,             \* what the events delivered so far tell the application
    dropped           \* history: has push_event ever found the ring full?

advVars  == <<adv_state, adv_connectable>>
scanVars == <<scan_state, scan_active, connect_target, periodic_sync>>
linkVars == <<conn, radio>>
vars     == <<advVars, scanVars, linkVars, events, loop, view, dropped>>

States   == {"Idle", "Running", "StopPending"}
Roles    == {"Master", "Slave"}
Link     == [role : Roles, terminate_pending : BOOLEAN, rx_data : BOOLEAN,
             silence : 0 .. SilenceLimit]

Events ==
    {"AdvStarted", "AdvStopped", "ScanStarted", "ScanStopped",
     "ConnectReqReceived", "ConnectedAsMaster", "ConnectedAsSlave",
     "Disconnected", "ConnData", "LlControl", "L2cap", "ScanReport",
     "PeriodicAdv", "PeriodicSynced"}

Init ==
    /\ adv_state = "Idle" /\ adv_connectable = TRUE
    /\ scan_state = "Idle" /\ scan_active = FALSE
    /\ connect_target = FALSE /\ periodic_sync = FALSE
    /\ conn = None /\ radio = "adv"
    /\ events = << >> /\ loop = "tick" /\ dropped = FALSE
    /\ view = [adv |-> FALSE, scan |-> FALSE, link |-> FALSE]

-----------------------------------------------------------------------------
(* Event reporting                                                         *)

\* push_event for each event of evts, in order
Report(evts) ==
    /\ events' = events \o evts
    /\ dropped' = (dropped \/ Len(events) + Len(evts) >= EVENT_QUEUE_LEN)
    /\ UNCHANGED view

\* A gap_* call leaves the loop where it is; a tick is followed by a drain.
Call(evts) == Report(evts) /\ UNCHANGED loop
Tick(evts) == loop = "tick" /\ loop' = "drain" /\ Report(evts)

\* What an event tells the application about the state of the stack
Seen(v, evt) ==
    CASE evt = "AdvStarted"         -> [v EXCEPT !.adv = TRUE]
      [] evt = "AdvStopped"         -> [v EXCEPT !.adv = FALSE]
      [] evt = "ScanStarted"        -> [v EXCEPT !.scan = TRUE]
      [] evt = "ScanStopped"        -> [v EXCEPT !.scan = FALSE]
      [] evt = "ConnectedAsSlave"   -> [v EXCEPT !.link = TRUE, !.adv = FALSE]
      [] evt = "ConnectedAsMaster"  -> [v EXCEPT !.link = TRUE, !.scan = FALSE]
      [] evt = "Disconnected"       -> [v EXCEPT !.link = FALSE]
      [] OTHER                      -> v

next_event ==
    /\ loop = "drain"
    /\ events # << >>
    /\ view' = Seen(view, Head(events))
    /\ events' = Tail(events)
    /\ UNCHANGED <<advVars, scanVars, linkVars, loop, dropped>>

\* Variant: "if let" for "while let" in drain_events
DrainedOnce ==
    /\ loop = "drain"
    /\ loop' = "tick"
    /\ UNCHANGED <<advVars, scanVars, linkVars, events, view, dropped>>

drained ==
    /\ loop = "drain"
    /\ events = << >>
    /\ loop' = "tick"
    /\ UNCHANGED <<advVars, scanVars, linkVars, events, view, dropped>>

-----------------------------------------------------------------------------
(* Advertising                                                             *)

\* Variant: starting is not refused while a stop is pending
StartWhileStopping ==
    /\ adv_state # "Running"
    /\ adv_connectable' \in BOOLEAN
    /\ adv_state' = "Running"
    /\ Call(<<"AdvStarted">>)
    /\ UNCHANGED <<scanVars, linkVars>>

gap_adv_start ==
    /\ adv_state = "Idle"
    /\ adv_connectable' \in BOOLEAN
    /\ adv_state' = "Running"
    /\ Call(<<"AdvStarted">>)
    /\ UNCHANGED <<scanVars, linkVars>>

gap_adv_stop ==
    /\ adv_state = "Running"
    /\ adv_state' = "StopPending"
    /\ Call(<< >>)
    /\ UNCHANGED <<adv_connectable, scanVars, linkVars>>

NewLink(role) ==
    [role |-> role, terminate_pending |-> FALSE, rx_data |-> FALSE, silence |-> 0]

\* The RADIO only matches packets with the access address it holds; a packet
\* on an advertising channel carries the advertising access address.
HearsAdvertising == radio = "adv"

AdvTickStops ==
    /\ adv_state = "StopPending"
    /\ adv_state' = "Idle"
    /\ Tick(<<"AdvStopped">>)
    /\ UNCHANGED <<adv_connectable, scanVars, linkVars>>

\* One advertising event nobody answers, or answered with a SCAN_REQ: the
\* SCAN_RSP goes out and no event is reported.
AdvTickAdvertises ==
    /\ adv_state = "Running"
    /\ Tick(<< >>)
    /\ UNCHANGED <<advVars, scanVars, linkVars>>

\* Variants: a CONNECT_REQ is accepted while a stop is pending; Connected is
\* not reported
AcceptsWhileStopping ==
    /\ adv_state # "Idle"
    /\ adv_connectable
    /\ HearsAdvertising
    /\ conn' = NewLink("Slave")
    /\ adv_state' = "Idle"
    /\ Tick(<<"ConnectedAsSlave", "ConnectReqReceived">>)
    /\ UNCHANGED <<adv_connectable, scanVars, radio>>

AcceptsSilently ==
    /\ adv_state = "Running"
    /\ adv_connectable
    /\ HearsAdvertising
    /\ conn' = NewLink("Slave")
    /\ adv_state' = "Idle"
    /\ Tick(<<"ConnectReqReceived">>)
    /\ UNCHANGED <<adv_connectable, scanVars, radio>>

\* listen_for_scan_and_connect decodes a CONNECT_REQ.  A connection that is
\* already there is replaced.
AdvTickAccepts ==
    /\ adv_state = "Running"
    /\ adv_connectable
    /\ HearsAdvertising
    /\ conn' = NewLink("Slave")
    /\ adv_state' = "Idle"
    /\ Tick(<<"ConnectedAsSlave", "ConnectReqReceived">>)
    /\ UNCHANGED <<adv_connectable, scanVars, radio>>

adv_tick == AdvTickStops \/ AdvTickAdvertises \/ AdvTickAccepts

-----------------------------------------------------------------------------
(* Scanning and initiating                                                 *)

StartScan(active) ==
    /\ scan_state = "Idle"
    /\ scan_active' = active
    /\ scan_state' = "Running"
    /\ Call(<<"ScanStarted">>)
    /\ UNCHANGED <<periodic_sync, advVars, linkVars>>

gap_scan_start ==
    \E active \in BOOLEAN : StartScan(active) /\ UNCHANGED connect_target

gap_connect == StartScan(FALSE) /\ connect_target' = TRUE

gap_scan_stop ==
    /\ scan_state = "Running"
    /\ scan_state' = "StopPending"
    /\ Call(<< >>)
    /\ UNCHANGED <<scan_active, connect_target, periodic_sync, advVars, linkVars>>

\* What periodic_tick, run first by every scan_tick, may report
PeriodicReports ==
    IF periodic_sync /\ HearsAdvertising
    THEN {<< >>, <<"PeriodicAdv">>}
    ELSE {<< >>}

ScanTickStops ==
    /\ scan_state = "StopPending"
    /\ scan_state' = "Idle"
    /\ \E reports \in PeriodicReports : Tick(reports \o <<"ScanStopped">>)
    /\ UNCHANGED <<scan_active, connect_target, periodic_sync, advVars, linkVars>>

\* The end of a channel cycle, a window in which nothing usable is received
\* or a PDU that the filter policy rejects.
ScanTickNothing ==
    /\ scan_state = "Running"
    /\ \E reports \in PeriodicReports : Tick(reports)
    /\ UNCHANGED <<scanVars, advVars, linkVars>>

\* handle_scan_pdu: a legacy PDU of an advertiser that is not the connect
\* target; an active scanner also asks for and reports the scan response.
ScanTickReport ==
    /\ scan_state = "Running"
    /\ HearsAdvertising
    /\ \E reports \in PeriodicReports,
          answers \in {<< >>} \cup (IF scan_active THEN {<<"ScanReport">>} ELSE {}) :
            Tick(reports \o <<"ScanReport">> \o answers)
    /\ UNCHANGED <<scanVars, advVars, linkVars>>

\* handle_scan_pdu, follow_aux: an ADV_EXT_IND whose auxiliary packet is
\* received; periodic info in it establishes the sync (handle_periodic_aux).
ScanTickAux ==
    /\ scan_state = "Running"
    /\ HearsAdvertising
    /\ \E reports \in PeriodicReports, syncs \in BOOLEAN :
        /\ periodic_sync' = (periodic_sync \/ syncs)
        /\ Tick(reports \o (IF syncs THEN <<"PeriodicSynced">> ELSE << >>)
                        \o <<"ScanReport">>)
    /\ UNCHANGED <<scan_state, scan_active, connect_target, advVars, linkVars>>

\* send_connect_req: an advertisement of the connect target was received.
ScanTickConnects ==
    /\ scan_state = "Running"
    /\ HearsAdvertising
    /\ connect_target
    /\ connect_target' = FALSE
    /\ conn' = NewLink("Master")
    /\ scan_state' = "Idle"
    /\ \E reports \in PeriodicReports : Tick(reports \o <<"ConnectedAsMaster">>)
    /\ UNCHANGED <<scan_active, periodic_sync, advVars, radio>>

scan_tick ==
    \/ ScanTickStops \/ ScanTickNothing \/ ScanTickReport
    \/ ScanTickAux \/ ScanTickConnects

-----------------------------------------------------------------------------
(* The connection                                                          *)

gap_terminate ==
    /\ conn # None
    /\ conn' = [conn EXCEPT !.terminate_pending = TRUE]
    /\ Call(<< >>)
    /\ UNCHANGED <<radio, advVars, scanVars>>

\* Variant: radio.init() is forgotten
CloseKeepingRadio ==
    /\ conn' = None
    /\ Tick(<<"Disconnected">>)
    /\ UNCHANGED <<radio, advVars, scanVars>>

\* The end of conn_tick when the link is over: radio.init() restores the
\* advertising configuration.
Close ==
    /\ conn' = None
    /\ radio' = "adv"
    /\ Tick(<<"Disconnected">>)
    /\ UNCHANGED <<advVars, scanVars>>

ConnTickNoLink == conn = None /\ Close

SupervisionExpired == conn # None /\ conn.silence = SilenceLimit

ConnTickTimeout == SupervisionExpired /\ Close

\* The time since the last packet is a u32 difference of 24-bit counts: when
\* the timer has wrapped in between it exceeds every limit.
ConnTickWrapped == conn # None /\ Close

\* Conn::event may run: it sets the link's access address and CRC.
EventRuns == conn # None /\ ~SupervisionExpired

\* LL_TERMINATE_IND received; or, in the slave role, an undecodable PDU
ConnTickRemoteEnd ==
    /\ EventRuns
    /\ conn.role = "Master" => ~conn.terminate_pending
    /\ Close

\* Our own LL_TERMINATE_IND: the master sends it at the anchor, the slave in
\* answer to a packet.
ConnTickHostEnd ==
    /\ EventRuns
    /\ conn.terminate_pending
    /\ Close

\* The end of conn_tick when the link goes on: an event for the outcome, and
\* ConnData if rx_data was filled, which is emptied first.
GoesOn(outcome, silence, data) ==
    /\ conn' = [conn EXCEPT !.silence = silence, !.rx_data = FALSE]
    /\ radio' = "link"
    /\ Tick(outcome \o (IF data THEN <<"ConnData">> ELSE << >>))
    /\ UNCHANGED <<advVars, scanVars>>

\* No packet (or only ones with a CRC or MIC error) in the listen window
ConnTickSilent ==
    /\ EventRuns
    /\ conn.role = "Master" => ~conn.terminate_pending
    /\ GoesOn(<< >>, conn.silence + 1, FALSE)

\* Variant: the slave answers as usual although a termination is pending
HeardForgets ==
    /\ EventRuns
    /\ conn.role = "Master" => ~conn.terminate_pending
    /\ \E outcome \in {<< >>, <<"LlControl">>, <<"L2cap">>}, data \in BOOLEAN :
        GoesOn(outcome, 0, data)

ConnTickHeard ==
    /\ EventRuns
    /\ ~conn.terminate_pending
    /\ \E outcome \in {<< >>, <<"LlControl">>, <<"L2cap">>}, data \in BOOLEAN :
        GoesOn(outcome, 0, data)

\* Slave only: PDUs with the MD bit were handled, then the next listen window
\* passed without a packet.  Conn::event returns Idle: the outcome is not
\* reported, nothing is sent and a pending termination waits.
ConnTickMoreDataLost ==
    /\ EventRuns
    /\ conn.role = "Slave"
    /\ \E data \in BOOLEAN : GoesOn(<< >>, 0, data)

conn_tick ==
    \/ ConnTickNoLink \/ ConnTickTimeout \/ ConnTickWrapped \/ ConnTickRemoteEnd \/ ConnTickHostEnd
    \/ ConnTickSilent \/ ConnTickHeard \/ ConnTickMoreDataLost

-----------------------------------------------------------------------------
Next ==
    \/ next_event \/ drained
    \/ gap_adv_start \/ gap_adv_stop \/ adv_tick
    \/ gap_scan_start \/ gap_connect \/ gap_scan_stop \/ scan_tick
    \/ gap_terminate \/ conn_tick

\* The application keeps driving what it has started: it drains after each
\* tick and gets round to each of the three ticks again and again, although
\* it may turn to another one first.
Fairness ==
    /\ WF_vars(next_event)
    /\ WF_vars(drained)
    /\ SF_vars(adv_tick)
    /\ SF_vars(scan_tick)
    /\ SF_vars(conn # None /\ conn_tick)

Spec == Init /\ [][Next]_vars /\ Fairness

-----------------------------------------------------------------------------
TypeOK ==
    /\ adv_state \in States /\ adv_connectable \in BOOLEAN
    /\ scan_state \in States /\ scan_active \in BOOLEAN
    /\ connect_target \in BOOLEAN /\ periodic_sync \in BOOLEAN
    /\ conn \in Link \cup {None} /\ radio \in {"adv", "link"}
    /\ events \in Seq(Events)
    /\ loop \in {"tick", "drain"} /\ dropped \in BOOLEAN
    /\ view \in [adv : BOOLEAN, scan : BOOLEAN, link : BOOLEAN]

(***************************************************************************)
(* The ring is long enough for the event loops: what a tick reports plus   *)
(* what the application starts before it and from its callbacks never      *)
(* makes push_event skip an event (ble.rs EVENT_QUEUE_LEN = 8).            *)
(***************************************************************************)
NoEventDropped == ~dropped

(***************************************************************************)
(* An application that has drained the queue knows the state of the stack: *)
(* the events it was given say whether the stack advertises, scans and has *)
(* a link, whatever ended them (a stop, a CONNECT_REQ, a timeout, an       *)
(* error, a link replacing another).                                       *)
(***************************************************************************)
SettledView ==
    events = << >> =>
        /\ view.adv  = (adv_state # "Idle")
        /\ view.scan = (scan_state # "Idle")
        /\ view.link = (conn # None)

(***************************************************************************)
(* Without a link the radio holds the advertising access address and CRC,  *)
(* so advertising and scanning work again after every way a link can end.  *)
(***************************************************************************)
RadioBackToAdvertising == conn = None => radio = "adv"

(***************************************************************************)
(* After gap_adv_stop the advertiser accepts no connection, and after      *)
(* gap_scan_stop the initiator makes none: a link appears only while the   *)
(* side that makes it is running.                                          *)
(***************************************************************************)
NewSlaveLink  == adv_state # "Idle" /\ adv_state' = "Idle" /\ conn' # conn
NewMasterLink == scan_state # "Idle" /\ scan_state' = "Idle" /\ conn' # conn

NoLinkAfterStop ==
    [][/\ NewSlaveLink => adv_state = "Running"
       /\ NewMasterLink => scan_state = "Running"
       /\ conn' # None /\ conn = None => NewSlaveLink \/ NewMasterLink]_vars

(***************************************************************************)
(* A requested stop takes effect "at the next event boundary"              *)
(* (gap_adv_stop, gap_scan_stop), and the application is told, even if it  *)
(* starts again from a callback before it has seen the stop.               *)
(***************************************************************************)
StopCompletes ==
    /\ adv_state = "StopPending" ~> adv_state = "Idle"
    /\ scan_state = "StopPending" ~> scan_state = "Idle"
    /\ adv_state = "StopPending" /\ view.adv ~> ~view.adv
    /\ scan_state = "StopPending" /\ view.scan ~> ~view.scan

(***************************************************************************)
(* gap_terminate ends the link whether or not the peer is still there,     *)
(* unless the peer for ever announces more data (MD) that never arrives:   *)
(* a slave then neither answers nor times out.                             *)
(***************************************************************************)
Terminating == conn # None /\ conn.terminate_pending

TerminateEndsLink ==
    <>[][~(Terminating /\ ConnTickMoreDataLost)]_vars =>
        (Terminating ~> ~Terminating)

(***************************************************************************)
(* "When ConnData is reported, the peer's write can be read via            *)
(* conn_rx_data" (conn_forever).  Refuted: conn_tick empties rx_data       *)
(* before it reports ConnData.                                             *)
(***************************************************************************)
ConnDataReadable ==
    loop = "drain" /\ events # << >> /\ Head(events) = "ConnData" /\ conn # None => conn.rx_data
=============================================================================
