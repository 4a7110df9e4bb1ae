------------------------------ MODULE ConnTiming ------------------------------
(***************************************************************************)
(* When the connection events of an end take place and when its link is    *)
(* given up (ble.rs: conn_tick; conn.rs: event, event_master; timers.rs).  *)
(*                                                                         *)
(* A master waits for the anchor of each event on the compare register CC0 *)
(* and a slave listens at once; both then listen for a packet up to a      *)
(* deadline that is also written to CC0.  The timer counts modulo TimerMod *)
(* while anchors and deadlines are u32 sums.  The compare event stays      *)
(* pending until it is cleared.  The code's own instructions take less     *)
(* than a tick: time passes in callbacks, on the air and in waits.         *)
(***************************************************************************)
EXTENDS Integers

CONSTANTS
    TimerMod,      \* the modulus of the timer, 2^24 in the code
    WordMod,       \* the modulus of u32
    CounterMod,    \* the modulus of u16
    Roles,         \* the roles considered
    StartTimes,    \* timer values when the connection is made
    Leftovers,     \* ticks until the compare event that the loop before has set
    Params,        \* interval (1.25 ms) and timeout (10 ms) of a connection
    Instants,      \* how many events ahead the instant of an update may lie
    Gaps,          \* ticks that callbacks may take between two events
    TxTicks,       \* ticks that a transmission may take
    Delays,        \* ticks after which a packet may be received
    MaxPackets,    \* bound on the packets received
    None           \* Option::None

timeout_ticks(micros) == (micros + 31) \div 32

LISTEN == timeout_ticks(2000)

ASSUME ConnTimingAssumption ==
    /\ TimerMod \in Nat /\ TimerMod > LISTEN
    /\ WordMod \in Nat /\ WordMod % TimerMod = 0 /\ WordMod >= 2 * TimerMod
    /\ CounterMod \in Nat \ {0}
    /\ Roles \subseteq {"Master", "Slave"}
    /\ StartTimes \subseteq 0 .. TimerMod - 1 /\ Leftovers \subseteq 1 .. TimerMod - 1
    /\ Params \subseteq [interval : Nat \ {0}, timeout : Nat]
    /\ Instants \subseteq 0 .. CounterMod - 1
    /\ Gaps \subseteq Nat /\ TxTicks \subseteq Nat /\ Delays \subseteq Nat \ {0}
    /\ MaxPackets \in Nat
    /\ \A p \in Params : p # None

VARIABLES
    now, cc0, compare,     \* TIMER0: the count, CC0 and EVENTS_COMPARE[0]
    role,
    pc,                    \* "idle" between events; "anchor": waiting for it;
                           \* "listen"; "closed"
    params, frac,          \* interval and timeout; IntervalAccum::frac
    anchor, listen_until,
    last_rx,
    event_counter,
    pending_update, pending_update_instant,
    packets,               \* how many packets were received
    silence, wrapped,      \* history: ticks since the last packet, and whether
                           \* the timer has wrapped since
    window, cut,           \* history: ticks left of the last listen window (or of
                           \* the loop before), 0 if an anchor has passed since
                           \* its event began; was the present event begun
                           \* before its end?
    begun                  \* history: the count when the master's event began

timer    == <<now, cc0, compare>>
schedule == <<frac, anchor, event_counter>>
update   == <<pending_update, pending_update_instant>>
history  == <<silence, wrapped, window, cut, begun>>
vars     == <<timer, role, pc, params, schedule, listen_until, last_rx, update, packets,
              history>>

-----------------------------------------------------------------------------
\* IntervalAccum::new_125ms and next
Fraction(f, units) == f + 2 * units
Ticks(f, units)    == 39 * units + Fraction(f, units) \div 32

At(ticks) == (now + ticks) % TimerMod

\* Ticks until the compare event fires; a full turn when CC0 is the count.
UntilCompare == ((cc0 - now - 1) % TimerMod) + 1

Elapse(ticks) ==
    /\ now' = At(ticks)
    /\ compare' = (compare \/ UntilCompare <= ticks)
    /\ silence' = silence + ticks
    /\ wrapped' = (wrapped \/ now + ticks >= TimerMod)

\* Variant: the compare event is not cleared
Uncleared(ticks) == UNCHANGED compare

\* clear_compare, and the ticks after it
Cleared(ticks) == compare' = (UntilCompare <= ticks)

\* Variant: the window is counted from the anchor, a u32
ListenFromAnchor(start) == (anchor + LISTEN) % WordMod

ListenUntil(start) == (start + LISTEN) % WordMod

Left(ticks) == IF window > ticks THEN window - ticks ELSE 0

-----------------------------------------------------------------------------
\* Conn::new, called from the advertising or scanning loop, whose last compare
\* event is still to come.
Init ==
    /\ now \in StartTimes /\ compare = FALSE
    /\ window \in Leftovers /\ cc0 = At(window)
    /\ role \in Roles /\ pc = "idle"
    /\ params \in Params /\ frac = 0
    /\ anchor = IF role = "Master" THEN now + timeout_ticks(200) ELSE now
    /\ listen_until = 0 /\ last_rx = now /\ event_counter = 0
    /\ pending_update = None /\ pending_update_instant = 0
    /\ packets = 0
    /\ silence = 0 /\ wrapped = FALSE
    /\ cut = FALSE /\ begun = None

\* The supervision timeout, after a callback of g ticks: a u32 difference of
\* two counts.
Elapsed(g) == (At(g) - last_rx) % WordMod

limit == params.timeout * 313

\* conn_tick gives the link up.
Expire ==
    /\ pc = "idle"
    /\ \E g \in Gaps :
        /\ Elapsed(g) >= limit
        /\ Elapse(g)
        /\ window' = Left(g)
    /\ pc' = "closed"
    /\ UNCHANGED <<cc0, role, params, schedule, listen_until, last_rx, update, packets,
                   cut, begun>>

\* The parameters of an update are used from its instant on.  It stays pending.
Updated(counter) == pending_update # None /\ counter = pending_update_instant

\* conn_tick begins an event: the next anchor, then the wait for it or, as a
\* slave, the listen window.
EventBegins ==
    LET counter == (event_counter + 1) % CounterMod
        p == IF Updated(counter) THEN pending_update ELSE params
        f == IF Updated(counter) THEN 0 ELSE frac
    IN  /\ pc = "idle"
        /\ event_counter' = counter /\ params' = p
        /\ frac' = Fraction(f, p.interval) % 32
        /\ anchor' = (anchor + Ticks(f, p.interval)) % WordMod
        /\ \E g \in Gaps :
            /\ Elapsed(g) < limit
            /\ Elapse(g)
            /\ cut' = (Left(g) > 0)
            /\ IF role = "Master"
               THEN /\ cc0' = anchor'
                    /\ pc' = "anchor"
                    /\ window' = Left(g)
                    /\ UNCHANGED listen_until
               ELSE /\ listen_until' = ListenUntil(now')
                    /\ cc0' = listen_until'
                    /\ pc' = "listen"
                    /\ window' = LISTEN
        /\ UNCHANGED <<role, last_rx, update, packets, begun>>

\* The master waits for the compare event.
WaitAnchor ==
    /\ pc = "anchor" /\ ~compare
    /\ Elapse(UntilCompare)
    /\ UNCHANGED <<cc0, role, pc, params, schedule, listen_until, last_rx, update,
                   packets, window, cut, begun>>

\* The compare event is there, from the anchor or from an earlier deadline: it
\* is cleared, and the master responds and listens.  When an earlier deadline
\* made it begin too soon, the anchor may pass while it transmits and leave its
\* own event pending, like the end of a window.
Transmit ==
    /\ pc = "anchor" /\ compare
    /\ \E t \in TxTicks :
        /\ now' = At(t)
        /\ silence' = silence + t
        /\ wrapped' = (wrapped \/ now + t >= TimerMod)
        /\ Cleared(t)
        /\ listen_until' = ListenUntil(At(t))
        /\ window' = IF UntilCompare <= t THEN 0 ELSE LISTEN
    /\ cc0' = listen_until'
    /\ pc' = "listen" /\ begun' = now
    /\ UNCHANGED <<role, params, schedule, last_rx, update, packets, cut>>

\* A packet d ticks from now comes before the window is over.  A window whose
\* deadline the timer never reaches is over only with a packet.
Hears(d) == listen_until < TimerMod => now + d < listen_until

\* LL_CONNECTION_UPDATE_REQ, which only a slave looks at
UpdateReceived ==
    \/ UNCHANGED update
    \/ /\ role = "Slave"
       /\ pending_update' \in Params
       /\ \E k \in Instants : pending_update_instant' = (event_counter + k) % CounterMod

\* Variant: last_rx is set for the first packet only
LastRxFirst(d) == IF packets = 0 THEN At(d) ELSE last_rx

LastRx(d) == At(d)

Receive ==
    /\ pc = "listen" /\ packets < MaxPackets
    /\ \E d \in Delays :
        /\ Hears(d)
        /\ now' = At(d)
        /\ compare' = (compare \/ UntilCompare <= d)
        /\ window' = Left(d)
        /\ last_rx' = LastRx(d)
    /\ silence' = 0 /\ wrapped' = FALSE
    /\ packets' = packets + 1
    /\ UpdateReceived
    /\ pc' = "idle"
    /\ UNCHANGED <<cc0, role, params, schedule, listen_until, cut, begun>>

\* A packet with a wrong CRC, or one that cannot be decrypted, ends the window.
ReceiveGarbled ==
    /\ pc = "listen" /\ packets < MaxPackets
    /\ \E d \in Delays : Hears(d) /\ Elapse(d) /\ window' = Left(d)
    /\ packets' = packets + 1
    /\ pc' = "idle"
    /\ UNCHANGED <<cc0, role, params, schedule, listen_until, last_rx, update, cut, begun>>

\* The window is over without a packet.
WindowOver ==
    /\ pc = "listen" /\ listen_until < TimerMod
    /\ Elapse(listen_until - now)
    /\ window' = 0
    /\ pc' = "idle"
    /\ UNCHANGED <<cc0, role, params, schedule, listen_until, last_rx, update, packets,
                   cut, begun>>

Step == Expire \/ EventBegins \/ WaitAnchor \/ Transmit \/ WindowOver

Next == Step \/ Receive \/ ReceiveGarbled

\* conn_forever calls conn_tick again and again; packets need not come.
Fairness == WF_vars(Step)

Spec == Init /\ [][Next]_vars /\ Fairness

-----------------------------------------------------------------------------
\* The end is listening, and the timer wraps before the window is over.
AcrossWrap == pc = "listen" /\ now + LISTEN >= TimerMod

(***************************************************************************)
(* A link is given up for the supervision timeout only if nothing was      *)
(* received for that long, `timeout` units of 10 ms or 312.5 ticks, under  *)
(* all updates of the timeout.  Excepted is a timer that has wrapped since *)
(* the last packet: the u32 difference of conn_tick is then almost 2^32.   *)
(***************************************************************************)
TimeoutMeansSilence ==
    pc = "closed" /\ ~wrapped => 2 * silence >= 625 * params.timeout

(***************************************************************************)
(* If an event of the master ends early with a packet, and the callback    *)
(* does not outlast the window, the next event begins at its anchor, even  *)
(* where anchor and timer have wrapped (conn.rs: set_compare(anchor)).     *)
(* Excepted is an event that followed a window without a packet, began too *)
(* soon and was still transmitting when its own anchor came.               *)
(***************************************************************************)
AlignedAfterPacket ==
    role = "Master" /\ pc = "listen" /\ cut => begun = anchor % TimerMod

(***************************************************************************)
(* Connection events of the master are anchor-aligned.  Refuted: after a   *)
(* window without a packet the compare event of the window is still        *)
(* pending, and the next event begins at once; its anchor stays ahead.     *)
(***************************************************************************)
AnchorAligned ==
    role = "Master" /\ pc = "listen" => begun = anchor % TimerMod

(***************************************************************************)
(* A link whose peer has fallen silent is given up in the end, unless the  *)
(* end is listening across the end of the timer, where the deadline of the *)
(* window lies beyond every count.                                         *)
(***************************************************************************)
SilentLinkEnds == <>(pc = "closed" \/ AcrossWrap)
=============================================================================
