------------------------------ MODULE Scheduler ------------------------------
(***************************************************************************)
(* The schedule of the blocking loops adv_forever and scan_forever         *)
(* (ble.rs) on the one TIMER0 compare register they share (timers.rs).     *)
(*                                                                         *)
(* The timer counts modulo TimerMod, while deadlines are u32 sums that do  *)
(* not wrap with it.  The compare event fires when the count reaches the   *)
(* low bits of CC0 and stays pending until it is cleared.  The code's own  *)
(* instructions take less than a tick: time passes while it waits for the  *)
(* compare event, listens or waits out an offset, and in the application's *)
(* event callback between two ticks.                                       *)
(***************************************************************************)
EXTENDS Integers

CONSTANTS
    TimerMod,       \* the modulus of the timer, 2^24 in the code
    StartTimes,     \* timer values at which the first loop may be started
    Gaps,           \* ticks that may pass between two loops
    AdvIntervals,   \* interval_min of AdvParams
    ScanSettings,   \* interval and window of ScanParams
    channel_map,    \* indices of the advertising channels in use
    Delays,         \* ticks after which a packet may be received
    SpinTicks,      \* ticks that a listen bounded by a number of spins may take
    Callbacks,      \* ticks the application may take between two ticks of a loop
    MaxCallback,    \* a bound on them
    Extended,       \* may extended advertising be used and heard?
    MaxStarts,      \* bound on the number of loops run
    MaxRounds       \* bound on the intervals scheduled by one loop

TICKS_PER_UNIT            == 625
TICKS_PER_UNIT_DENOM      == 32
SCAN_REQ_WINDOW_MICROS    == 300
CONNECT_REQ_WINDOW_MICROS == 90000

ASSUME SchedulerAssumption ==
    /\ TimerMod \in Nat \ {0} /\ StartTimes \subseteq 0 .. TimerMod - 1
    /\ Gaps \subseteq Nat /\ Delays \subseteq Nat /\ SpinTicks \subseteq Nat
    /\ MaxCallback \in Nat /\ Callbacks \subseteq 0 .. MaxCallback
    /\ channel_map \subseteq 0 .. 2 /\ channel_map # {}
    /\ Extended \in BOOLEAN
    /\ MaxStarts \in Nat /\ MaxRounds \in Nat

VARIABLES
    now, cc0, compare,   \* TIMER0: the count, CC0 and EVENTS_COMPARE[0]
    mode,                \* which of the two loops runs: "adv" or "scan"
    state,               \* adv_state or scan_state
    pc,                  \* "idle"; "wait" for the compare event; "listen";
                         \* "callback": the application has the processor;
                         \* "response" (listen_for_scan_rsp); "aux" and
                         \* "periodic": the offset before such a packet;
                         \* "synced": a scan_tick after its periodic_tick
    deadline,            \* local to a tick: what the timer is compared with
    channel_idx,         \* adv_channel_idx or scan_channel_idx
    cycle_start,         \* scan_cycle_start
    interval, window,    \* parameters of the running loop
    frac,                \* IntervalAccum::frac
    rounds, total,       \* history: intervals scheduled, and their ticks
    starts,              \* history: loops run
    synced,              \* is there a periodic_sync?
    due,                 \* history: ticks until the next scan cycle is due, -1
                         \* when it is late
    disturbed,           \* history: has this scan cycle met an extended or periodic
                         \* advertiser, or a deadline beyond the end of the timer?
    late                 \* history: did the last cycle end when the next was due?

timer   == <<now, cc0, compare, due>>
params  == <<mode, interval, window>>
accum   == <<frac, rounds, total>>
loops   == <<starts, synced>>
marks   == <<disturbed, late>>
vars    == <<timer, params, state, pc, deadline, channel_idx, cycle_start, accum,
             loops, marks>>

-----------------------------------------------------------------------------
(* Tick arithmetic                                                         *)

\* IntervalAccum::next(units) on an accumulator with fraction f
Fraction(f, units) == f + units * (TICKS_PER_UNIT % TICKS_PER_UNIT_DENOM)

\* Variant: the fraction is never carried over
TicksTruncated(f, units) == units * (TICKS_PER_UNIT \div TICKS_PER_UNIT_DENOM)

Ticks(f, units) ==
    units * (TICKS_PER_UNIT \div TICKS_PER_UNIT_DENOM)
        + Fraction(f, units) \div TICKS_PER_UNIT_DENOM

Carry(f, units) == Fraction(f, units) % TICKS_PER_UNIT_DENOM

NextInterval ==
    /\ frac' = Carry(frac, interval)
    /\ rounds' = rounds + 1
    /\ total' = total + Ticks(frac, interval)

window_ticks(units) ==
    (units * TICKS_PER_UNIT + TICKS_PER_UNIT_DENOM - 1) \div TICKS_PER_UNIT_DENOM

timeout_ticks(micros) == (micros + 31) \div 32

\* The parameters gap_adv_start and gap_scan_start do not refuse.  The timer
\* holds every interval: 2^24 ticks are 512 s, and INTERVAL_MAX is 10.24 s.
INTERVAL_MAX == 16384

ASSUME SettingsAssumption ==
    /\ AdvIntervals \subseteq 32 .. INTERVAL_MAX
    /\ ScanSettings \subseteq [interval : 4 .. INTERVAL_MAX, window : 4 .. INTERVAL_MAX]
    /\ \A s \in ScanSettings :
        /\ s.window <= s.interval
        /\ Ticks(TICKS_PER_UNIT_DENOM - 1, s.interval) <= TimerMod

-----------------------------------------------------------------------------
(* TIMER0                                                                  *)

At(ticks) == (now + ticks) % TimerMod

\* Ticks until the compare event fires; a full turn when CC0 is the count.
UntilCompare == ((cc0 - now - 1) % TimerMod) + 1

Elapse(ticks) ==
    /\ now' = At(ticks)
    /\ compare' = (compare \/ UntilCompare <= ticks)
    /\ due' = IF due < ticks THEN -1 ELSE due - ticks

\* A wait for "now >= deadline" ends only if the timer can count so far.
Reachable == deadline < TimerMod

\* A packet d ticks from now is received before the deadline.
Hears(d) == Reachable => now + d < deadline

\* A new deadline; one that the timer never reaches is recorded.
Deadline(value, before) ==
    /\ deadline' = value
    /\ disturbed' = (before \/ value >= TimerMod)

\* "while now < deadline {}", then clear_compare and listening for d ticks
WaitOffset(d) ==
    /\ Reachable
    /\ now' = At(deadline - now + d)
    /\ compare' = FALSE
    /\ due' = -1

\* drain_events: the callback returns after some time, and the loop waits again.
Callback ==
    /\ pc = "callback"
    /\ \E d \in Callbacks \cup {0} : Elapse(d)
    /\ pc' = "wait"
    /\ UNCHANGED <<cc0, params, state, deadline, channel_idx, cycle_start, accum,
                   loops, marks>>

\* The loops of adv_forever and scan_forever until the compare event
WaitCompare ==
    /\ pc = "wait" /\ ~compare
    /\ Elapse(UntilCompare)
    /\ UNCHANGED <<cc0, params, state, pc, deadline, channel_idx, cycle_start,
                   accum, loops, marks>>

-----------------------------------------------------------------------------
(* Starting and stopping                                                   *)

\* After reset, or after a loop that has left a pending compare event.  What it
\* has left in CC0 is written over before it is waited for.
Init ==
    /\ now \in StartTimes /\ cc0 = 0 /\ compare \in BOOLEAN
    /\ mode = "adv" /\ interval = 0 /\ window = 0
    /\ state = "Idle" /\ pc = "idle" /\ deadline = 0
    /\ channel_idx = 0 /\ cycle_start = 0
    /\ frac = 0 /\ rounds = 0 /\ total = 0
    /\ starts = 0 /\ synced = FALSE /\ due = 0
    /\ disturbed = FALSE /\ late = FALSE

\* gap_adv_start or gap_scan_start, after which the application calls the loop.
\* The compare event is not cleared: one left by an earlier loop makes the first
\* tick come at once.
Start(m, i, w) ==
    /\ pc = "idle" /\ starts < MaxStarts
    /\ \E gap \in Gaps :
        /\ Elapse(gap)
        /\ cc0' = At(gap) + Ticks(0, i)
    /\ mode' = m /\ interval' = i /\ window' = w
    /\ frac' = Carry(0, i) /\ rounds' = 1 /\ total' = Ticks(0, i)
    /\ state' = "Running" /\ pc' = "callback" /\ channel_idx' = 0
    /\ starts' = starts + 1 /\ disturbed' = FALSE /\ late' = FALSE
    /\ UNCHANGED <<deadline, cycle_start, synced>>

gap_adv_start  == \E i \in AdvIntervals : Start("adv", i, 0)
gap_scan_start == \E s \in ScanSettings : Start("scan", s.interval, s.window)

\* gap_adv_stop or gap_scan_stop, called from the event callback
gap_stop ==
    /\ pc = "callback" /\ state = "Running"
    /\ state' = "StopPending"
    /\ UNCHANGED <<timer, params, pc, deadline, channel_idx, cycle_start, accum,
                   loops, marks>>

\* The loop calls a tick; "synced": one that has listened to a periodic
\* advertiser first.
TickBegins == pc \in {"wait", "synced"} /\ compare

\* Variant: a scan stops only at the end of a cycle
TickStopsAtCycleEnd ==
    /\ TickBegins /\ state = "StopPending"
    /\ mode = "scan" => channel_idx = 0
    /\ compare' = FALSE
    /\ state' = "Idle" /\ pc' = "idle"
    /\ UNCHANGED <<now, due, cc0, params, deadline, channel_idx, cycle_start, accum,
                   loops, marks>>

\* A tick that finds the stop request: the loop returns.
TickStops ==
    /\ TickBegins /\ state = "StopPending"
    /\ compare' = FALSE
    /\ state' = "Idle" /\ pc' = "idle"
    /\ UNCHANGED <<now, due, cc0, params, deadline, channel_idx, cycle_start, accum,
                   loops, marks>>

-----------------------------------------------------------------------------
(* adv_tick: the part before, and the part after, the time it takes        *)

\* The first channel in use from adv_channel_idx on
AdvChannel ==
    CHOOSE i \in channel_map :
        \A j \in channel_map : (i + 3 - channel_idx) % 3 <= (j + 3 - channel_idx) % 3

AdvTick(ticks, then) ==
    /\ mode = "adv" /\ pc = "wait" /\ compare /\ state = "Running"
    /\ rounds < MaxRounds
    /\ compare' = FALSE
    /\ channel_idx' = (AdvChannel + 1) % 3
    /\ Deadline(now + ticks, disturbed)
    /\ pc' = then
    /\ UNCHANGED <<now, due, params, state, cycle_start, accum, loops, late>>

AdvTickLegacy ==
    \E micros \in {SCAN_REQ_WINDOW_MICROS, CONNECT_REQ_WINDOW_MICROS} :
        AdvTick(timeout_ticks(micros), "listen") /\ UNCHANGED cc0

\* Nonconnectable: nothing is listened for.
AdvTickMute == AdvTick(0, "listen") /\ UNCHANGED cc0

\* transmit_aux_adv waits out the offset of the auxiliary packet.
AdvTickExtended ==
    /\ Extended
    /\ AdvTick(timeout_ticks(200), "aux")
    /\ cc0' = now + timeout_ticks(200)

\* The end of adv_tick arms the next event from the time reached.
ArmNext(ticks, connected) ==
    /\ NextInterval
    /\ cc0' = At(ticks) + Ticks(frac, interval)
    /\ state' = IF connected THEN "Idle" ELSE state
    /\ pc' = IF connected THEN "idle" ELSE "callback"
    /\ deadline' = 0
    /\ UNCHANGED <<params, channel_idx, cycle_start, loops, marks>>

AdvUnheard ==
    /\ mode = "adv" /\ pc = "listen" /\ Reachable
    /\ Elapse(deadline - now) /\ ArmNext(deadline - now, FALSE)

\* radio_window ends with a packet; a CONNECT_REQ, for which only a connectable
\* advertiser listens, also ends advertising.
AdvHeard ==
    /\ mode = "adv" /\ pc = "listen"
    /\ \E d \in Delays, connected \in BOOLEAN :
        /\ Hears(d)
        /\ connected => deadline - now = timeout_ticks(CONNECT_REQ_WINDOW_MICROS)
        /\ Elapse(d) /\ ArmNext(d, connected)

\* transmit_periodic_adv waits out another offset after the auxiliary packet.
AdvPeriodic ==
    /\ mode = "adv" /\ pc = "aux"
    /\ WaitOffset(0)
    /\ Deadline(deadline + timeout_ticks(200), disturbed)
    /\ cc0' = deadline + timeout_ticks(200)
    /\ pc' = "periodic"
    /\ UNCHANGED <<params, state, channel_idx, cycle_start, accum, loops, late>>

AdvSent ==
    /\ mode = "adv" /\ pc \in {"aux", "periodic"}
    /\ WaitOffset(0)
    /\ ArmNext(deadline - now, FALSE)

-----------------------------------------------------------------------------
(* scan_tick                                                               *)

\* Variant: every channel is given the whole window
PerChannelWhole == window_ticks(window)

PerChannel == window_ticks(window) \div 3

\* Variant: the timer is not armed again for each channel
ScanTickUnarmed ==
    /\ mode = "scan" /\ TickBegins /\ state = "Running"
    /\ channel_idx < 3
    /\ compare' = FALSE
    /\ cycle_start' = IF channel_idx = 0 THEN now ELSE cycle_start
    /\ due' = IF channel_idx = 0 THEN Ticks(frac, interval) ELSE due
    /\ channel_idx' = channel_idx + 1
    /\ Deadline(now + PerChannel, disturbed /\ channel_idx # 0)
    /\ late' = (late /\ channel_idx # 0)
    /\ pc' = "listen"
    /\ UNCHANGED <<now, cc0, params, state, accum, loops>>

ScanTick ==
    /\ mode = "scan" /\ TickBegins /\ state = "Running"
    /\ channel_idx < 3
    /\ cc0' = now + PerChannel /\ compare' = FALSE
    /\ cycle_start' = IF channel_idx = 0 THEN now ELSE cycle_start
    /\ due' = IF channel_idx = 0 THEN Ticks(frac, interval) ELSE due
    /\ channel_idx' = channel_idx + 1
    /\ Deadline(now + PerChannel, disturbed /\ channel_idx # 0)
    /\ late' = (late /\ channel_idx # 0)
    /\ pc' = "listen"
    /\ UNCHANGED <<now, params, state, accum, loops>>

\* Variant: the next cycle is counted from the end of this one
ScanCycleEndsFromNow ==
    /\ mode = "scan" /\ TickBegins /\ state = "Running"
    /\ channel_idx >= 3
    /\ rounds < MaxRounds
    /\ NextInterval
    /\ cc0' = now + Ticks(frac, interval) /\ compare' = FALSE
    /\ channel_idx' = 0
    /\ late' = ~(due > 0)
    /\ pc' = IF pc = "synced" THEN "callback" ELSE "wait"
    /\ UNCHANGED <<now, due, params, state, deadline, cycle_start, loops, disturbed>>

\* periodic_tick, which every scan_tick begins with: when the packet of a
\* synced advertiser is due it is listened for during a bounded number of spins.
PeriodicTick ==
    /\ mode = "scan" /\ pc = "wait" /\ compare /\ synced
    /\ rounds < MaxRounds
    /\ \E d \in SpinTicks : Elapse(d)
    /\ pc' = "synced" /\ disturbed' = TRUE
    /\ UNCHANGED <<state, deadline, loops, cc0, params, channel_idx, cycle_start,
                   accum, late>>

\* The end of a cycle: wait for the next one.
ScanCycleEnds ==
    /\ mode = "scan" /\ TickBegins /\ state = "Running"
    /\ channel_idx >= 3
    /\ rounds < MaxRounds
    /\ NextInterval
    /\ cc0' = cycle_start + Ticks(frac, interval) /\ compare' = FALSE
    /\ channel_idx' = 0
    /\ late' = ~(due > 0)
    /\ pc' = IF pc = "synced" THEN "callback" ELSE "wait"
    /\ UNCHANGED <<now, due, params, state, deadline, cycle_start, loops, disturbed>>

scanUnchanged == <<cc0, params, channel_idx, cycle_start, accum, loops, late>>

\* The window, or the wait for a SCAN_RSP, ends at its deadline ...
ScanUnheard ==
    /\ mode = "scan" /\ pc \in {"listen", "response"} /\ Reachable
    /\ Elapse(deadline - now)
    /\ pc' = "callback" /\ deadline' = 0
    /\ UNCHANGED <<state, disturbed, scanUnchanged>>

\* ... or with a packet; the advertiser to connect to ends scanning.
ScanHeard ==
    /\ mode = "scan" /\ pc \in {"listen", "response"}
    /\ \E d \in Delays, connected \in BOOLEAN :
        /\ Hears(d)
        /\ connected => pc = "listen"
        /\ Elapse(d)
        /\ state' = IF connected THEN "Idle" ELSE state
        /\ pc' = IF connected THEN "idle" ELSE "callback"
    /\ deadline' = 0
    /\ UNCHANGED <<disturbed, scanUnchanged>>

\* respond_scan_req: an active scanner listens on for the SCAN_RSP.
ScanRequests ==
    /\ mode = "scan" /\ pc = "listen"
    /\ \E d \in Delays :
        /\ Hears(d)
        /\ Elapse(d)
        /\ Deadline(At(d) + timeout_ticks(SCAN_REQ_WINDOW_MICROS), disturbed)
    /\ pc' = "response"
    /\ UNCHANGED <<state, scanUnchanged>>

\* follow_aux: an ADV_EXT_IND; CC0 now holds the offset of the aux packet.
ScanChases ==
    /\ Extended
    /\ mode = "scan" /\ pc = "listen"
    /\ \E d \in Delays :
        /\ Hears(d)
        /\ Elapse(d)
        /\ Deadline(At(d) + timeout_ticks(300), TRUE)
        /\ cc0' = At(d) + timeout_ticks(300)
    /\ pc' = "aux"
    /\ UNCHANGED <<params, state, channel_idx, cycle_start, accum, loops, late>>

\* The offset is over: the compare event is cleared, a packet is listened for
\* during a bounded number of spins, and CC0 is left in the past.
ScanChased ==
    /\ mode = "scan" /\ pc = "aux"
    /\ \E d \in SpinTicks : WaitOffset(d)
    /\ synced' \in {synced, TRUE}     \* handle_periodic_aux
    /\ pc' = "callback" /\ deadline' = 0
    /\ UNCHANGED <<state, marks, cc0, params, channel_idx, cycle_start, accum, starts>>

-----------------------------------------------------------------------------
Next ==
    \/ Callback \/ WaitCompare \/ gap_adv_start \/ gap_scan_start \/ gap_stop \/ TickStops
    \/ AdvTickLegacy \/ AdvTickMute \/ AdvTickExtended
    \/ AdvUnheard \/ AdvHeard \/ AdvPeriodic \/ AdvSent
    \/ ScanTick \/ ScanCycleEnds \/ ScanUnheard \/ ScanHeard \/ ScanRequests
    \/ ScanChases \/ ScanChased \/ PeriodicTick

\* The timer runs, and the loops do what their conditions allow; that a packet
\* is ever received is not assumed, that the callback returns is.
Fairness ==
    /\ WF_vars(Callback) /\ WF_vars(WaitCompare) /\ WF_vars(TickStops)
    /\ WF_vars(AdvTickLegacy \/ AdvTickMute \/ AdvTickExtended)
    /\ WF_vars(AdvUnheard) /\ WF_vars(AdvSent)
    /\ WF_vars(ScanTick) /\ WF_vars(ScanCycleEnds)
    /\ WF_vars(ScanUnheard) /\ WF_vars(ScanChased)

Spec == Init /\ [][Next]_vars /\ Fairness

-----------------------------------------------------------------------------
TypeOK ==
    /\ now \in 0 .. TimerMod - 1 /\ cc0 \in Nat /\ compare \in BOOLEAN
    /\ mode \in {"adv", "scan"} /\ interval \in Nat /\ window \in Nat
    /\ state \in {"Idle", "Running", "StopPending"}
    /\ pc \in {"idle", "callback", "wait", "listen", "response", "aux", "periodic",
             "synced"}
    /\ deadline \in Nat /\ channel_idx \in 0 .. 3 /\ cycle_start \in Nat
    /\ frac \in 0 .. TICKS_PER_UNIT_DENOM - 1 /\ rounds \in Nat /\ total \in Nat
    /\ starts \in Nat /\ synced \in BOOLEAN /\ due \in Nat \cup {-1}
    /\ disturbed \in BOOLEAN /\ late \in BOOLEAN

(***************************************************************************)
(* "Long schedules never drift" (IntervalAccum): however many intervals    *)
(* are scheduled, their ticks add up to the exact time, rounded down once. *)
(***************************************************************************)
DriftFree == total = (rounds * interval * TICKS_PER_UNIT) \div TICKS_PER_UNIT_DENOM

(***************************************************************************)
(* "A scan cycle must be exactly one scan interval" (README): every cycle  *)
(* after the first starts when it is due, one interval after the one       *)
(* before, also across the end of the timer.                               *)
(***************************************************************************)
CycleExact ==
    mode = "scan" /\ TickBegins /\ channel_idx = 0 /\ rounds > 1 => due = 0

(***************************************************************************)
(* A waiting loop is woken within an interval: the compare event is        *)
(* pending, or CC0 lies ahead of the timer by no more than that.           *)
(***************************************************************************)
WakesWithinInterval ==
    pc = "wait" /\ ~compare => UntilCompare <= Ticks(TICKS_PER_UNIT_DENOM - 1, interval)

(***************************************************************************)
(* Cycles are exact, whatever the window and however long the callback,    *)
(* but for a cycle in which the scanner follows an extended advertiser     *)
(* (follow_aux takes over CC0), listens to a periodic one (periodic_tick   *)
(* delays the window) or meets a deadline beyond the end of the timer, and *)
(* for one that ends when the next is already due, so that CC0 is set in   *)
(* the past.  Each of them disturbs no cycle but its own.                  *)
(***************************************************************************)
CycleExactUndisturbed == disturbed \/ late \/ CycleExact

(***************************************************************************)
(* With the same exceptions the waits of a loop are short.                 *)
(***************************************************************************)
WakesUndisturbed == disturbed \/ late \/ WakesWithinInterval

(***************************************************************************)
(* CC0 is set in the past only by settings without room: an undisturbed    *)
(* cycle ends in time whenever the interval is longer than the window, the *)
(* three waits for a SCAN_RSP and the three longest callbacks.             *)
(***************************************************************************)
LateOnlyWhenTight ==
    late /\ ~disturbed =>
        Ticks(0, interval) <= window_ticks(window)
            + 3 * (timeout_ticks(SCAN_REQ_WINDOW_MICROS) + MaxCallback)

(***************************************************************************)
(* A stop request makes the loop return ("Adv/scan start and stop          *)
(* transitions: clean, no hangs"), although it may take a full turn of the *)
(* timer.                                                                  *)
(***************************************************************************)
StopReturns == state = "StopPending" ~> pc = "idle"
=============================================================================
