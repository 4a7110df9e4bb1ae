--------------------------- MODULE SchedulerProofs ---------------------------
(***************************************************************************)
(* Proofs about the schedule of the advertising and scanning loops, for    *)
(* every interval, timer width and number of rounds.  It does not drift:   *)
(* the invariant that carries this says what IntervalAccum::frac is, the   *)
(* part of the exact time that the ticks handed out so far leave over.     *)
(* And an undisturbed loop scans in exact cycles and wakes in time, unless *)
(* a cycle ends when the next is due, which it does only where windows and *)
(* callbacks leave no room in the interval.                                *)
(***************************************************************************)
EXTENDS Scheduler, TLAPS

Remainder ==
    /\ interval \in Nat /\ rounds \in Nat /\ total \in Nat
    /\ frac \in 0 .. TICKS_PER_UNIT_DENOM - 1
    /\ total * TICKS_PER_UNIT_DENOM + frac = rounds * interval * TICKS_PER_UNIT

-----------------------------------------------------------------------------
(***************************************************************************)
(* IntervalAccum::next loses nothing: the ticks it returns and the         *)
(* fraction it keeps add up to the fraction it had and the exact interval. *)
(***************************************************************************)
LEMMA NextIsExact ==
    ASSUME NEW f \in 0 .. TICKS_PER_UNIT_DENOM - 1, NEW units \in Nat
    PROVE  /\ Ticks(f, units) \in Nat
           /\ Carry(f, units) \in 0 .. TICKS_PER_UNIT_DENOM - 1
           /\ Ticks(f, units) * TICKS_PER_UNIT_DENOM + Carry(f, units)
                = f + units * TICKS_PER_UNIT
<1> DEFINE x == f + units * 17
<1>1. /\ TICKS_PER_UNIT % TICKS_PER_UNIT_DENOM = 17
      /\ TICKS_PER_UNIT \div TICKS_PER_UNIT_DENOM = 19
  BY DEF TICKS_PER_UNIT, TICKS_PER_UNIT_DENOM
<1>2. Fraction(f, units) = x
  BY <1>1 DEF Fraction
<1>3. f \in Nat /\ x \in Nat
  BY DEF TICKS_PER_UNIT_DENOM
<1>4. /\ x \div 32 \in Nat /\ x % 32 \in 0 .. 31
      /\ (x \div 32) * 32 + (x % 32) = x
  <2> HIDE DEF x
  <2> QED BY <1>3
<1>5. Ticks(f, units) = units * 19 + x \div 32 /\ Carry(f, units) = x % 32
  BY <1>1, <1>2 DEF Ticks, Carry, TICKS_PER_UNIT_DENOM
<1>6. (units * 19 + x \div 32) * 32 = units * 608 + (x \div 32) * 32
  <2> HIDE DEF x
  <2> QED BY <1>4
<1> QED
  BY <1>3, <1>4, <1>5, <1>6 DEF TICKS_PER_UNIT_DENOM, TICKS_PER_UNIT

(***************************************************************************)
(* The settings gap_adv_start and gap_scan_start accept are natural        *)
(* numbers, of four units at least.                                        *)
(***************************************************************************)
LEMMA SettingsAreNaturals ==
    /\ \A i \in AdvIntervals : i \in Nat /\ i >= 4
    /\ \A s \in ScanSettings : /\ s.interval \in Nat /\ s.window \in Nat
                               /\ s.interval >= 4 /\ s.window >= 4
<1>1. INTERVAL_MAX \in Nat
  BY DEF INTERVAL_MAX
<1>2. \A i \in AdvIntervals : i \in Nat /\ i >= 32
  BY <1>1, SettingsAssumption
<1>3. ASSUME NEW s \in ScanSettings
      PROVE  s.interval \in 4 .. INTERVAL_MAX /\ s.window \in 4 .. INTERVAL_MAX
  BY SettingsAssumption
<1> QED
  BY <1>1, <1>2, <1>3

(***************************************************************************)
(* Starting a loop establishes the remainder: its first interval begins    *)
(* with an empty accumulator.                                              *)
(***************************************************************************)
LEMMA StartRemainder ==
    ASSUME NEW m, NEW i \in Nat, NEW w, Start(m, i, w)
    PROVE  Remainder'
<1>1. /\ interval' = i /\ rounds' = 1
      /\ frac' = Carry(0, i) /\ total' = Ticks(0, i)
  BY DEF Start
<1>2. /\ Ticks(0, i) \in Nat /\ Carry(0, i) \in 0 .. TICKS_PER_UNIT_DENOM - 1
      /\ Ticks(0, i) * TICKS_PER_UNIT_DENOM + Carry(0, i) = 0 + i * TICKS_PER_UNIT
  BY NextIsExact DEF TICKS_PER_UNIT_DENOM
<1> QED
  BY <1>1, <1>2 DEF Remainder, TICKS_PER_UNIT

(***************************************************************************)
(* Scheduling one more interval keeps the remainder.                       *)
(***************************************************************************)
LEMMA NextIntervalRemainder ==
    ASSUME Remainder, NextInterval, UNCHANGED interval
    PROVE  Remainder'
<1> DEFINE t == Ticks(frac, interval)
           c == Carry(frac, interval)
<1>1. interval' = interval /\ rounds' = rounds + 1 /\ frac' = c /\ total' = total + t
  BY DEF NextInterval
<1>2. /\ t \in Nat /\ c \in 0 .. TICKS_PER_UNIT_DENOM - 1
      /\ t * TICKS_PER_UNIT_DENOM + c = frac + interval * TICKS_PER_UNIT
  BY NextIsExact DEF Remainder
<1> HIDE DEF t, c
<1>3. (rounds + 1) * interval = rounds * interval + interval /\ rounds * interval \in Nat
  BY DEF Remainder
<1>4. (rounds + 1) * interval * TICKS_PER_UNIT
        = rounds * interval * TICKS_PER_UNIT + interval * TICKS_PER_UNIT
  BY <1>3 DEF Remainder, TICKS_PER_UNIT
<1>5. (total + t) * TICKS_PER_UNIT_DENOM + c
        = (rounds + 1) * interval * TICKS_PER_UNIT
  <2> DEFINE r == rounds * interval * TICKS_PER_UNIT
             u == interval * TICKS_PER_UNIT
  <2>1. /\ total * 32 + frac = r /\ t * 32 + c = frac + u
        /\ total \in Nat /\ frac \in 0 .. 31 /\ c \in 0 .. 31
    BY <1>2 DEF Remainder, TICKS_PER_UNIT_DENOM
  <2>2. (rounds + 1) * interval * TICKS_PER_UNIT = r + u
    BY <1>4
  <2>3. r \in Int /\ u \in Int
    BY <1>3 DEF Remainder, TICKS_PER_UNIT
  <2> HIDE DEF r, u
  <2>4. (total + t) * 32 + c = r + u
    BY <1>2, <2>1, <2>3
  <2> QED
    BY <2>2, <2>4 DEF TICKS_PER_UNIT_DENOM
<1> QED
  BY <1>1, <1>2, <1>5 DEF Remainder

-----------------------------------------------------------------------------
(***************************************************************************)
(* The remainder is invariant: a step starts a loop, schedules an interval *)
(* of the running one, or leaves the accumulator and its interval alone.   *)
(***************************************************************************)
THEOREM RemainderInvariant == Spec => []Remainder
<1>1. Init => Remainder
  BY DEF Init, Remainder, TICKS_PER_UNIT, TICKS_PER_UNIT_DENOM
<1>2. ASSUME Remainder, [Next]_vars PROVE Remainder'
  <2>1. CASE gap_adv_start
    BY <2>1, StartRemainder, SettingsAreNaturals DEF gap_adv_start
  <2>2. CASE gap_scan_start
    BY <2>2, StartRemainder, SettingsAreNaturals DEF gap_scan_start
  <2>3. CASE AdvUnheard \/ AdvHeard \/ AdvSent \/ ScanCycleEnds
    <3>1. NextInterval /\ UNCHANGED interval
      BY <2>3 DEF AdvUnheard, AdvHeard, AdvSent, ScanCycleEnds, ArmNext, params
    <3> QED
      BY <1>2, <3>1, NextIntervalRemainder
  <2>4. CASE UNCHANGED <<accum, interval>>
    BY <1>2, <2>4 DEF Remainder, accum
  <2>5. ~(gap_adv_start \/ gap_scan_start \/ AdvUnheard \/ AdvHeard \/ AdvSent
            \/ ScanCycleEnds) => UNCHANGED <<accum, interval>>
    BY <1>2 DEF Next, vars, params, Callback, WaitCompare, gap_stop, TickStops, AdvTick,
        AdvTickLegacy, AdvTickMute, AdvTickExtended, AdvPeriodic, ScanTick,
        ScanUnheard, ScanHeard, ScanRequests, ScanChases, ScanChased, PeriodicTick,
        scanUnchanged
  <2> QED
    BY <2>1, <2>2, <2>3, <2>4, <2>5
<1> QED
  BY <1>1, <1>2, PTL DEF Spec

(***************************************************************************)
(* "Long schedules never drift": after any number of intervals the ticks   *)
(* scheduled are the exact time rounded down once, for every interval.     *)
(***************************************************************************)
THEOREM SchedulesNeverDrift == Spec => []DriftFree
<1>1. Remainder => DriftFree
  <2> SUFFICES ASSUME Remainder PROVE DriftFree
    OBVIOUS
  <2> DEFINE x == rounds * interval * TICKS_PER_UNIT
  <2>1. rounds * interval \in Nat
    BY DEF Remainder
  <2>2. x \in Nat /\ x = total * 32 + frac /\ frac \in 0 .. 31 /\ total \in Nat
    BY <2>1 DEF Remainder, TICKS_PER_UNIT, TICKS_PER_UNIT_DENOM
  <2>3. DriftFree <=> total = x \div 32
    BY DEF DriftFree, TICKS_PER_UNIT_DENOM
  <2> HIDE DEF x
  <2> QED
    BY <2>2, <2>3
<1> QED
  BY <1>1, RemainderInvariant, PTL

-----------------------------------------------------------------------------
(* The timer and the loops                                                 *)

\* The longest time between two events
Longest == Ticks(TICKS_PER_UNIT_DENOM - 1, interval)

Settings ==
    /\ pc # "idle" => interval >= 4
    /\ mode = "scan" => \E s \in ScanSettings : interval = s.interval /\ window = s.window

\* A tick may find its window over late, when it has waited for a SCAN_RSP.
Overrun == timeout_ticks(SCAN_REQ_WINDOW_MICROS) - 1

\* The time of one channel: its window, late, and the callback after it
Slot == PerChannel + Overrun + MaxCallback

\* The settings leave room in the interval for the slots of three channels.
Roomy ==
    window_ticks(window) + 3 * (timeout_ticks(SCAN_REQ_WINDOW_MICROS) + MaxCallback)
        < Ticks(0, interval)

\* The part of the interval that the cycle has used
Spent == Ticks(frac, interval) - due

\* What a cycle with room has used by channel channel_idx
InBudget ==
    /\ due # -1
    /\ ~compare => Spent + (cc0 - now) <= (channel_idx - 1) * Slot + PerChannel
    /\ pc = "response" =>
        Spent + (deadline - now) <= (channel_idx - 1) * Slot + PerChannel + Overrun
    /\ pc = "callback" => Spent <= (channel_idx - 1) * Slot + PerChannel + Overrun
    /\ pc = "wait" => Spent <= (channel_idx - 1) * Slot + Slot

\* Unless it is over, due is what is left of the interval; the timer has
\* turned over once at most since the cycle started.
DueIsLeft ==
    due # -1 =>
        /\ due <= Ticks(frac, interval)
        /\ \/ now + due = cycle_start + Ticks(frac, interval)
           \/ now + due + TimerMod = cycle_start + Ticks(frac, interval)

\* Until the compare event, CC0 is the end of the window of the channel.
WindowOpen == ~compare => now < cc0 /\ cc0 < TimerMod /\ cc0 - now <= PerChannel

InCycle ==
    /\ cycle_start < TimerMod
    /\ DueIsLeft
    /\ WindowOpen
    /\ pc = "listen" => ~compare /\ deadline = cc0
    /\ pc = "response" => now <= deadline /\ deadline < TimerMod
    /\ Roomy => InBudget

\* Between two cycles the compare event is what is waited for.
BetweenCycles ==
    /\ ~compare => UntilCompare <= Longest
    /\ rounds > 1 => pc = "wait" /\ due = IF compare THEN 0 ELSE UntilCompare

ScanInv ==
    /\ pc \in {"idle", "callback", "wait", "listen", "response"}
    /\ pc \in {"listen", "response"} => channel_idx > 0
    /\ pc # "idle" /\ channel_idx > 0 => InCycle
    /\ pc \in {"callback", "wait"} /\ channel_idx = 0 /\ ~late => BetweenCycles

AdvInv == pc \in {"callback", "wait"} /\ ~compare => UntilCompare <= Longest

LoopInv ==
    /\ ~disturbed /\ mode = "scan" => ScanInv
    /\ mode = "adv" => AdvInv
    /\ late /\ ~disturbed => ~Roomy

TimingInv == TypeOK /\ Settings /\ LoopInv

-----------------------------------------------------------------------------
(* Arithmetic                                                              *)

(***************************************************************************)
(* The remainder is the one number below the modulus that differs by a     *)
(* multiple of it.                                                         *)
(***************************************************************************)
LEMMA UniqueRemainder ==
    ASSUME NEW m \in Nat, m > 0, NEW q \in Int, NEW r \in Int, 0 <= r, r < m
    PROVE  (m * q + r) % m = r
<1> DEFINE x == m * q + r
           p == x \div m
           s == x % m
<1>1. m * q \in Int /\ x \in Int
  OBVIOUS
<1>2. p \in Int /\ s \in Int /\ 0 <= s /\ s < m /\ x = m * p + s
  <2> HIDE DEF x
  <2> QED BY <1>1
<1>3. x = m * q + r
  OBVIOUS
<1> HIDE DEF x, p, s
<1>4. m * (q - p) = s - r
  BY <1>2, <1>3
<1>5. q - p >= 1 => m * (q - p) >= m
  BY <1>2
<1>6. q - p <= -1 => m * (q - p) <= -m
  BY <1>2
<1>7. q = p
  BY <1>2, <1>4, <1>5, <1>6
<1> QED BY <1>2, <1>3, <1>7 DEF x, s

(***************************************************************************)
(* Quotient and remainder of any integer.                                  *)
(***************************************************************************)
LEMMA Divided ==
    ASSUME NEW m \in Nat, m > 0, NEW x \in Int
    PROVE  /\ x % m \in Int /\ 0 <= x % m /\ x % m < m
           /\ \E q \in Int : x = (m * q) + (x % m)
<1>1. x \div m \in Int /\ x = (m * (x \div m)) + (x % m)
  OBVIOUS
<1>2. x % m \in Int /\ 0 <= x % m /\ x % m < m
  OBVIOUS
<1> QED BY <1>1, <1>2

(***************************************************************************)
(* Reduction by the modulus of the timer.                                  *)
(***************************************************************************)
LEMMA Reduced ==
    ASSUME NEW n \in Int
    PROVE  /\ n % TimerMod \in 0 .. TimerMod - 1
           /\ n >= 0 => n % TimerMod <= n
           /\ n \in 0 .. TimerMod - 1 => n % TimerMod = n
<1>1. TimerMod \in Nat /\ TimerMod > 0
  BY SchedulerAssumption
<1>2. n % TimerMod \in 0 .. TimerMod - 1
  BY <1>1
<1>3. n >= 0 => n % TimerMod <= n
  BY <1>1
<1>4. ASSUME n \in 0 .. TimerMod - 1 PROVE n % TimerMod = n
  <2>1. n \in Nat /\ TimerMod > n
    BY <1>1, <1>4
  <2> QED BY <1>1, <2>1
<1> QED
  BY <1>2, <1>3, <1>4

(***************************************************************************)
(* The ticks of one interval: at least one, and no more with a smaller     *)
(* fraction to begin with.                                                 *)
(***************************************************************************)
LEMMA TicksBounds ==
    ASSUME NEW f \in 0 .. TICKS_PER_UNIT_DENOM - 1, NEW units \in Nat
    PROVE  /\ Ticks(f, units) \in Nat
           /\ Ticks(f, units) <= Ticks(TICKS_PER_UNIT_DENOM - 1, units)
           /\ units * 625 - 31 <= 32 * Ticks(f, units)
           /\ units >= 4 => Ticks(f, units) >= 1
<1> DEFINE t == Ticks(f, units)
           u == Ticks(31, units)
           c == Carry(f, units)
           d == Carry(31, units)
<1>1. t \in Nat /\ c \in 0 .. 31 /\ t * 32 + c = f + units * 625 /\ f \in 0 .. 31
  <2>1. /\ t \in Nat /\ c \in 0 .. TICKS_PER_UNIT_DENOM - 1
        /\ t * TICKS_PER_UNIT_DENOM + c = f + units * TICKS_PER_UNIT
    BY NextIsExact
  <2> HIDE DEF t, c
  <2> QED BY <2>1 DEF TICKS_PER_UNIT, TICKS_PER_UNIT_DENOM
<1>2. u \in Nat /\ d \in 0 .. 31 /\ u * 32 + d = 31 + units * 625
  <2>1. 31 \in 0 .. TICKS_PER_UNIT_DENOM - 1
    BY DEF TICKS_PER_UNIT_DENOM
  <2>2. /\ u \in Nat /\ d \in 0 .. TICKS_PER_UNIT_DENOM - 1
        /\ u * TICKS_PER_UNIT_DENOM + d = 31 + units * TICKS_PER_UNIT
    BY <2>1, NextIsExact
  <2> HIDE DEF u, d
  <2> QED BY <2>2 DEF TICKS_PER_UNIT, TICKS_PER_UNIT_DENOM
<1> HIDE DEF t, u, c, d
<1>3. t <= u /\ units * 625 - 31 <= 32 * t /\ (units >= 4 => t >= 1)
  BY <1>1, <1>2
<1> QED
  BY <1>1, <1>3 DEF t, u, TICKS_PER_UNIT_DENOM

(***************************************************************************)
(* The ticks of an interval are the fewest with an empty accumulator.      *)
(***************************************************************************)
LEMMA FewestTicks ==
    ASSUME NEW f \in 0 .. TICKS_PER_UNIT_DENOM - 1, NEW units \in Nat
    PROVE  Ticks(0, units) \in Nat /\ Ticks(0, units) <= Ticks(f, units)
<1> DEFINE t == Ticks(f, units)
           u == Ticks(0, units)
           c == Carry(f, units)
           d == Carry(0, units)
<1>1. t \in Nat /\ c \in 0 .. 31 /\ t * 32 + c = f + units * 625 /\ f \in 0 .. 31
  <2>1. /\ t \in Nat /\ c \in 0 .. TICKS_PER_UNIT_DENOM - 1
        /\ t * TICKS_PER_UNIT_DENOM + c = f + units * TICKS_PER_UNIT
    BY NextIsExact
  <2> HIDE DEF t, c
  <2> QED BY <2>1 DEF TICKS_PER_UNIT, TICKS_PER_UNIT_DENOM
<1>2. u \in Nat /\ d \in 0 .. 31 /\ u * 32 + d = 0 + units * 625
  <2>1. 0 \in 0 .. TICKS_PER_UNIT_DENOM - 1
    BY DEF TICKS_PER_UNIT_DENOM
  <2>2. /\ u \in Nat /\ d \in 0 .. TICKS_PER_UNIT_DENOM - 1
        /\ u * TICKS_PER_UNIT_DENOM + d = 0 + units * TICKS_PER_UNIT
    BY <2>1, NextIsExact
  <2> HIDE DEF u, d
  <2> QED BY <2>2 DEF TICKS_PER_UNIT, TICKS_PER_UNIT_DENOM
<1> HIDE DEF t, u, c, d
<1>3. u <= t
  BY <1>1, <1>2
<1> QED
  BY <1>2, <1>3 DEF t, u

(***************************************************************************)
(* The window of one channel lasts some ticks, three of them no longer     *)
(* than the window, and none longer than an interval as long as the        *)
(* window.                                                                 *)
(***************************************************************************)
LEMMA WindowBounds ==
    ASSUME NEW w \in Nat, NEW i \in Nat, w <= i, w >= 4
    PROVE  LET p == window_ticks(w) \div 3
           IN  /\ p \in Nat /\ p >= 1
               /\ window_ticks(w) \in Nat /\ 3 * p <= window_ticks(w)
               /\ p <= Ticks(TICKS_PER_UNIT_DENOM - 1, i)
<1> DEFINE x == w * 625 + 31
           v == x \div 32
           p == v \div 3
           t == Ticks(TICKS_PER_UNIT_DENOM - 1, i)
<1>1. window_ticks(w) = v
  BY DEF window_ticks, TICKS_PER_UNIT, TICKS_PER_UNIT_DENOM
<1>2. x \in Nat /\ x >= 2531 /\ x <= i * 625 + 31
  OBVIOUS
<1>3. v \in Nat /\ v * 32 <= x /\ x < v * 32 + 32
  <2> HIDE DEF x
  <2> QED BY <1>2
<1>4. v >= 79
  BY <1>2, <1>3
<1>5. p \in Nat /\ 3 * p <= v /\ v < 3 * p + 3
  <2> HIDE DEF v
  <2> QED BY <1>3
<1>6. t \in Nat /\ i * 625 - 31 <= 32 * t
  <2>1. TICKS_PER_UNIT_DENOM - 1 \in 0 .. TICKS_PER_UNIT_DENOM - 1
    BY DEF TICKS_PER_UNIT_DENOM
  <2> QED BY <2>1, TicksBounds
<1> HIDE DEF x, v, p, t
<1>7. p >= 1 /\ p <= t
  BY <1>2, <1>3, <1>4, <1>5, <1>6
<1> QED
  BY <1>1, <1>3, <1>5, <1>7 DEF p, t

(***************************************************************************)
(* The constants of the windows.                                           *)
(***************************************************************************)
LEMMA WindowConstants ==
    /\ timeout_ticks(SCAN_REQ_WINDOW_MICROS) = 10 /\ Overrun = 9
    /\ timeout_ticks(CONNECT_REQ_WINDOW_MICROS) \in Nat
    /\ timeout_ticks(200) \in Nat /\ timeout_ticks(300) \in Nat
BY DEF timeout_ticks, Overrun, SCAN_REQ_WINDOW_MICROS, CONNECT_REQ_WINDOW_MICROS

(***************************************************************************)
(* A compare value t ticks ahead is reached after no more than t ticks,    *)
(* and after exactly t if the timer can hold them.                         *)
(***************************************************************************)
LEMMA CompareAhead ==
    ASSUME NEW n \in Int, NEW t \in Nat, t >= 1
    PROVE  /\ (((n + t) - n - 1) % TimerMod) + 1 \in Nat
           /\ (((n + t) - n - 1) % TimerMod) + 1 <= t
           /\ t <= TimerMod => (((n + t) - n - 1) % TimerMod) + 1 = t
<1>1. (n + t) - n - 1 = t - 1 /\ t - 1 \in Nat
  OBVIOUS
<1>2. TimerMod \in Nat
  BY SchedulerAssumption
<1> DEFINE k == t - 1
<1>3. k \in Nat /\ t = k + 1
  BY <1>1
<1>4. k % TimerMod \in Nat /\ k % TimerMod <= k /\ (k < TimerMod => k % TimerMod = k)
  <2> HIDE DEF k
  <2>1. k % TimerMod \in 0 .. TimerMod - 1
    BY <1>3, Reduced
  <2> QED BY <1>2, <1>3, <2>1, Reduced
<1> HIDE DEF k
<1> QED
  BY <1>1, <1>2, <1>3, <1>4 DEF k

-----------------------------------------------------------------------------
(* Types                                                                   *)

(***************************************************************************)
(* The timer keeps its types while time passes.                            *)
(***************************************************************************)
LEMMA ElapseTypes ==
    ASSUME TypeOK, NEW t \in Int, Elapse(t)
    PROVE  /\ now' \in 0 .. TimerMod - 1 /\ At(t) \in Nat
           /\ compare' \in BOOLEAN /\ due' \in Nat \cup {-1}
<1>1. now \in Int /\ due \in Int /\ TimerMod \in Nat
  BY SchedulerAssumption DEF TypeOK
<1>2. At(t) \in 0 .. TimerMod - 1
  BY <1>1, Reduced DEF At
<1>3. due' \in Nat \cup {-1}
  BY <1>1 DEF Elapse
<1>4. compare' \in BOOLEAN
  BY DEF Elapse
<1> QED
  BY <1>1, <1>2, <1>3, <1>4 DEF Elapse

(***************************************************************************)
(* So does a wait for an offset.                                           *)
(***************************************************************************)
LEMMA WaitOffsetTypes ==
    ASSUME TypeOK, NEW t \in Nat, WaitOffset(t)
    PROVE  now' \in 0 .. TimerMod - 1 /\ compare' \in BOOLEAN /\ due' \in Nat \cup {-1}
<1>1. now \in Int /\ deadline \in Int
  BY SchedulerAssumption DEF TypeOK
<1>2. now + (deadline - now + t) \in Int
  BY <1>1
<1>3. now' \in 0 .. TimerMod - 1
  BY <1>2, Reduced DEF WaitOffset, At
<1> QED
  BY <1>3 DEF WaitOffset

(***************************************************************************)
(* The accumulator after one more interval.                                *)
(***************************************************************************)
LEMMA NextIntervalTypes ==
    ASSUME TypeOK, NextInterval
    PROVE  /\ frac' \in 0 .. TICKS_PER_UNIT_DENOM - 1 /\ rounds' \in Nat /\ total' \in Nat
           /\ Ticks(frac, interval) \in Nat
<1>1. /\ frac \in 0 .. TICKS_PER_UNIT_DENOM - 1 /\ interval \in Nat /\ rounds \in Nat
      /\ total \in Nat
  BY DEF TypeOK
<1>2. /\ Ticks(frac, interval) \in Nat
      /\ Carry(frac, interval) \in 0 .. TICKS_PER_UNIT_DENOM - 1
  BY <1>1, NextIsExact
<1> QED
  BY <1>1, <1>2 DEF NextInterval

(***************************************************************************)
(* The length of a window.                                                 *)
(***************************************************************************)
LEMMA PerChannelType ==
    ASSUME TypeOK
    PROVE  PerChannel \in Nat
<1> DEFINE x == window * TICKS_PER_UNIT + TICKS_PER_UNIT_DENOM - 1
<1>1. x \in Nat
  BY DEF TypeOK, TICKS_PER_UNIT, TICKS_PER_UNIT_DENOM
<1> HIDE DEF x
<1>2. x \div 32 \in Nat
  BY <1>1
<1>3. (x \div 32) \div 3 \in Nat
  BY <1>2
<1> QED
  BY <1>3 DEF PerChannel, window_ticks, TICKS_PER_UNIT_DENOM, x

(***************************************************************************)
(* adv_tick finds a channel in use.                                        *)
(***************************************************************************)
LEMMA AdvChannelUsed ==
    ASSUME TypeOK
    PROVE  (AdvChannel + 1) % 3 \in 0 .. 3
<1> DEFINE Dist(i) == (i + 3 - channel_idx) % 3
<1>1. channel_map \subseteq 0 .. 2 /\ channel_map # {} /\ channel_idx \in 0 .. 3
  BY SchedulerAssumption DEF TypeOK
<1>2. \A i \in 0 .. 2 : Dist(i) \in 0 .. 2
  BY <1>1
<1> HIDE DEF Dist
<1>3. \E i \in channel_map : \A j \in channel_map : Dist(i) <= Dist(j)
  <2>1. PICK k \in channel_map : k \in 0 .. 2
    BY <1>1
  <2>2. CASE \E i \in channel_map : Dist(i) = 0
    BY <1>1, <1>2, <2>2
  <2>3. CASE ~(\E i \in channel_map : Dist(i) = 0) /\ \E i \in channel_map : Dist(i) = 1
    BY <1>1, <1>2, <2>3
  <2>4. CASE \A i \in channel_map : Dist(i) # 0 /\ Dist(i) # 1
    BY <1>1, <1>2, <2>1, <2>4
  <2> QED BY <2>2, <2>3, <2>4
<1>4. AdvChannel \in channel_map
  BY <1>3 DEF AdvChannel, Dist
<1>5. AdvChannel \in 0 .. 2
  BY <1>1, <1>4
<1> QED
  BY <1>5

(***************************************************************************)
(* Starting a loop.                                                        *)
(***************************************************************************)
LEMMA StartTypes ==
    ASSUME TypeOK, NEW m \in {"adv", "scan"}, NEW i \in Nat, NEW w \in Nat, Start(m, i, w)
    PROVE  TypeOK'
<1>1. PICK gap \in Gaps : Elapse(gap) /\ cc0' = At(gap) + Ticks(0, i)
  BY DEF Start
<1>2. gap \in Int
  BY SchedulerAssumption
<1>3. Ticks(0, i) \in Nat /\ Carry(0, i) \in 0 .. TICKS_PER_UNIT_DENOM - 1
  BY NextIsExact DEF TICKS_PER_UNIT_DENOM
<1>4. /\ now' \in 0 .. TimerMod - 1 /\ At(gap) \in Nat
      /\ compare' \in BOOLEAN /\ due' \in Nat \cup {-1}
  BY <1>1, <1>2, ElapseTypes
<1>5. cc0' \in Nat
  BY <1>1, <1>3, <1>4
<1>6. /\ mode' = m /\ interval' = i /\ window' = w /\ frac' = Carry(0, i) /\ rounds' = 1
      /\ total' = Ticks(0, i) /\ state' = "Running" /\ pc' = "callback" /\ channel_idx' = 0
      /\ starts' = starts + 1 /\ disturbed' = FALSE /\ late' = FALSE
      /\ UNCHANGED <<deadline, cycle_start, synced>>
  BY DEF Start
<1>7. /\ starts' \in Nat /\ rounds' \in Nat /\ total' \in Nat /\ channel_idx' \in 0 .. 3
      /\ frac' \in 0 .. TICKS_PER_UNIT_DENOM - 1
      /\ deadline' \in Nat /\ cycle_start' \in Nat
  BY <1>3, <1>6 DEF TypeOK
<1>8. disturbed' \in BOOLEAN /\ late' \in BOOLEAN /\ synced' \in BOOLEAN
  BY <1>6, Zenon DEF TypeOK
<1>9. /\ mode' \in {"adv", "scan"} /\ interval' \in Nat /\ window' \in Nat
      /\ state' \in {"Idle", "Running", "StopPending"}
      /\ pc' \in {"idle", "callback", "wait", "listen", "response", "aux", "periodic",
              "synced"}
  BY <1>6
<1> QED
  BY <1>4, <1>5, <1>7, <1>8, <1>9, Zenon DEF TypeOK

(***************************************************************************)
(* The end of adv_tick.                                                    *)
(***************************************************************************)
LEMMA ArmNextTypes ==
    ASSUME TypeOK, NEW t \in Int, NEW connected \in BOOLEAN, ArmNext(t, connected),
           now' \in 0 .. TimerMod - 1, compare' \in BOOLEAN, due' \in Nat \cup {-1}
    PROVE  TypeOK'
<1>1. At(t) \in Nat
  <2>1. now + t \in Int
    BY SchedulerAssumption DEF TypeOK
  <2>2. At(t) \in 0 .. TimerMod - 1
    BY <2>1, Reduced DEF At
  <2> QED BY <2>2, SchedulerAssumption
<1>2. /\ frac' \in 0 .. TICKS_PER_UNIT_DENOM - 1 /\ rounds' \in Nat /\ total' \in Nat
      /\ Ticks(frac, interval) \in Nat
  BY NextIntervalTypes DEF ArmNext
<1>3. cc0' \in Nat
  BY <1>1, <1>2 DEF ArmNext
<1>4. /\ state' \in {"Idle", state} /\ pc' \in {"idle", "callback"} /\ deadline' = 0
      /\ UNCHANGED <<mode, interval, window, channel_idx, cycle_start, starts, synced, disturbed,
                     late>>
  BY DEF ArmNext, params, loops, marks
<1> QED
  BY <1>2, <1>3, <1>4 DEF TypeOK

(***************************************************************************)
(* The first half of adv_tick.                                             *)
(***************************************************************************)
LEMMA AdvTickTypes ==
    ASSUME TypeOK, NEW t \in Nat, NEW then \in {"listen", "aux"}, AdvTick(t, then),
           cc0' \in Nat
    PROVE  TypeOK'
<1>1. channel_idx' \in 0 .. 3
  BY AdvChannelUsed DEF AdvTick
<1>2. deadline' \in Nat
  BY SchedulerAssumption DEF AdvTick, Deadline, TypeOK
<1>3. compare' \in BOOLEAN /\ disturbed' \in BOOLEAN /\ pc' \in {"listen", "aux"}
  BY DEF AdvTick, Deadline
<1>4. UNCHANGED <<now, due, mode, interval, window, state, cycle_start, frac, rounds, total,
                  starts, synced, late>>
  BY DEF AdvTick, params, accum, loops
<1> QED
  BY <1>1, <1>2, <1>3, <1>4 DEF TypeOK

(***************************************************************************)
(* The advertising loop.                                                   *)
(***************************************************************************)
LEMMA AdvTypes ==
    ASSUME TypeOK,
           \/ AdvTickLegacy \/ AdvTickMute \/ AdvTickExtended
           \/ AdvUnheard \/ AdvHeard \/ AdvPeriodic \/ AdvSent
    PROVE  TypeOK'
<1>1. CASE AdvTickLegacy
  <2>1. PICK micros \in {SCAN_REQ_WINDOW_MICROS, CONNECT_REQ_WINDOW_MICROS} :
          AdvTick(timeout_ticks(micros), "listen") /\ UNCHANGED cc0
    BY <1>1 DEF AdvTickLegacy
  <2>2. timeout_ticks(micros) \in Nat
    BY WindowConstants
  <2>3. cc0' \in Nat
    BY <2>1 DEF TypeOK
  <2> QED BY <2>1, <2>2, <2>3, AdvTickTypes
<1>2. CASE AdvTickMute
  <2>1. AdvTick(0, "listen") /\ cc0' \in Nat
    BY <1>2 DEF AdvTickMute, TypeOK
  <2> QED BY <2>1, AdvTickTypes
<1>3. CASE AdvTickExtended
  <2>1. AdvTick(timeout_ticks(200), "aux") /\ cc0' = now + timeout_ticks(200)
    BY <1>3 DEF AdvTickExtended
  <2>2. timeout_ticks(200) \in Nat
    BY WindowConstants
  <2>3. cc0' \in Nat
    BY <2>1, <2>2, SchedulerAssumption DEF TypeOK
  <2> QED BY <2>1, <2>2, <2>3, AdvTickTypes
<1>4. CASE AdvUnheard
  <2>1. Elapse(deadline - now) /\ ArmNext(deadline - now, FALSE)
    BY <1>4 DEF AdvUnheard
  <2>2. deadline - now \in Int
    BY DEF TypeOK
  <2>3. now' \in 0 .. TimerMod - 1 /\ compare' \in BOOLEAN /\ due' \in Nat \cup {-1}
    BY <2>1, <2>2, ElapseTypes
  <2> QED BY <2>1, <2>2, <2>3, ArmNextTypes
<1>5. CASE AdvHeard
  <2>1. PICK d \in Delays, connected \in BOOLEAN : Elapse(d) /\ ArmNext(d, connected)
    BY <1>5 DEF AdvHeard
  <2>2. d \in Int
    BY SchedulerAssumption
  <2>3. now' \in 0 .. TimerMod - 1 /\ compare' \in BOOLEAN /\ due' \in Nat \cup {-1}
    BY <2>1, <2>2, ElapseTypes
  <2> QED BY <2>1, <2>2, <2>3, ArmNextTypes
<1>6. CASE AdvPeriodic
  <2>1. WaitOffset(0) /\ deadline' = deadline + timeout_ticks(200) /\ cc0' = deadline'
    BY <1>6 DEF AdvPeriodic, Deadline
  <2>2. now' \in 0 .. TimerMod - 1 /\ compare' \in BOOLEAN /\ due' \in Nat \cup {-1}
    BY <2>1, WaitOffsetTypes
  <2>3. deadline' \in Nat /\ cc0' \in Nat
    BY <2>1, WindowConstants DEF TypeOK
  <2>4. disturbed' \in BOOLEAN /\ pc' = "periodic"
    BY <1>6 DEF AdvPeriodic, Deadline
  <2>5. UNCHANGED <<mode, interval, window, state, channel_idx, cycle_start, frac, rounds,
                    total, starts, synced, late>>
    BY <1>6 DEF AdvPeriodic, params, accum, loops
  <2> QED BY <2>2, <2>3, <2>4, <2>5 DEF TypeOK
<1>7. CASE AdvSent
  <2>1. WaitOffset(0) /\ ArmNext(deadline - now, FALSE)
    BY <1>7 DEF AdvSent
  <2>2. deadline - now \in Int
    BY DEF TypeOK
  <2>3. now' \in 0 .. TimerMod - 1 /\ compare' \in BOOLEAN /\ due' \in Nat \cup {-1}
    BY <2>1, WaitOffsetTypes
  <2> QED BY <2>1, <2>2, <2>3, ArmNextTypes
<1> QED
  BY <1>1, <1>2, <1>3, <1>4, <1>5, <1>6, <1>7

(***************************************************************************)
(* The scanning loop.                                                      *)
(***************************************************************************)
LEMMA ScanTypes ==
    ASSUME TypeOK,
           \/ ScanTick \/ ScanCycleEnds \/ ScanUnheard \/ ScanHeard \/ ScanRequests
           \/ ScanChases \/ ScanChased \/ PeriodicTick
    PROVE  TypeOK'
<1>0. /\ now \in Nat /\ cycle_start \in Nat /\ PerChannel \in Nat /\ deadline - now \in Int
      /\ Ticks(frac, interval) \in Nat
  BY SchedulerAssumption, PerChannelType, TicksBounds DEF TypeOK
<1>1. CASE ScanTick
  <2>1. /\ cc0' = now + PerChannel /\ deadline' = now + PerChannel
        /\ cycle_start' \in {now, cycle_start} /\ due' \in {Ticks(frac, interval), due}
        /\ channel_idx' = channel_idx + 1 /\ channel_idx < 3 /\ pc' = "listen"
        /\ UNCHANGED <<now, mode, interval, window, state, frac, rounds, total, starts, synced>>
    BY <1>1 DEF ScanTick, Deadline, params, accum, loops
  <2>2. compare' \in BOOLEAN /\ disturbed' \in BOOLEAN /\ late' \in BOOLEAN
    BY <1>1 DEF ScanTick, Deadline
  <2>3. /\ cc0' \in Nat /\ deadline' \in Nat /\ cycle_start' \in Nat /\ channel_idx' \in 0 .. 3
        /\ due' \in Nat \cup {-1}
    BY <1>0, <2>1 DEF TypeOK
  <2> QED BY <2>1, <2>2, <2>3 DEF TypeOK
<1>2. CASE ScanCycleEnds
  <2>1. /\ NextInterval /\ cc0' = cycle_start + Ticks(frac, interval) /\ channel_idx' = 0
        /\ pc' \in {"callback", "wait"} /\ compare' = FALSE
        /\ UNCHANGED <<now, due, mode, interval, window, state, deadline, cycle_start, starts,
                       synced, disturbed>>
    BY <1>2 DEF ScanCycleEnds, params, loops
  <2>2. /\ frac' \in 0 .. TICKS_PER_UNIT_DENOM - 1 /\ rounds' \in Nat /\ total' \in Nat
    BY <2>1, NextIntervalTypes
  <2>3. cc0' \in Nat /\ channel_idx' \in 0 .. 3
    BY <1>0, <2>1
  <2>4. compare' \in BOOLEAN
    BY <2>1
  <2>5. late' = ~(due > 0)
    BY <1>2 DEF ScanCycleEnds
  <2>6. late' \in BOOLEAN
    BY <2>5, Zenon
  <2> QED BY <2>1, <2>2, <2>3, <2>4, <2>6 DEF TypeOK
<1>3. CASE ScanUnheard \/ ScanHeard \/ ScanRequests \/ ScanChases
  <2>1. PICK t \in Int : Elapse(t) /\ deadline' \in Nat /\ cc0' \in {cc0, deadline'}
    <3>1. CASE ScanUnheard
      <4>1. Elapse(deadline - now) /\ deadline' = 0 /\ cc0' = cc0
        BY <3>1 DEF ScanUnheard, scanUnchanged
      <4> QED BY <1>0, <4>1
    <3>2. CASE ScanHeard
      <4>1. PICK d \in Delays : Elapse(d) /\ deadline' = 0 /\ cc0' = cc0
        BY <3>2 DEF ScanHeard, scanUnchanged
      <4> QED BY <4>1, SchedulerAssumption
    <3>3. CASE ScanRequests
      <4>1. PICK d \in Delays : Elapse(d) /\ deadline' = At(d) + 10 /\ UNCHANGED cc0
        BY <3>3, WindowConstants DEF ScanRequests, Deadline, scanUnchanged
      <4>2. d \in Int
        BY SchedulerAssumption
      <4>3. At(d) \in Nat
        BY <4>1, <4>2, ElapseTypes
      <4> QED BY <4>1, <4>2, <4>3
    <3>4. CASE ScanChases
      <4>1. PICK d \in Delays : /\ Elapse(d) /\ deadline' = At(d) + timeout_ticks(300)
                                /\ cc0' = deadline'
        BY <3>4 DEF ScanChases, Deadline
      <4>2. d \in Int
        BY SchedulerAssumption
      <4>3. At(d) \in Nat /\ timeout_ticks(300) \in Nat
        BY <4>1, <4>2, ElapseTypes, WindowConstants
      <4> QED BY <4>1, <4>2, <4>3
    <3> QED BY <1>3, <3>1, <3>2, <3>3, <3>4
  <2>2. /\ now' \in 0 .. TimerMod - 1 /\ At(t) \in Nat
        /\ compare' \in BOOLEAN /\ due' \in Nat \cup {-1}
    BY <2>1, ElapseTypes
  <2>3. deadline' \in Nat /\ cc0' \in Nat
    BY <2>1, <2>2 DEF TypeOK
  <2>4. /\ disturbed' \in BOOLEAN /\ pc' \in {"idle", "callback", "response", "aux"}
    BY <1>3 DEF ScanUnheard, ScanHeard, ScanRequests, ScanChases, Deadline, TypeOK
  <2>5. /\ state' \in {"Idle", state}
        /\ UNCHANGED <<mode, interval, window, channel_idx, cycle_start, frac, rounds, total,
                       starts, synced, late>>
    BY <1>3 DEF ScanUnheard, ScanHeard, ScanRequests, ScanChases, scanUnchanged, params, accum,
       loops
  <2> QED BY <2>2, <2>3, <2>4, <2>5 DEF TypeOK
<1>4. CASE ScanChased
  <2>1. PICK d \in SpinTicks : WaitOffset(d)
    BY <1>4 DEF ScanChased
  <2>2. now' \in 0 .. TimerMod - 1 /\ compare' \in BOOLEAN /\ due' \in Nat \cup {-1}
    BY <2>1, WaitOffsetTypes, SchedulerAssumption
  <2>3. synced' \in BOOLEAN
    BY <1>4 DEF ScanChased, TypeOK
  <2>4. /\ pc' = "callback" /\ deadline' = 0
        /\ UNCHANGED <<state, disturbed, late, cc0, mode, interval, window, channel_idx,
                       cycle_start, frac, rounds, total, starts>>
    BY <1>4 DEF ScanChased, params, accum, marks
  <2> QED BY <2>2, <2>3, <2>4 DEF TypeOK
<1>5. CASE PeriodicTick
  <2>1. PICK d \in SpinTicks : Elapse(d)
    BY <1>5 DEF PeriodicTick
  <2>2. now' \in 0 .. TimerMod - 1 /\ compare' \in BOOLEAN /\ due' \in Nat \cup {-1}
    BY <2>1, ElapseTypes, SchedulerAssumption
  <2>3. disturbed' \in BOOLEAN
    BY <1>5 DEF PeriodicTick
  <2>4. /\ pc' = "synced"
        /\ UNCHANGED <<state, deadline, starts, synced, cc0, mode, interval, window,
                       channel_idx, cycle_start, frac, rounds, total, late>>
    BY <1>5 DEF PeriodicTick, loops, params, accum
  <2> QED BY <2>2, <2>3, <2>4 DEF TypeOK
<1> QED
  BY <1>1, <1>2, <1>3, <1>4, <1>5

(***************************************************************************)
(* The variables of the timer and of both loops keep their types.          *)
(***************************************************************************)
THEOREM SchedulerTypes == Spec => []TypeOK
<1>1. Init => TypeOK
  <2> SUFFICES ASSUME Init PROVE TypeOK
    OBVIOUS
  <2>1. now \in 0 .. TimerMod - 1
    BY SchedulerAssumption DEF Init
  <2>2. compare \in BOOLEAN /\ synced \in BOOLEAN /\ disturbed \in BOOLEAN /\ late \in BOOLEAN
    BY DEF Init
  <2>3. frac \in 0 .. TICKS_PER_UNIT_DENOM - 1
    BY DEF Init, TICKS_PER_UNIT_DENOM
  <2> QED BY <2>1, <2>2, <2>3 DEF Init, TypeOK
<1>2. TypeOK /\ [Next]_vars => TypeOK'
  <2> SUFFICES ASSUME TypeOK, [Next]_vars PROVE TypeOK'
    OBVIOUS
  <2>1. CASE WaitCompare
    <3>1. UntilCompare \in Int
      <4>1. cc0 - now - 1 \in Int
        BY DEF TypeOK
      <4>2. (cc0 - now - 1) % TimerMod \in 0 .. TimerMod - 1
        BY <4>1, Reduced
      <4> QED BY <4>2, SchedulerAssumption DEF UntilCompare
    <3>2. now' \in 0 .. TimerMod - 1 /\ compare' \in BOOLEAN /\ due' \in Nat \cup {-1}
      BY <2>1, <3>1, ElapseTypes DEF WaitCompare
    <3>3. UNCHANGED <<cc0, mode, interval, window, state, pc, deadline, channel_idx,
                      cycle_start, frac, rounds, total, starts, synced, disturbed, late>>
      BY <2>1 DEF WaitCompare, params, accum, loops, marks
    <3> QED BY <3>2, <3>3 DEF TypeOK
  <2>2. CASE gap_adv_start
    BY <2>2, StartTypes, SettingsAreNaturals DEF gap_adv_start
  <2>3. CASE gap_scan_start
    <3>1. PICK s \in ScanSettings : Start("scan", s.interval, s.window)
      BY <2>3 DEF gap_scan_start
    <3>2. s.interval \in Nat /\ s.window \in Nat
      BY SettingsAreNaturals
    <3> QED BY <3>1, <3>2, StartTypes
  <2>4. CASE gap_stop \/ TickStops
    <3>1. compare' \in BOOLEAN /\ state' \in {"StopPending", "Idle"} /\ pc' \in {"idle", pc}
      BY <2>4 DEF gap_stop, TickStops, timer, TypeOK
    <3>2. UNCHANGED <<now, due, cc0, mode, interval, window, deadline, channel_idx,
                      cycle_start, frac, rounds, total, starts, synced, disturbed, late>>
      BY <2>4 DEF gap_stop, TickStops, timer, params, accum, loops, marks
    <3> QED BY <3>1, <3>2 DEF TypeOK
  <2>5. CASE UNCHANGED vars
    BY <2>5 DEF TypeOK, vars, timer, params, accum, loops, marks
  <2>6. CASE Callback
    <3>1. PICK d \in Callbacks \cup {0} : Elapse(d)
      BY <2>6 DEF Callback
    <3>2. now' \in 0 .. TimerMod - 1 /\ compare' \in BOOLEAN /\ due' \in Nat \cup {-1}
      BY <3>1, ElapseTypes, SchedulerAssumption
    <3>3. /\ pc' = "wait"
          /\ UNCHANGED <<cc0, mode, interval, window, state, deadline, channel_idx,
                         cycle_start, frac, rounds, total, starts, synced, disturbed, late>>
      BY <2>6 DEF Callback, params, accum, loops, marks
    <3> QED BY <3>2, <3>3 DEF TypeOK
  <2> QED BY <2>1, <2>2, <2>3, <2>4, <2>5, <2>6, AdvTypes, ScanTypes DEF Next
<1> QED
  BY <1>1, <1>2, PTL DEF Spec

-----------------------------------------------------------------------------
(* The schedule                                                            *)

(***************************************************************************)
(* A step that starts no loop keeps the parameters, and a loop that has    *)
(* returned stays so.                                                      *)
(***************************************************************************)
LEMMA OnlyStartSets ==
    ASSUME [Next]_vars
    PROVE  \/ gap_adv_start \/ gap_scan_start
           \/ UNCHANGED <<mode, interval, window>> /\ (pc' # "idle" => pc # "idle")
BY DEF Next, vars, params, scanUnchanged, Callback, WaitCompare, gap_stop, TickStops, TickBegins, AdvTick,
   AdvTickLegacy, AdvTickMute, AdvTickExtended, AdvUnheard, AdvHeard, AdvPeriodic, AdvSent,
   ArmNext, ScanTick, ScanCycleEnds, ScanUnheard, ScanHeard, ScanRequests, ScanChases,
   ScanChased, PeriodicTick

(***************************************************************************)
(* The parameters are those of a setting that was accepted.                *)
(***************************************************************************)
LEMMA SettingsStep == Settings /\ [Next]_vars => Settings'
<1> SUFFICES ASSUME Settings, [Next]_vars PROVE Settings'
  OBVIOUS
<1>1. CASE gap_adv_start
  <2>1. PICK i \in AdvIntervals : interval' = i /\ mode' = "adv"
    BY <1>1 DEF gap_adv_start, Start
  <2> QED BY <2>1, SettingsAreNaturals DEF Settings
<1>2. CASE gap_scan_start
  <2>1. PICK s \in ScanSettings : interval' = s.interval /\ window' = s.window
    BY <1>2 DEF gap_scan_start, Start
  <2>2. s.interval >= 4
    BY SettingsAreNaturals
  <2> QED BY <2>1, <2>2 DEF Settings
<1>3. CASE UNCHANGED <<mode, interval, window>> /\ (pc' # "idle" => pc # "idle")
  BY <1>3 DEF Settings
<1> QED
  BY <1>1, <1>2, <1>3, OnlyStartSets

(***************************************************************************)
(* The ticks of the windows, and of the interval, which the timer can      *)
(* hold.                                                                   *)
(***************************************************************************)
LEMMA CycleTime ==
    ASSUME TypeOK, Settings, mode = "scan"
    PROVE  LET t == Ticks(frac, interval)
           IN  /\ PerChannel \in Nat /\ PerChannel >= 1 /\ t \in Nat
               /\ t <= Longest /\ Longest \in Nat /\ Longest <= TimerMod
               /\ PerChannel <= Longest
               /\ Slot \in Nat /\ Slot = PerChannel + 9 + MaxCallback /\ MaxCallback \in Nat
               /\ Roomy => 3 * Slot < t
<1>1. PICK s \in ScanSettings : interval = s.interval /\ window = s.window
  BY DEF Settings
<1>2. /\ s.interval \in Nat /\ s.window \in Nat /\ s.window >= 4
      /\ s.window <= s.interval
      /\ Ticks(TICKS_PER_UNIT_DENOM - 1, s.interval) <= TimerMod
  BY SettingsAreNaturals, SettingsAssumption
<1>3. frac \in 0 .. TICKS_PER_UNIT_DENOM - 1
  BY DEF TypeOK
<1>4. /\ PerChannel \in Nat /\ PerChannel >= 1 /\ PerChannel <= Longest
      /\ window_ticks(window) \in Nat /\ 3 * PerChannel <= window_ticks(window)
  BY <1>1, <1>2, WindowBounds DEF PerChannel, Longest
<1>5. Ticks(frac, interval) \in Nat /\ Ticks(frac, interval) <= Longest
  BY <1>1, <1>2, <1>3, TicksBounds DEF Longest
<1>6. Longest \in Nat
  <2>1. TICKS_PER_UNIT_DENOM - 1 \in 0 .. TICKS_PER_UNIT_DENOM - 1
    BY DEF TICKS_PER_UNIT_DENOM
  <2> QED BY <1>1, <1>2, <2>1, TicksBounds DEF Longest
<1>7. Slot \in Nat /\ Slot = PerChannel + 9 + MaxCallback /\ MaxCallback \in Nat
  BY <1>4, WindowConstants, SchedulerAssumption DEF Slot
<1>8. Roomy => 3 * Slot < Ticks(frac, interval)
  <2>1. Ticks(0, interval) \in Nat /\ Ticks(0, interval) <= Ticks(frac, interval)
    BY <1>1, <1>2, <1>3, FewestTicks
  <2>2. Roomy => window_ticks(window) + 3 * (10 + MaxCallback) < Ticks(0, interval)
    BY WindowConstants DEF Roomy
  <2> QED BY <1>4, <1>5, <1>7, <2>1, <2>2
<1> QED
  BY <1>1, <1>2, <1>4, <1>5, <1>6, <1>7, <1>8 DEF Longest

(***************************************************************************)
(* The slots of a cycle with room end before the interval.                 *)
(***************************************************************************)
LEMMA SlotsFit ==
    ASSUME TypeOK, Settings, mode = "scan", channel_idx > 0
    PROVE  LET b == (channel_idx - 1) * Slot
           IN  b \in Nat /\ (Roomy => b + Slot < Ticks(frac, interval))
<1>1. Slot \in Nat /\ Ticks(frac, interval) \in Nat /\ (Roomy => 3 * Slot < Ticks(frac, interval))
  BY CycleTime
<1>2. channel_idx \in {1, 2, 3}
  BY DEF TypeOK
<1>3. CASE channel_idx = 1
  BY <1>1, <1>3
<1>4. CASE channel_idx = 2
  BY <1>1, <1>4
<1>5. CASE channel_idx = 3
  BY <1>1, <1>5
<1> QED BY <1>2, <1>3, <1>4, <1>5

(***************************************************************************)
(* In a cycle the compare event is due when the window ends.               *)
(***************************************************************************)
LEMMA UntilWindowEnds ==
    ASSUME TypeOK, WindowOpen, ~compare
    PROVE  UntilCompare = cc0 - now
<1> DEFINE t == cc0 - now
<1>1. now \in Int /\ cc0 \in Int /\ now >= 0 /\ now < cc0 /\ cc0 < TimerMod /\ TimerMod \in Nat
  BY SchedulerAssumption DEF TypeOK, WindowOpen
<1>2. t \in Nat /\ t >= 1 /\ t <= TimerMod /\ cc0 = now + t
  BY <1>1
<1> HIDE DEF t
<1>3. (((now + t) - now - 1) % TimerMod) + 1 = t
  BY <1>1, <1>2, CompareAhead
<1> QED
  BY <1>2, <1>3 DEF UntilCompare, t

(***************************************************************************)
(* Time passes in a cycle: the compare event comes at the end of the       *)
(* window, and what was left of the interval becomes less.                 *)
(***************************************************************************)
LEMMA CycleMoves ==
    ASSUME TypeOK, Settings, mode = "scan", InCycle,
           NEW t \in Nat, Elapse(t),
           UNCHANGED <<cc0, interval, window, frac, cycle_start, channel_idx>>
    PROVE  /\ DueIsLeft' /\ WindowOpen'
           /\ ~compare' => ~compare /\ now' = now + t
           /\ due # -1 /\ t <= due => due' = due - t /\ Spent' = Spent + t
<1> DEFINE T == Ticks(frac, interval)
<1>1. /\ now \in Nat /\ now < TimerMod /\ cc0 \in Nat /\ cycle_start \in Nat /\ due \in Int
      /\ due >= -1 /\ TimerMod \in Nat /\ TimerMod > 0 /\ PerChannel \in Nat /\ T \in Nat
      /\ T <= TimerMod /\ cycle_start < TimerMod
  BY SchedulerAssumption, CycleTime DEF TypeOK, InCycle
<1>2. PerChannel' = PerChannel /\ Ticks(frac, interval)' = T
  BY DEF PerChannel
<1>3. now' = (now + t) % TimerMod
  BY DEF Elapse, At
<1>4. ASSUME ~compare'
      PROVE  ~compare /\ now' = now + t /\ now' < cc0
  <2>1. ~compare /\ ~(UntilCompare <= t)
    BY <1>4 DEF Elapse
  <2>2. UntilCompare = cc0 - now /\ now < cc0 /\ cc0 < TimerMod
    BY <2>1, UntilWindowEnds DEF InCycle, WindowOpen
  <2>3. now + t < cc0 /\ now + t \in 0 .. TimerMod - 1
    BY <1>1, <2>1, <2>2
  <2> QED BY <1>3, <2>1, <2>3, Reduced
<1>5. WindowOpen'
  <2> SUFFICES ASSUME ~compare'
               PROVE  now' < cc0' /\ cc0' < TimerMod /\ cc0' - now' <= PerChannel'
    BY DEF WindowOpen
  <2>1. ~compare /\ now' = now + t /\ now' < cc0
    BY <1>4
  <2>2. cc0 < TimerMod /\ cc0 - now <= PerChannel
    BY <2>1 DEF InCycle, WindowOpen
  <2> QED BY <1>1, <1>2, <2>1, <2>2
<1>6. due # -1 /\ t <= due => due' = due - t
  BY <1>1 DEF Elapse
<1>7. due < t => due' = -1
  BY DEF Elapse
<1>8. DueIsLeft'
  <2> SUFFICES ASSUME due' # -1
               PROVE  /\ due' <= T
                      /\ \/ now' + due' = cycle_start + T
                         \/ now' + due' + TimerMod = cycle_start + T
    BY <1>2 DEF DueIsLeft
  <2>1. t <= due /\ due # -1 /\ due' = due - t
    BY <1>1, <1>6, <1>7
  <2>2. /\ due <= T
        /\ \/ now + due = cycle_start + T
           \/ now + due + TimerMod = cycle_start + T
    BY <2>1 DEF InCycle, DueIsLeft
  <2> HIDE DEF T
  <2>3. CASE now + t < TimerMod
    <3>1. now + t \in 0 .. TimerMod - 1
      BY <1>1, <2>3
    <3>2. now' = now + t
      BY <1>3, <3>1, Reduced
    <3> QED BY <1>1, <2>1, <2>2, <3>2
  <2>4. CASE now + t >= TimerMod
    <3>1. now + t - TimerMod \in Int /\ 0 <= now + t - TimerMod /\ now + t - TimerMod < TimerMod
      BY <1>1, <2>1, <2>2, <2>4
    <3>2. (TimerMod * 1 + (now + t - TimerMod)) % TimerMod = now + t - TimerMod
      BY <1>1, <3>1, UniqueRemainder
    <3>3. TimerMod * 1 + (now + t - TimerMod) = now + t
      BY <1>1
    <3>4. now' = now + t - TimerMod
      BY <1>3, <3>2, <3>3
    <3> QED BY <1>1, <2>1, <2>2, <2>4, <3>4
  <2> QED BY <1>1, <2>3, <2>4
<1>9. due # -1 /\ t <= due => Spent' = Spent + t
  BY <1>1, <1>2, <1>6 DEF Spent
<1> QED
  BY <1>4, <1>5, <1>6, <1>8, <1>9

(***************************************************************************)
(* A compare register set t ticks ahead.                                   *)
(***************************************************************************)
LEMMA Armed ==
    ASSUME NEW t \in Nat, t >= 1, now' \in Int, cc0' = now' + t
    PROVE  /\ UntilCompare' \in Nat /\ UntilCompare' <= t
           /\ t <= TimerMod => UntilCompare' = t
<1>1. /\ (((now' + t) - now' - 1) % TimerMod) + 1 \in Nat
      /\ (((now' + t) - now' - 1) % TimerMod) + 1 <= t
      /\ t <= TimerMod => (((now' + t) - now' - 1) % TimerMod) + 1 = t
  BY CompareAhead
<1>2. UntilCompare' = (((now' + t) - now' - 1) % TimerMod) + 1
  BY DEF UntilCompare
<1> QED
  BY <1>1, <1>2

(***************************************************************************)
(* Time that passes before the compare event brings it nearer.             *)
(***************************************************************************)
LEMMA CompareNearer ==
    ASSUME TypeOK, NEW d \in Nat, Elapse(d), UNCHANGED cc0, ~compare'
    PROVE  ~compare /\ UntilCompare \in Nat /\ UntilCompare' = UntilCompare - d
<1> DEFINE x == cc0 - now - 1
           r == x % TimerMod
           y == now + d
           s == y % TimerMod
<1>1. TimerMod \in Nat /\ TimerMod > 0 /\ x \in Int /\ y \in Int /\ now \in Int /\ cc0 \in Int
  BY SchedulerAssumption DEF TypeOK
<1>2. /\ r \in Int /\ 0 <= r /\ r < TimerMod
      /\ \E q \in Int : x = (TimerMod * q) + r
  <2> HIDE DEF x
  <2> QED BY <1>1, Divided
<1>3. /\ s \in Int /\ \E q \in Int : y = (TimerMod * q) + s
  <2> HIDE DEF y
  <2> QED BY <1>1, Divided
<1>4. UntilCompare = r + 1 /\ ~compare /\ ~(UntilCompare <= d) /\ now' = s
  BY DEF UntilCompare, Elapse, At
<1>5. UntilCompare' = ((cc0 - s - 1) % TimerMod) + 1
  BY <1>4 DEF UntilCompare
<1>6. x = cc0 - now - 1 /\ y = now + d
  OBVIOUS
<1> HIDE DEF x, r, y, s
<1>7. PICK q \in Int : x = (TimerMod * q) + r
  BY <1>2
<1>8. PICK p \in Int : y = (TimerMod * p) + s
  BY <1>3
<1>9. cc0 - s - 1 = (TimerMod * (q + p)) + (r - d)
  BY <1>1, <1>2, <1>3, <1>6, <1>7, <1>8
<1>10. ((TimerMod * (q + p)) + (r - d)) % TimerMod = r - d
  <2>1. r - d \in Int /\ 0 <= r - d /\ r - d < TimerMod /\ q + p \in Int
    BY <1>1, <1>2, <1>4
  <2> QED BY <1>1, <2>1, UniqueRemainder
<1>11. UntilCompare' = r - d + 1
  BY <1>5, <1>9, <1>10
<1> QED BY <1>2, <1>4, <1>11

(***************************************************************************)
(* A loop that is started waits one interval.                              *)
(***************************************************************************)
LEMMA StartWaits ==
    ASSUME TypeOK, NEW m \in {"adv", "scan"}, NEW i \in Nat, i >= 4, NEW w, Start(m, i, w)
    PROVE  LoopInv'
<1>1. PICK gap \in Gaps : Elapse(gap) /\ cc0' = At(gap) + Ticks(0, i)
  BY DEF Start
<1>2. gap \in Int
  BY SchedulerAssumption
<1>3. now' \in Int /\ cc0' = now' + Ticks(0, i)
  BY <1>1, <1>2, ElapseTypes, SchedulerAssumption DEF Elapse
<1>4. /\ Ticks(0, i) \in Nat /\ Ticks(0, i) >= 1
      /\ Ticks(0, i) <= Ticks(TICKS_PER_UNIT_DENOM - 1, i)
  <2>1. 0 \in 0 .. TICKS_PER_UNIT_DENOM - 1
    BY DEF TICKS_PER_UNIT_DENOM
  <2> QED BY <2>1, TicksBounds
<1>5. interval' = i /\ rounds' = 1 /\ pc' = "callback" /\ channel_idx' = 0 /\ late' = FALSE
  BY DEF Start
<1>6. Ticks(TICKS_PER_UNIT_DENOM - 1, i) \in Nat
  <2>1. TICKS_PER_UNIT_DENOM - 1 \in 0 .. TICKS_PER_UNIT_DENOM - 1
    BY DEF TICKS_PER_UNIT_DENOM
  <2> QED BY <2>1, TicksBounds
<1>7. Longest' = Ticks(TICKS_PER_UNIT_DENOM - 1, i)
  BY <1>5 DEF Longest
<1>8. UntilCompare' <= Longest'
  <2>1. UntilCompare' \in Nat /\ UntilCompare' <= Ticks(0, i)
    BY <1>3, <1>4, Armed
  <2> QED BY <1>4, <1>6, <1>7, <2>1
<1>9. BetweenCycles' /\ AdvInv'
  BY <1>5, <1>8 DEF BetweenCycles, AdvInv
<1>10. ScanInv'
  BY <1>5, <1>9 DEF ScanInv
<1> QED
  BY <1>5, <1>9, <1>10 DEF LoopInv

(***************************************************************************)
(* The end of adv_tick: the next event is one interval ahead.              *)
(***************************************************************************)
LEMMA ArmNextWaits ==
    ASSUME TypeOK, Settings, pc # "idle", NEW t \in Int, NEW connected \in BOOLEAN,
           ArmNext(t, connected), now' = At(t)
    PROVE  AdvInv'
<1> DEFINE T == Ticks(frac, interval)
<1>1. /\ frac \in 0 .. TICKS_PER_UNIT_DENOM - 1 /\ interval \in Nat /\ interval >= 4
  BY DEF TypeOK, Settings
<1>2. /\ T \in Nat /\ T >= 1 /\ T <= Longest /\ Longest \in Nat
  <2>1. TICKS_PER_UNIT_DENOM - 1 \in 0 .. TICKS_PER_UNIT_DENOM - 1
    BY DEF TICKS_PER_UNIT_DENOM
  <2> QED BY <1>1, <2>1, TicksBounds DEF Longest
<1>3. now' \in Int
  <2>1. now + t \in Int
    BY DEF TypeOK
  <2>2. (now + t) % TimerMod \in 0 .. TimerMod - 1
    BY <2>1, Reduced
  <2> QED BY <2>2, SchedulerAssumption DEF At
<1>4. cc0' = now' + T /\ interval' = interval
  BY DEF ArmNext, params
<1>5. Longest' = Longest
  BY <1>4 DEF Longest
<1> HIDE DEF T
<1>6. UntilCompare' \in Nat /\ UntilCompare' <= T
  BY <1>2, <1>3, <1>4, Armed
<1> QED
  BY <1>2, <1>5, <1>6 DEF AdvInv

(***************************************************************************)
(* A tick of the scan loop opens the window of the next channel; at the    *)
(* first channel the cycle starts afresh, whatever was before.             *)
(***************************************************************************)
LEMMA ScanTickCycle ==
    ASSUME TypeOK, Settings, mode = "scan", ScanTick, ~disturbed',
           channel_idx > 0 => ScanInv
    PROVE  ScanInv'
<1> DEFINE P == PerChannel
           T == Ticks(frac, interval)
<1>1. /\ cc0' = now + P /\ deadline' = now + P /\ compare' = FALSE
      /\ cycle_start' = (IF channel_idx = 0 THEN now ELSE cycle_start)
      /\ due' = (IF channel_idx = 0 THEN T ELSE due)
      /\ channel_idx' = channel_idx + 1 /\ channel_idx < 3 /\ pc' = "listen"
      /\ UNCHANGED <<now, interval, window, frac>>
  BY DEF ScanTick, Deadline, params, accum
<1>2. now + P < TimerMod
  <2>1. ~(now + P >= TimerMod)
    BY DEF ScanTick, Deadline
  <2>2. now + P \in Int /\ TimerMod \in Int
    BY PerChannelType, SchedulerAssumption DEF TypeOK
  <2> HIDE DEF P
  <2> QED BY <2>1, <2>2
<1>4. /\ now \in Nat /\ now < TimerMod /\ P \in Nat /\ P >= 1 /\ T \in Nat /\ Slot \in Nat
      /\ channel_idx \in {0, 1, 2} /\ cycle_start \in Nat /\ due \in Int
  BY <1>1, CycleTime, SchedulerAssumption DEF TypeOK
<1>5. P' = P /\ Ticks(frac, interval)' = T /\ Slot' = Slot /\ Roomy' = Roomy
  BY <1>1 DEF PerChannel, Slot, Overrun, Roomy
<1>6. ASSUME channel_idx > 0
      PROVE  InCycle /\ pc = "wait"
  BY <1>6 DEF ScanTick, TickBegins, ScanInv
<1> HIDE DEF P, T
<1>7. cycle_start' < TimerMod
  <2>1. channel_idx > 0 => cycle_start < TimerMod
    BY <1>6 DEF InCycle
  <2> QED BY <1>1, <1>4, <2>1
<1>8. DueIsLeft'
  <2>1. CASE channel_idx = 0
    <3>1. cycle_start' = now /\ due' = T
      BY <1>1, <2>1
    <3> QED BY <1>1, <1>4, <1>5, <3>1 DEF DueIsLeft
  <2>2. CASE channel_idx > 0
    <3>1. cycle_start' = cycle_start /\ due' = due /\ DueIsLeft
      BY <1>1, <1>4, <1>6, <2>2 DEF InCycle
    <3> QED BY <1>1, <1>5, <3>1 DEF DueIsLeft, T
  <2> QED BY <1>4, <2>1, <2>2
<1>9. WindowOpen'
  BY <1>1, <1>2, <1>4, <1>5 DEF WindowOpen, P
<1>10. ASSUME Roomy
       PROVE  /\ due' # -1 /\ channel_idx * Slot \in Nat
              /\ T - due' <= channel_idx * Slot
  <2>1. CASE channel_idx = 0
    BY <1>1, <1>4, <2>1
  <2>2. CASE channel_idx > 0
    <3>1. due' = due /\ InBudget /\ pc = "wait"
      BY <1>1, <1>4, <1>6, <1>10, <2>2 DEF InCycle
    <3>2. due # -1 /\ T - due <= (channel_idx - 1) * Slot + Slot
      BY <3>1 DEF InBudget, Spent, T
    <3>3. CASE channel_idx = 1
      BY <1>4, <3>1, <3>2, <3>3
    <3>4. CASE channel_idx = 2
      BY <1>4, <3>1, <3>2, <3>4
    <3> QED BY <1>4, <2>2, <3>3, <3>4
  <2> QED BY <1>4, <2>1, <2>2
<1>11. Roomy' => InBudget'
  <2> SUFFICES ASSUME Roomy PROVE InBudget'
    BY <1>5
  <2>1. Spent' = T - due' /\ cc0' - now' = P /\ due' \in Int /\ cc0' \in Int /\ now' \in Int
    BY <1>1, <1>4, <1>5 DEF Spent
  <2>2. (channel_idx' - 1) * Slot' = channel_idx * Slot
    <3>1. channel_idx' - 1 = channel_idx
      BY <1>1, <1>4
    <3> QED BY <1>5, <3>1, Zenon
  <2> DEFINE b == channel_idx * Slot
  <2>3. b \in Nat /\ T - due' <= b
    BY <1>10
  <2> HIDE DEF b
  <2>4. Spent' + (cc0' - now') <= b + P
    <3>1. T \in Int /\ P \in Int
      BY <1>4
    <3>2. due' \in Int /\ Spent' + (cc0' - now') = (T - due') + P
      BY <2>1
    <3>3. T - due' \in Int
      BY <3>1, <3>2
    <3>4. (T - due') + P <= b + P
      BY <2>3, <3>1, <3>3
    <3> QED BY <3>2, <3>4
  <2>5. Spent' + (cc0' - now') <= (channel_idx' - 1) * Slot' + PerChannel'
    BY <1>5, <2>2, <2>4 DEF P, b
  <2> QED BY <1>1, <1>10, <2>5 DEF InBudget
<1>12. InCycle'
  BY <1>1, <1>7, <1>8, <1>9, <1>11 DEF InCycle
<1>13. channel_idx' > 0
  BY <1>1, <1>4
<1> QED
  BY <1>1, <1>12, <1>13 DEF ScanInv

(***************************************************************************)
(* The end of a cycle: CC0 lies ahead of the timer by what is left of the  *)
(* interval, if anything is; in a cycle with room something is.            *)
(***************************************************************************)
LEMMA CycleEndWaits ==
    ASSUME TypeOK, Settings, mode = "scan", ScanInv, ScanCycleEnds
    PROVE  ScanInv' /\ (late' => ~Roomy')
<1> DEFINE T == Ticks(frac, interval)
<1>1. /\ cc0' = cycle_start + T /\ compare' = FALSE /\ channel_idx' = 0
      /\ late' = ~(due > 0)
      /\ UNCHANGED <<now, due, interval, window>>
  BY DEF ScanCycleEnds, params
<1>2. pc = "wait" /\ channel_idx > 0 /\ pc' = "wait"
  BY DEF ScanCycleEnds, TickBegins, ScanInv, TypeOK
<1>3. InCycle
  BY <1>2 DEF ScanInv
<1>4. /\ now \in Nat /\ due \in Int /\ T \in Nat /\ T <= Longest /\ Longest <= TimerMod
      /\ Longest \in Nat /\ TimerMod \in Nat /\ TimerMod > 0 /\ cycle_start \in Nat
      /\ Slot \in Nat
  BY CycleTime, SchedulerAssumption DEF TypeOK
<1> HIDE DEF T
<1>5. ASSUME due > 0
      PROVE  UntilCompare' = due /\ due <= Longest
  <2>1. /\ due <= T
        /\ now + due = cycle_start + T \/ now + due + TimerMod = cycle_start + T
    BY <1>3, <1>4, <1>5 DEF InCycle, DueIsLeft, T
  <2>2. CASE now + due = cycle_start + T
    <3>1. due \in Nat /\ due >= 1 /\ due <= TimerMod /\ cc0' = now' + due
      BY <1>1, <1>4, <1>5, <2>1, <2>2
    <3> QED BY <1>1, <1>4, <2>1, <3>1, Armed
  <2>3. CASE now + due + TimerMod = cycle_start + T
    <3>1. /\ cc0' - now' - 1 = TimerMod * 1 + (due - 1)
          /\ due - 1 \in Int /\ 0 <= due - 1 /\ due - 1 < TimerMod
      BY <1>1, <1>4, <1>5, <2>1, <2>3
    <3>2. (TimerMod * 1 + (due - 1)) % TimerMod = due - 1
      BY <1>4, <3>1, UniqueRemainder
    <3>3. UntilCompare' = (due - 1) + 1
      BY <3>1, <3>2 DEF UntilCompare
    <3> QED BY <1>4, <2>1, <3>3
  <2> QED BY <2>1, <2>2, <2>3
<1>6. Longest' = Longest /\ Roomy' = Roomy
  BY <1>1 DEF Longest, Roomy
<1>7. ~late' => BetweenCycles'
  <2> SUFFICES ASSUME ~late' PROVE BetweenCycles'
    OBVIOUS
  <2>1. due > 0
    BY <1>1
  <2>2. UntilCompare' = due' /\ UntilCompare' <= Longest'
    BY <1>1, <1>5, <1>6, <2>1
  <2> QED BY <1>1, <1>2, <2>2 DEF BetweenCycles
<1>8. Roomy => due > 0
  <2> SUFFICES ASSUME Roomy PROVE due > 0
    OBVIOUS
  <2> DEFINE b == (channel_idx - 1) * Slot
  <2>1. b \in Nat /\ b + Slot < T
    BY <1>2, SlotsFit DEF T
  <2>2. T - due <= b + Slot
    BY <1>2, <1>3 DEF InCycle, InBudget, Spent, T
  <2> HIDE DEF b
  <2> QED BY <1>4, <2>1, <2>2
<1>9. late' => ~Roomy'
  BY <1>1, <1>6, <1>8
<1> QED
  BY <1>1, <1>2, <1>7, <1>9 DEF ScanInv

(***************************************************************************)
(* A wait for the compare event ends with it.                              *)
(***************************************************************************)
LEMMA WaitFires ==
    ASSUME TypeOK, WaitCompare
    PROVE  UntilCompare \in Nat /\ compare' = TRUE
<1>1. UntilCompare \in Nat
  <2>1. cc0 - now - 1 \in Int
    BY DEF TypeOK
  <2>2. (cc0 - now - 1) % TimerMod \in 0 .. TimerMod - 1
    BY <2>1, Reduced
  <2> QED BY <2>2, SchedulerAssumption DEF UntilCompare
<1>2. UntilCompare <= UntilCompare
  BY <1>1
<1>3. compare' = (compare \/ UntilCompare <= UntilCompare)
  BY Zenon DEF WaitCompare, Elapse
<1> QED
  BY <1>1, <1>2, <1>3, Zenon

(***************************************************************************)
(* Time passes in a cycle and the loop waits or calls back, within the     *)
(* budget if the time is.                                                  *)
(***************************************************************************)
LEMMA CycleGoesOn ==
    ASSUME TypeOK, Settings, mode = "scan", InCycle, channel_idx > 0,
           NEW t \in Nat, NEW bound \in Nat, Elapse(t),
           UNCHANGED <<cc0, interval, window, frac, cycle_start, channel_idx>>,
           \/ pc' = "idle"
           \/ pc' = "callback" /\ bound <= PerChannel + Overrun
           \/ pc' = "wait" /\ bound <= Slot,
           Roomy /\ InBudget => Spent + t <= (channel_idx - 1) * Slot + bound,
           bound <= Slot
    PROVE  InCycle'
<1> DEFINE T == Ticks(frac, interval)
           b == (channel_idx - 1) * Slot
<1>1. /\ T \in Nat /\ due \in Int /\ PerChannel \in Nat /\ Slot \in Nat /\ b \in Nat
      /\ Overrun = 9 /\ (Roomy => b + Slot < T) /\ now \in Int /\ cc0 \in Int
  BY CycleTime, SlotsFit, WindowConstants DEF TypeOK
<1>2. /\ DueIsLeft' /\ WindowOpen'
      /\ ~compare' => ~compare /\ now' = now + t
      /\ due # -1 /\ t <= due => due' = due - t /\ Spent' = Spent + t
  BY CycleMoves
<1>3. Spent = T - due
  BY DEF Spent
<1>4. Roomy' = Roomy /\ Slot' = Slot /\ PerChannel' = PerChannel /\ Overrun' = Overrun
  BY DEF Roomy, Slot, PerChannel, Overrun
<1>5. ((channel_idx - 1) * Slot)' = b
  BY <1>4
<1> HIDE DEF T, b
<1>6. ASSUME Roomy
      PROVE  InBudget'
  <2>1. InBudget
    BY <1>6 DEF InCycle
  <2>2. Spent + t <= b + bound /\ due # -1
    BY <1>6, <2>1 DEF InBudget, b
  <2>3. t <= due
    BY <1>1, <1>3, <1>6, <2>2
  <2>4. due' = due - t /\ Spent' = Spent + t /\ Spent \in Int
    BY <1>1, <1>2, <1>3, <2>2, <2>3
  <2>5. due' # -1
    BY <1>1, <2>3, <2>4
  <2>6. ~compare' => Spent' + (cc0' - now') <= b + PerChannel
    <3> SUFFICES ASSUME ~compare' PROVE Spent' + (cc0' - now') <= b + PerChannel
      OBVIOUS
    <3>1. ~compare /\ now' = now + t
      BY <1>2
    <3>2. Spent + (cc0 - now) <= b + PerChannel
      BY <2>1, <3>1 DEF InBudget, b
    <3> QED BY <1>1, <2>4, <3>1, <3>2
  <2>7. pc' = "callback" => Spent' <= b + PerChannel + Overrun
    BY <1>1, <2>2, <2>4
  <2>8. pc' = "wait" => Spent' <= b + Slot
    BY <1>1, <2>2, <2>4
  <2> QED BY <1>4, <1>5, <2>5, <2>6, <2>7, <2>8 DEF InBudget
<1>7. cycle_start' < TimerMod /\ pc' # "listen" /\ pc' # "response"
  BY DEF InCycle
<1> QED
  BY <1>2, <1>4, <1>6, <1>7 DEF InCycle

(***************************************************************************)
(* The scan loop waits for the compare event.                              *)
(***************************************************************************)
LEMMA WaitCycle ==
    ASSUME TypeOK, Settings, mode = "scan", ScanInv, WaitCompare
    PROVE  ScanInv'
<1>1. /\ pc = "wait" /\ ~compare /\ Elapse(UntilCompare)
      /\ UNCHANGED <<cc0, interval, window, pc, deadline, channel_idx, cycle_start, frac, rounds,
                     late>>
  BY DEF WaitCompare, params, accum, marks
<1>2. UntilCompare \in Nat
  BY WaitFires
<1>3. compare' = TRUE
  BY WaitFires
<1>4. CASE channel_idx > 0
  <2>1. InCycle
    BY <1>1, <1>4 DEF ScanInv
  <2>2. UntilCompare = cc0 - now
    BY <1>1, <2>1, UntilWindowEnds DEF InCycle
  <2>3. PerChannel \in Nat /\ Slot \in Nat /\ PerChannel <= Slot
    BY CycleTime
  <2>4. InBudget => Spent + UntilCompare <= (channel_idx - 1) * Slot + PerChannel
    BY <1>1, <2>2 DEF InBudget
  <2>5. InCycle'
    BY <1>1, <1>2, <1>4, <2>1, <2>3, <2>4, CycleGoesOn
  <2> QED BY <1>1, <1>4, <2>5 DEF ScanInv
<1>5. CASE channel_idx = 0
  <2>1. ~late /\ rounds > 1 => due = UntilCompare
    BY <1>1, <1>5 DEF ScanInv, BetweenCycles
  <2>2. due = UntilCompare => due' = 0
    BY <1>1, <1>2 DEF Elapse
  <2>3. ~late' => BetweenCycles'
    BY <1>1, <1>3, <2>1, <2>2 DEF BetweenCycles
  <2> QED BY <1>1, <1>5, <2>3 DEF ScanInv
<1> QED
  BY <1>4, <1>5 DEF TypeOK

(***************************************************************************)
(* The application takes its time in the callback.                         *)
(***************************************************************************)
LEMMA CallbackCycle ==
    ASSUME TypeOK, Settings, mode = "scan", ScanInv, Callback
    PROVE  ScanInv'
<1>1. PICK d \in Callbacks \cup {0} : Elapse(d)
  BY DEF Callback
<1>2. /\ pc = "callback" /\ pc' = "wait"
      /\ UNCHANGED <<cc0, interval, window, channel_idx, cycle_start, frac, rounds, late>>
  BY DEF Callback, params, accum, marks
<1>3. d \in Nat /\ d <= MaxCallback
  BY SchedulerAssumption
<1>4. CASE channel_idx > 0
  <2>1. InCycle
    BY <1>2, <1>4 DEF ScanInv
  <2>2. /\ PerChannel \in Nat /\ Slot \in Nat /\ MaxCallback \in Nat /\ Overrun = 9
        /\ Slot = PerChannel + 9 + MaxCallback /\ Ticks(frac, interval) \in Nat /\ due \in Int
        /\ (channel_idx - 1) * Slot \in Nat
    BY <1>4, CycleTime, WindowConstants, SlotsFit DEF TypeOK
  <2>3. InBudget => Spent + d <= (channel_idx - 1) * Slot + Slot
    <3> DEFINE b == (channel_idx - 1) * Slot
    <3>1. InBudget => Spent <= b + PerChannel + 9
      BY <1>2, <2>2 DEF InBudget
    <3>2. b \in Nat /\ Spent \in Int
      BY <2>2 DEF Spent
    <3> HIDE DEF b
    <3>3. InBudget => Spent + d <= b + Slot
      BY <1>3, <2>2, <3>1, <3>2
    <3> QED BY <3>3 DEF b
  <2>4. InCycle'
    BY <1>1, <1>2, <1>3, <1>4, <2>1, <2>2, <2>3, CycleGoesOn
  <2> QED BY <1>2, <1>4, <2>4 DEF ScanInv
<1>5. CASE channel_idx = 0
  <2>1. ~late => BetweenCycles /\ ~(rounds > 1)
    BY <1>2, <1>5 DEF ScanInv, BetweenCycles
  <2>2. ~compare' => ~compare /\ UntilCompare \in Nat /\ UntilCompare' = UntilCompare - d
    BY <1>1, <1>2, <1>3, CompareNearer
  <2>3. Longest' = Longest /\ Longest \in Nat
    BY <1>2, CycleTime DEF Longest
  <2>4. ~late' => BetweenCycles'
    BY <1>2, <1>3, <2>1, <2>2, <2>3 DEF BetweenCycles
  <2> QED BY <1>2, <1>5, <2>4 DEF ScanInv
<1> QED
  BY <1>4, <1>5 DEF TypeOK

(***************************************************************************)
(* A window or the wait for a SCAN_RSP ends, at its deadline or before.    *)
(***************************************************************************)
LEMMA ListenEnds ==
    ASSUME TypeOK, Settings, mode = "scan", ScanInv, ScanUnheard \/ ScanHeard
    PROVE  ScanInv'
<1>1. pc \in {"listen", "response"} /\ channel_idx > 0 /\ InCycle
  BY DEF ScanUnheard, ScanHeard, ScanInv
<1>2. /\ UNCHANGED <<cc0, interval, window, frac, cycle_start, channel_idx>>
      /\ pc' \in {"idle", "callback"}
  BY DEF ScanUnheard, ScanHeard, scanUnchanged, params, accum
<1>3. /\ now \in Nat /\ cc0 \in Nat /\ deadline \in Nat /\ TimerMod \in Nat /\ Overrun = 9
      /\ PerChannel \in Nat /\ Slot \in Nat /\ PerChannel + 9 <= Slot
      /\ Ticks(frac, interval) \in Nat /\ due \in Int /\ (channel_idx - 1) * Slot \in Nat
  BY <1>1, WindowConstants, CycleTime, SlotsFit, SchedulerAssumption DEF TypeOK
<1>4. now <= deadline /\ deadline < TimerMod
  <2>1. CASE pc = "listen"
    BY <1>1, <1>3, <2>1 DEF InCycle, WindowOpen
  <2>2. CASE pc = "response"
    BY <1>1, <1>3, <2>2 DEF InCycle
  <2> QED BY <1>1, <2>1, <2>2
<1> DEFINE b == (channel_idx - 1) * Slot
<1>5. InBudget => Spent + (deadline - now) <= b + (PerChannel + 9)
  <2>1. Spent \in Int /\ b \in Nat
    BY <1>3 DEF Spent
  <2>2. CASE pc = "listen"
    <3>1. InBudget => Spent + (deadline - now) <= b + PerChannel
      BY <1>1, <2>2 DEF InBudget, InCycle
    <3> HIDE DEF b
    <3> QED BY <1>3, <2>1, <3>1
  <2>3. CASE pc = "response"
    <3>1. InBudget => Spent + (deadline - now) <= b + PerChannel + 9
      BY <1>3, <2>3 DEF InBudget
    <3> HIDE DEF b
    <3> QED BY <1>3, <2>1, <3>1
  <2> QED BY <1>1, <2>2, <2>3
<1>6. PICK t \in Nat : Elapse(t) /\ t <= deadline - now
  <2>1. CASE ScanUnheard
    <3>1. Elapse(deadline - now) /\ deadline - now \in Nat /\ deadline - now <= deadline - now
      BY <1>3, <1>4, <2>1 DEF ScanUnheard
    <3> QED BY <3>1
  <2>2. CASE ScanHeard
    <3>1. PICK d \in Delays : Hears(d) /\ Elapse(d)
      BY <2>2 DEF ScanHeard
    <3>2. d \in Nat /\ now + d < deadline
      BY <1>4, <3>1, SchedulerAssumption DEF Hears, Reachable
    <3> QED BY <1>3, <3>1, <3>2
  <2> QED BY <2>1, <2>2
<1>7. InBudget => Spent + t <= b + (PerChannel + 9)
  <2>1. Spent \in Int /\ b \in Nat
    BY <1>3 DEF Spent
  <2> HIDE DEF b
  <2> QED BY <1>3, <1>5, <1>6, <2>1
<1>8. InCycle'
  <2>1. PerChannel + 9 \in Nat /\ PerChannel + 9 <= PerChannel + Overrun
    BY <1>3
  <2> QED BY <1>1, <1>2, <1>3, <1>6, <1>7, <2>1, CycleGoesOn
<1> QED BY <1>1, <1>2, <1>8 DEF ScanInv

(***************************************************************************)
(* An active scanner stays on the channel for the SCAN_RSP, no more than   *)
(* the overrun past the end of the window.                                 *)
(***************************************************************************)
LEMMA RequestsCycle ==
    ASSUME TypeOK, Settings, mode = "scan", ScanInv, ~disturbed', ScanRequests
    PROVE  ScanInv'
<1>1. PICK d \in Delays : /\ Hears(d) /\ Elapse(d)
                          /\ Deadline(At(d) + timeout_ticks(SCAN_REQ_WINDOW_MICROS), disturbed)
  BY DEF ScanRequests
<1>2. /\ d \in Nat /\ pc = "listen" /\ pc' = "response"
      /\ UNCHANGED <<cc0, interval, window, frac, cycle_start, channel_idx>>
  BY SchedulerAssumption DEF ScanRequests, scanUnchanged, params, accum
<1>3. channel_idx > 0 /\ InCycle
  BY <1>2 DEF ScanInv
<1>4. /\ now \in Nat /\ cc0 \in Nat /\ TimerMod \in Nat /\ Overrun = 9
      /\ PerChannel \in Nat /\ Slot \in Nat /\ PerChannel + 9 <= Slot
      /\ Ticks(frac, interval) \in Nat /\ due \in Int /\ (channel_idx - 1) * Slot \in Nat
      /\ Roomy => (channel_idx - 1) * Slot + Slot < Ticks(frac, interval)
  BY <1>3, WindowConstants, CycleTime, SlotsFit, SchedulerAssumption DEF TypeOK
<1>5. deadline = cc0 /\ ~compare /\ now < cc0 /\ cc0 < TimerMod
  BY <1>2, <1>3 DEF InCycle, WindowOpen
<1>6. now + d < cc0
  BY <1>1, <1>5 DEF Hears, Reachable
<1>7. At(d) = now + d /\ now' = now + d
  <2>1. now + d \in 0 .. TimerMod - 1
    BY <1>2, <1>4, <1>5, <1>6
  <2> QED BY <1>1, <2>1, Reduced DEF At, Elapse
<1>8. deadline' = now + d + 10 /\ ~(now + d + 10 >= TimerMod)
  <2>1. deadline' = At(d) + 10 /\ ~(At(d) + 10 >= TimerMod)
    BY <1>1, WindowConstants DEF Deadline
  <2> QED BY <1>7, <2>1
<1>9. /\ DueIsLeft' /\ WindowOpen'
      /\ ~compare' => ~compare /\ now' = now + d
      /\ due # -1 /\ d <= due => due' = due - d /\ Spent' = Spent + d
  BY <1>1, <1>2, <1>3, CycleMoves
<1>10. Roomy' = Roomy /\ Slot' = Slot /\ PerChannel' = PerChannel /\ Overrun' = Overrun
  BY <1>2 DEF Roomy, Slot, PerChannel, Overrun
<1> DEFINE b == (channel_idx - 1) * Slot
           T == Ticks(frac, interval)
<1>11. ((channel_idx - 1) * Slot)' = b /\ Spent = T - due
  BY <1>2, <1>10 DEF Spent
<1>12. ASSUME Roomy
       PROVE  InBudget'
  <2>1. due # -1 /\ Spent + (cc0 - now) <= b + PerChannel /\ b + Slot < T
    BY <1>3, <1>4, <1>5, <1>12 DEF InCycle, InBudget
  <2>2. b \in Nat /\ T \in Nat
    BY <1>4
  <2> HIDE DEF b, T
  <2>3. d <= due
    BY <1>2, <1>4, <1>6, <1>11, <2>1, <2>2
  <2>4. due' = due - d /\ Spent' = Spent + d /\ Spent \in Int
    BY <1>4, <1>9, <1>11, <2>1, <2>2, <2>3
  <2>5. due' # -1
    BY <1>2, <1>4, <2>3, <2>4
  <2>6. Spent' + (cc0' - now') <= b + PerChannel
    BY <1>2, <1>4, <1>7, <2>1, <2>2, <2>4
  <2>7. Spent' + (deadline' - now') <= b + PerChannel + Overrun
    BY <1>2, <1>4, <1>6, <1>7, <1>8, <2>1, <2>2, <2>4
  <2> QED BY <1>2, <1>10, <1>11, <2>5, <2>6, <2>7 DEF InBudget
<1>13. now' <= deadline' /\ deadline' < TimerMod
  BY <1>2, <1>4, <1>7, <1>8
<1>14. InCycle'
  BY <1>2, <1>3, <1>9, <1>10, <1>12, <1>13 DEF InCycle
<1> QED BY <1>2, <1>3, <1>14 DEF ScanInv

-----------------------------------------------------------------------------
(***************************************************************************)
(* Every step of the scan loop.                                            *)
(***************************************************************************)
LEMMA ScanLoop ==
    ASSUME TypeOK, Settings, LoopInv, [Next]_vars,
           mode = "scan", ~(gap_adv_start \/ gap_scan_start), ~disturbed'
    PROVE  ScanInv'
<1>1. ~(ScanTick /\ channel_idx = 0) => ~disturbed
  BY DEF Next, vars, marks, Callback, WaitCompare, gap_stop, TickStops, AdvTick, AdvTickLegacy,
     AdvTickMute, AdvTickExtended, AdvUnheard, AdvHeard, AdvPeriodic, AdvSent, ArmNext, ScanTick,
     ScanCycleEnds, ScanUnheard, ScanHeard, ScanRequests, ScanChases, ScanChased, PeriodicTick,
     Deadline, TypeOK
<1>2. ~(ScanTick /\ channel_idx = 0) => ScanInv
  BY <1>1 DEF LoopInv
<1>3. CASE ScanTick
  <2>1. channel_idx > 0 => ScanInv
    BY <1>2
  <2> QED BY <1>3, <2>1, ScanTickCycle
<1>4. CASE ~ScanTick
  <2>0. ScanInv
    BY <1>2, <1>4
  <2>1. CASE WaitCompare
    BY <2>0, <2>1, WaitCycle
  <2>2. CASE Callback
    BY <2>0, <2>2, CallbackCycle
  <2>3. CASE ScanCycleEnds
    BY <2>0, <2>3, CycleEndWaits
  <2>4. CASE ScanUnheard \/ ScanHeard
    BY <2>0, <2>4, ListenEnds
  <2>5. CASE ScanRequests
    BY <2>0, <2>5, RequestsCycle
  <2>6. CASE TickStops
    BY <2>6 DEF TickStops, ScanInv
  <2>7. CASE gap_stop \/ UNCHANGED vars
    <3>1. UNCHANGED <<now, cc0, compare, due, interval, window, pc, deadline, channel_idx,
                      cycle_start, frac, rounds, late>>
      BY <2>7 DEF gap_stop, vars, timer, params, accum, marks
    <3>2. /\ UntilCompare' = UntilCompare /\ Longest' = Longest /\ PerChannel' = PerChannel
          /\ Overrun' = Overrun /\ Spent' = Spent /\ Slot' = Slot /\ Roomy' = Roomy
      BY <3>1 DEF UntilCompare, Longest, PerChannel, Overrun, Spent, Slot, Roomy
    <3>3. /\ InBudget => InBudget'
          /\ DueIsLeft => DueIsLeft'
          /\ WindowOpen => WindowOpen'
      BY <3>1, <3>2 DEF InBudget, DueIsLeft, WindowOpen
    <3>4. InCycle => InCycle'
      BY <3>1, <3>2, <3>3 DEF InCycle
    <3>5. BetweenCycles => BetweenCycles'
      BY <3>1, <3>2 DEF BetweenCycles
    <3> QED BY <2>0, <3>1, <3>4, <3>5 DEF ScanInv
  <2>8. ~(ScanChases \/ PeriodicTick)
    BY DEF ScanChases, PeriodicTick, Deadline
  <2>9. ~ScanChased
    BY <2>0 DEF ScanChased, ScanInv
  <2>10. ~(AdvTickLegacy \/ AdvTickMute \/ AdvTickExtended \/ AdvUnheard \/ AdvHeard
             \/ AdvPeriodic \/ AdvSent)
    BY DEF AdvTickLegacy, AdvTickMute, AdvTickExtended, AdvTick, AdvUnheard, AdvHeard,
       AdvPeriodic, AdvSent
  <2> QED
    BY <1>4, <2>1, <2>2, <2>3, <2>4, <2>5, <2>6, <2>7, <2>8, <2>9, <2>10 DEF Next
<1> QED
  BY <1>3, <1>4

(***************************************************************************)
(* Every step of the advertising loop.                                     *)
(***************************************************************************)
LEMMA AdvLoop ==
    ASSUME TypeOK, Settings, LoopInv, [Next]_vars,
           mode = "adv", ~(gap_adv_start \/ gap_scan_start)
    PROVE  AdvInv'
<1>1. AdvInv
  BY DEF LoopInv
<1>2. CASE WaitCompare
  <2>1. compare' = TRUE
    BY <1>2, WaitFires
  <2> QED BY <2>1, Zenon DEF AdvInv
<1>3. CASE AdvTickLegacy \/ AdvTickMute \/ AdvTickExtended \/ AdvPeriodic \/ TickStops
  <2>1. pc' \notin {"callback", "wait"}
    BY <1>3 DEF AdvTickLegacy, AdvTickMute, AdvTickExtended, AdvTick, AdvPeriodic, TickStops
  <2> QED BY <2>1 DEF AdvInv
<1>4. CASE AdvUnheard \/ AdvSent
  <2>1. pc # "idle" /\ ArmNext(deadline - now, FALSE)
    BY <1>4 DEF AdvUnheard, AdvSent
  <2>2. deadline - now \in Int /\ deadline - now + 0 = deadline - now
    BY DEF TypeOK
  <2>3. now' = At(deadline - now)
    BY <1>4, <2>2 DEF AdvUnheard, AdvSent, Elapse, WaitOffset
  <2> QED BY <2>1, <2>2, <2>3, ArmNextWaits
<1>5. CASE AdvHeard
  <2>1. PICK d \in Delays, connected \in BOOLEAN :
          Elapse(d) /\ ArmNext(d, connected) /\ pc # "idle"
    BY <1>5 DEF AdvHeard
  <2>2. d \in Int /\ now' = At(d)
    BY <2>1, SchedulerAssumption DEF Elapse
  <2> QED BY <2>1, <2>2, ArmNextWaits
<1>6. CASE gap_stop \/ UNCHANGED vars
  <2>1. UNCHANGED <<now, cc0, compare, interval, pc>>
    BY <1>6 DEF gap_stop, vars, timer, params
  <2>2. UntilCompare' = UntilCompare /\ Longest' = Longest
    BY <2>1 DEF UntilCompare, Longest
  <2> QED BY <1>1, <2>1, <2>2 DEF AdvInv
<1>7. CASE Callback
  <2>1. PICK d \in Callbacks \cup {0} : Elapse(d)
    BY <1>7 DEF Callback
  <2>2. d \in Nat /\ pc = "callback" /\ UNCHANGED <<cc0, interval>>
    BY <1>7, SchedulerAssumption DEF Callback, params
  <2>3. ~compare' => ~compare /\ UntilCompare \in Nat /\ UntilCompare' = UntilCompare - d
    BY <2>1, <2>2, CompareNearer
  <2>4. Longest' = Longest /\ Longest \in Nat
    <3>1. TICKS_PER_UNIT_DENOM - 1 \in 0 .. TICKS_PER_UNIT_DENOM - 1 /\ interval \in Nat
      BY DEF TICKS_PER_UNIT_DENOM, TypeOK
    <3> QED BY <2>2, <3>1, TicksBounds DEF Longest
  <2> QED BY <1>1, <2>2, <2>3, <2>4 DEF AdvInv
<1>8. ~(ScanTick \/ ScanCycleEnds \/ ScanUnheard \/ ScanHeard \/ ScanRequests \/ ScanChases
          \/ ScanChased \/ PeriodicTick)
  BY DEF ScanTick, ScanCycleEnds, ScanUnheard, ScanHeard, ScanRequests, ScanChases, ScanChased,
     PeriodicTick
<1> QED
  BY <1>2, <1>3, <1>4, <1>5, <1>6, <1>7, <1>8 DEF Next

(***************************************************************************)
(* A cycle ends late only where there is no room.                          *)
(***************************************************************************)
LEMMA LateStep ==
    ASSUME TypeOK, Settings, LoopInv, [Next]_vars, ~(gap_adv_start \/ gap_scan_start),
           late', ~disturbed'
    PROVE  ~Roomy'
<1>1. CASE ScanCycleEnds
  <2>1. mode = "scan" /\ ~disturbed
    BY <1>1 DEF ScanCycleEnds
  <2>2. ScanInv
    BY <2>1 DEF LoopInv
  <2> QED BY <1>1, <2>1, <2>2, CycleEndWaits
<1>2. CASE ~ScanCycleEnds
  <2>1. late /\ ~disturbed
    BY <1>2 DEF Next, vars, marks, Callback, WaitCompare, gap_stop, TickStops, AdvTick,
       AdvTickLegacy, AdvTickMute, AdvTickExtended, AdvUnheard, AdvHeard, AdvPeriodic, AdvSent,
       ArmNext, ScanTick, ScanUnheard, ScanHeard, ScanRequests, ScanChases, ScanChased,
       PeriodicTick, scanUnchanged, Deadline, TypeOK
  <2>2. Roomy' = Roomy
    BY OnlyStartSets DEF Roomy
  <2> QED BY <2>1, <2>2 DEF LoopInv
<1> QED BY <1>1, <1>2

(***************************************************************************)
(* The schedule of both loops in every reachable state.                    *)
(***************************************************************************)
LEMMA ScheduleInvariant == Spec => []TimingInv
<1>1. Init => Settings /\ LoopInv
  BY DEF Init, Settings, LoopInv, AdvInv
<1>2. TypeOK /\ Settings /\ LoopInv /\ [Next]_vars => LoopInv'
  <2> SUFFICES ASSUME TypeOK, Settings, LoopInv, [Next]_vars PROVE LoopInv'
    OBVIOUS
  <2>1. CASE gap_adv_start
    BY <2>1, StartWaits, SettingsAreNaturals DEF gap_adv_start
  <2>2. CASE gap_scan_start
    <3>1. PICK s \in ScanSettings : Start("scan", s.interval, s.window)
      BY <2>2 DEF gap_scan_start
    <3>2. s.interval \in Nat /\ s.interval >= 4
      BY SettingsAreNaturals
    <3> QED BY <3>1, <3>2, StartWaits
  <2>3. CASE ~(gap_adv_start \/ gap_scan_start)
    <3>1. mode' = mode
      BY <2>3, OnlyStartSets
    <3>2. ~disturbed' /\ mode = "scan" => ScanInv'
      BY <2>3, ScanLoop
    <3>3. mode = "adv" => AdvInv'
      BY <2>3, AdvLoop
    <3>4. late' /\ ~disturbed' => ~Roomy'
      BY <2>3, LateStep
    <3> QED BY <3>1, <3>2, <3>3, <3>4 DEF LoopInv
  <2> QED BY <2>1, <2>2, <2>3
<1> QED
  BY <1>1, <1>2, SettingsStep, SchedulerTypes, PTL DEF Spec, TimingInv

(***************************************************************************)
(* "A scan cycle must be exactly one scan interval": for every interval    *)
(* and window that gap_scan_start accepts, any times at which packets      *)
(* arrive and any callbacks, a cycle after the first starts exactly one    *)
(* interval after the one before, also across the end of the timer, unless *)
(* that one met an extended or periodic advertiser or a deadline beyond    *)
(* the end of the timer, or ended when the next was due.                   *)
(***************************************************************************)
THEOREM CyclesExact == Spec => []CycleExactUndisturbed
<1>1. TimingInv => CycleExactUndisturbed
  <2> SUFFICES ASSUME TimingInv, ~disturbed, ~late, mode = "scan", TickBegins,
                      channel_idx = 0, rounds > 1
               PROVE  due = 0
    BY DEF CycleExactUndisturbed, CycleExact
  <2>1. ScanInv /\ compare
    BY DEF TimingInv, LoopInv, TickBegins
  <2>2. pc = "wait"
    BY <2>1 DEF TickBegins, ScanInv
  <2> QED BY <2>1, <2>2 DEF ScanInv, BetweenCycles
<1> QED
  BY <1>1, ScheduleInvariant, PTL

(***************************************************************************)
(* A cycle that nothing disturbs ends when the next is due (and CC0 is     *)
(* then set in the past) only if the interval has no room for the window,  *)
(* three waits for a SCAN_RSP and three callbacks of the longest time.     *)
(***************************************************************************)
THEOREM LateNeedsTightSettings == Spec => []LateOnlyWhenTight
<1>1. TimingInv => LateOnlyWhenTight
  <2> SUFFICES ASSUME TimingInv, late, ~disturbed, ~LateOnlyWhenTight PROVE FALSE
    BY DEF LateOnlyWhenTight
  <2>1. TypeOK /\ ~Roomy
    BY DEF TimingInv, LoopInv
  <2> DEFINE x == window * TICKS_PER_UNIT + TICKS_PER_UNIT_DENOM - 1
             v == window_ticks(window)
             t == Ticks(0, interval)
  <2>2. v \in Int /\ t \in Int /\ MaxCallback \in Int
    <3>1. x \in Nat /\ interval \in Nat
      BY <2>1 DEF TypeOK, TICKS_PER_UNIT, TICKS_PER_UNIT_DENOM
    <3>2. 0 \in 0 .. TICKS_PER_UNIT_DENOM - 1
      BY DEF TICKS_PER_UNIT_DENOM
    <3>3. t \in Nat
      BY <3>1, <3>2, TicksBounds
    <3>4. v = x \div 32
      BY DEF window_ticks, TICKS_PER_UNIT_DENOM
    <3>5. v \in Int
      <4> HIDE DEF x, v
      <4> QED BY <3>1, <3>4
    <3> QED BY <3>3, <3>5, SchedulerAssumption
  <2>3. ~(v + 3 * (10 + MaxCallback) < t) /\ ~(t <= v + 3 * (10 + MaxCallback))
    BY <2>1, WindowConstants DEF Roomy, LateOnlyWhenTight
  <2> HIDE DEF v, t
  <2> QED BY <2>2, <2>3
<1> QED
  BY <1>1, ScheduleInvariant, PTL

(***************************************************************************)
(* A waiting loop is woken within one interval, for every setting that is  *)
(* accepted, any times at which packets arrive and any callbacks, unless   *)
(* the scan cycle is disturbed or ended when the next was due.             *)
(***************************************************************************)
THEOREM WokenInTime == Spec => []WakesUndisturbed
<1>1. TimingInv => WakesUndisturbed
  <2> SUFFICES ASSUME TimingInv, ~disturbed, ~late, pc = "wait", ~compare
               PROVE  UntilCompare <= Longest
    BY DEF WakesUndisturbed, WakesWithinInterval, Longest
  <2>1. TypeOK /\ Settings /\ LoopInv
    BY DEF TimingInv
  <2>2. CASE mode = "adv"
    BY <2>1, <2>2 DEF LoopInv, AdvInv
  <2>3. CASE mode = "scan" /\ channel_idx = 0
    BY <2>1, <2>3 DEF LoopInv, ScanInv, BetweenCycles
  <2>4. CASE mode = "scan" /\ channel_idx > 0
    <3>1. WindowOpen
      BY <2>1, <2>4 DEF LoopInv, ScanInv, InCycle
    <3>2. cc0 - now <= PerChannel
      BY <3>1 DEF WindowOpen
    <3>3. UntilCompare = cc0 - now
      BY <2>1, <3>1, UntilWindowEnds
    <3>4. PerChannel \in Nat /\ PerChannel <= Longest /\ Longest \in Nat
      BY <2>1, <2>4, CycleTime
    <3>5. cc0 \in Int /\ now \in Int
      BY <2>1 DEF TypeOK
    <3> QED BY <3>2, <3>3, <3>4, <3>5
  <2> QED BY <2>1, <2>2, <2>3, <2>4 DEF TypeOK
<1> QED
  BY <1>1, ScheduleInvariant, PTL
=============================================================================
