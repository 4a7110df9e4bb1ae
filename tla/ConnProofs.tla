----------------------------- MODULE ConnProofs -----------------------------
(***************************************************************************)
(* What is proved of a connection: when its events begin and when it is    *)
(* given up (ConnTiming), and what the acknowledgements of a slave mean    *)
(* (LinkLayer), for every value of the constants.                          *)
(***************************************************************************)
EXTENDS ConnTiming, LinkLayer, TLAPS

-----------------------------------------------------------------------------
(* Timing: the inductive invariant                                         *)

(***************************************************************************)
(* The types of the state.                                                 *)
(***************************************************************************)
Types ==
    /\ now \in 0 .. TimerMod - 1 /\ cc0 \in Nat /\ compare \in BOOLEAN
    /\ role \in {"Master", "Slave"} /\ pc \in {"idle", "anchor", "listen", "closed"}
    /\ params \in Params /\ frac \in Nat /\ anchor \in Nat /\ listen_until \in Nat
    /\ last_rx \in Nat /\ pending_update \in Params \cup {None}
    /\ silence \in Nat /\ wrapped \in BOOLEAN
    /\ window \in Nat /\ cut \in BOOLEAN

(***************************************************************************)
(* What conn_tick takes for the age of the last packet is the time since   *)
(* it, as long as the timer has not wrapped.                               *)
(***************************************************************************)
SilenceCounted == ~wrapped => now = last_rx + silence

\* The deadline of a listen window lies ahead.
Ahead == pc = "listen" => listen_until >= now

TimedOut == pc = "closed" /\ ~wrapped => silence >= limit

(***************************************************************************)
(* CC0 of a master: the end of the last window until the next event has    *)
(* set its anchor.  While that window lasts its compare event has not      *)
(* fired; of an event begun in it, only the anchor fires.                  *)
(***************************************************************************)
WindowAhead ==
    pc \in {"idle", "listen"} /\ window > 0 => ~compare /\ UntilCompare >= window

AnchorNext ==
    pc = "anchor" =>
        /\ cc0 = anchor
        /\ cut /\ compare => now = anchor % TimerMod

CompareInv == role = "Master" => WindowAhead /\ AnchorNext

TimingInv ==
    /\ Types
    /\ SilenceCounted /\ Ahead /\ TimedOut
    /\ CompareInv /\ AlignedAfterPacket

-----------------------------------------------------------------------------
(* Arithmetic                                                              *)

\* The constants, without the modulus of u32 by that of the timer.
LEMMA Moduli ==
    /\ TimerMod \in Nat /\ TimerMod > 63 /\ LISTEN = 63
    /\ WordMod \in Nat /\ WordMod >= 2 * TimerMod
<1>1. LISTEN = 63
  BY DEF LISTEN, timeout_ticks
<1> QED BY <1>1, ConnTimingAssumption

\* The remainder is the one number below the modulus that differs by a multiple.
LEMMA Remainder ==
    ASSUME NEW m \in Nat, m > 0, NEW q \in Int, NEW r \in Int, 0 <= r, r < m
    PROVE  (m * q + r) % m = r
<1> DEFINE x == m * q + r
           p == x \div m
           s == x % m
<1>1. m * q \in Int /\ x \in Int
  OBVIOUS
<1>2. p \in Int /\ s \in Int /\ 0 <= s /\ s < m /\ x = m * p + s
  <2> HIDE DEF x
  <2> QED BY <1>1
<1>3. x = m * q + r
  OBVIOUS
<1> HIDE DEF x, p, s
<1>4. m * (q - p) = s - r
  BY <1>2, <1>3
<1>5. q - p >= 1 => m * (q - p) >= m
  BY <1>2
<1>6. q - p <= -1 => m * (q - p) <= -m
  BY <1>2
<1>7. q = p
  BY <1>2, <1>4, <1>5, <1>6
<1> QED BY <1>2, <1>3, <1>7 DEF x, s

\* Quotient and remainder of any integer.
LEMMA Divided ==
    ASSUME NEW m \in Nat, m > 0, NEW x \in Int
    PROVE  /\ x % m \in Int /\ 0 <= x % m /\ x % m < m
           /\ \E q \in Int : x = (m * q) + (x % m)
<1>1. x \div m \in Int /\ x = (m * (x \div m)) + (x % m)
  OBVIOUS
<1>2. x % m \in Int /\ 0 <= x % m /\ x % m < m
  OBVIOUS
<1> QED BY <1>1, <1>2

\* A number below the modulus is its own remainder.
LEMMA Small ==
    ASSUME NEW m \in Nat, NEW r \in Int, 0 <= r, r < m
    PROVE  r % m = r
<1>1. m > 0 /\ (m * 0) + r = r
  OBVIOUS
<1> QED BY <1>1, Remainder

(***************************************************************************)
(* The timer c counts after n, and CC0 = c: the ticks to the compare event *)
(* are some of a full turn, become fewer as time passes, and are over when *)
(* the timer reaches CC0.                                                  *)
(***************************************************************************)
Distance(c, n) == ((c - n - 1) % TimerMod) + 1

\* The compare event comes within one turn of the timer.
LEMMA DistanceInTurn ==
    ASSUME NEW c \in Int, NEW n \in Int
    PROVE  Distance(c, n) \in 1 .. TimerMod
<1>1. c - n - 1 \in Int /\ TimerMod \in Nat /\ TimerMod > 0
  BY Moduli
<1>2. (c - n - 1) % TimerMod \in 0 .. TimerMod - 1
  BY <1>1, Divided
<1> QED BY <1>1, <1>2 DEF Distance

\* Time that passes before the compare event brings it nearer.
LEMMA DistanceShrinks ==
    ASSUME NEW c \in Int, NEW n \in Int, NEW d \in Nat, d < Distance(c, n)
    PROVE  Distance(c, (n + d) % TimerMod) = Distance(c, n) - d
<1> DEFINE x == c - n - 1
           r == x % TimerMod
           y == n + d
           s == y % TimerMod
<1>1. TimerMod \in Nat /\ TimerMod > 0 /\ x \in Int /\ y \in Int
  BY Moduli
<1>2. /\ r \in Int /\ 0 <= r /\ r < TimerMod
      /\ \E q \in Int : x = (TimerMod * q) + r
  <2> HIDE DEF x
  <2> QED BY <1>1, Divided
<1>3. /\ s \in Int /\ \E q \in Int : y = (TimerMod * q) + s
  <2> HIDE DEF y
  <2> QED BY <1>1, Divided
<1>4. d <= r /\ Distance(c, n) = r + 1
  BY <1>2 DEF Distance
<1>5. x = c - n - 1 /\ y = n + d /\ Distance(c, s) = ((c - s - 1) % TimerMod) + 1
  BY DEF Distance
<1> HIDE DEF x, r, y, s
<1>6. PICK q \in Int : x = (TimerMod * q) + r
  BY <1>2
<1>7. PICK p \in Int : y = (TimerMod * p) + s
  BY <1>3
<1>8. c - s - 1 = (TimerMod * (q + p)) + (r - d)
  BY <1>1, <1>2, <1>3, <1>5, <1>6, <1>7
<1>9. ((TimerMod * (q + p)) + (r - d)) % TimerMod = r - d
  <2>1. r - d \in Int /\ 0 <= r - d /\ r - d < TimerMod /\ q + p \in Int
    BY <1>1, <1>2, <1>4
  <2> QED BY <1>1, <2>1, Remainder
<1>10. Distance(c, s) = r - d + 1
  BY <1>5, <1>8, <1>9
<1> QED BY <1>2, <1>4, <1>10 DEF s, y

\* When the distance has passed, the timer shows the compare value.
LEMMA DistanceOver ==
    ASSUME NEW c \in Int, NEW n \in Int
    PROVE  (n + Distance(c, n)) % TimerMod = c % TimerMod
<1> DEFINE x == c - n - 1
           r == x % TimerMod
           s == c % TimerMod
<1>1. TimerMod \in Nat /\ TimerMod > 0 /\ x \in Int
  BY Moduli
<1>2. r \in Int /\ \E q \in Int : x = (TimerMod * q) + r
  <2> HIDE DEF x
  <2> QED BY <1>1, Divided
<1>3. s \in Int /\ 0 <= s /\ s < TimerMod /\ \E q \in Int : c = (TimerMod * q) + s
  BY <1>1, Divided
<1>4. x = c - n - 1 /\ Distance(c, n) = r + 1
  BY DEF Distance
<1> HIDE DEF x, r, s
<1>5. PICK q \in Int : x = (TimerMod * q) + r
  BY <1>2
<1>6. PICK p \in Int : c = (TimerMod * p) + s
  BY <1>3
<1>7. n + Distance(c, n) = (TimerMod * (p - q)) + s
  BY <1>1, <1>2, <1>3, <1>4, <1>5, <1>6
<1>8. ((TimerMod * (p - q)) + s) % TimerMod = s
  BY <1>1, <1>3, Remainder
<1> QED BY <1>7, <1>8 DEF s

\* A compare value set d ticks ahead is d ticks away,
LEMMA DistanceSet ==
    ASSUME NEW n \in Int, NEW d \in Nat, d >= 1, d <= TimerMod
    PROVE  Distance(n + d, n) = d
<1>1. (n + d) - n - 1 = d - 1 /\ d - 1 \in Int /\ 0 <= d - 1 /\ d - 1 < TimerMod
  BY Moduli
<1>2. (d - 1) % TimerMod = d - 1
  BY <1>1, Moduli, Small
<1> QED BY <1>1, <1>2 DEF Distance

\* also when it is written modulo the range of the timer.
LEMMA DistanceWrapped ==
    ASSUME NEW n \in Int, NEW d \in Nat, d >= 1, d <= TimerMod
    PROVE  Distance((n + d) % TimerMod, n) = d
<1> DEFINE y == n + d
           s == y % TimerMod
<1>1. TimerMod \in Nat /\ TimerMod > 0 /\ y \in Int
  BY Moduli
<1>2. s \in Int /\ \E q \in Int : y = (TimerMod * q) + s
  <2> HIDE DEF y
  <2> QED BY <1>1, Divided
<1>3. y = n + d /\ Distance(s, n) = ((s - n - 1) % TimerMod) + 1
  BY DEF Distance
<1> HIDE DEF y, s
<1>4. PICK q \in Int : y = (TimerMod * q) + s
  BY <1>2
<1>5. s - n - 1 = (TimerMod * (-q)) + (d - 1)
  BY <1>1, <1>2, <1>3, <1>4
<1>6. ((TimerMod * (-q)) + (d - 1)) % TimerMod = d - 1
  <2>1. -q \in Int /\ d - 1 \in Int /\ 0 <= d - 1 /\ d - 1 < TimerMod
    BY <1>1
  <2> QED BY <1>1, <2>1, Remainder
<1> QED BY <1>3, <1>5, <1>6 DEF s, y

\* UntilCompare is this distance.
LEMMA UntilCompareIs == UntilCompare = Distance(cc0, now)
BY DEF UntilCompare, Distance

-----------------------------------------------------------------------------
(* The passage of time                                                     *)

\* The count, and what is said about the silence, t ticks later.
Later(t) ==
    /\ now' = At(t) /\ silence' = silence + t
    /\ wrapped' = (wrapped \/ now + t >= TimerMod)

\* The count stays inside the timer, and is the sum until it wraps.
LEMMA AtBounds ==
    ASSUME Types, NEW t \in Nat
    PROVE  At(t) \in 0 .. TimerMod - 1 /\ (now + t < TimerMod => At(t) = now + t)
<1>1. now + t \in Int /\ 0 <= now + t /\ TimerMod \in Nat /\ TimerMod > 0
  BY Moduli DEF Types
<1>2. (now + t) % TimerMod \in 0 .. TimerMod - 1
  BY <1>1, Divided
<1>3. now + t < TimerMod => (now + t) % TimerMod = now + t
  BY <1>1, Small
<1> QED BY <1>2, <1>3 DEF At

\* Time passes: the silence grows with it, until the timer wraps.
LEMMA SilenceGrows ==
    ASSUME Types, SilenceCounted, NEW t \in Nat, Later(t), last_rx' = last_rx
    PROVE  /\ now' \in 0 .. TimerMod - 1 /\ silence' \in Nat /\ wrapped' \in BOOLEAN
           /\ SilenceCounted'
<1>1. now' \in 0 .. TimerMod - 1 /\ (now + t < TimerMod => now' = now + t)
  BY AtBounds DEF Later
<1>2. silence' = silence + t /\ silence' \in Nat
  BY DEF Later, Types
<1>3. wrapped' \in BOOLEAN
  BY Zenon DEF Later, Types
<1>4. ASSUME ~wrapped' PROVE now' = last_rx' + silence'
  <2>1. ~wrapped /\ ~(now + t >= TimerMod)
    BY <1>4 DEF Later
  <2>2. now = last_rx + silence /\ now + t < TimerMod
    BY <2>1, Moduli DEF SilenceCounted, Types
  <2> QED BY <1>1, <1>2, <2>2 DEF Types
<1> QED BY <1>1, <1>2, <1>3, <1>4 DEF SilenceCounted

\* Before the compare event, the ticks until it become fewer and it is not set.
LEMMA CompareNearer ==
    ASSUME Types, NEW t \in Nat, t < UntilCompare, now' = At(t), cc0' = cc0
    PROVE  UntilCompare' = UntilCompare - t
<1>1. cc0 \in Int /\ now \in Int
  BY DEF Types
<1>2. UntilCompare = Distance(cc0, now)
  BY DEF UntilCompare, Distance
<1>3. UntilCompare' = Distance(cc0, (now + t) % TimerMod)
  BY DEF UntilCompare, Distance, At
<1> QED BY <1>1, <1>2, <1>3, DistanceShrinks

\* The time until the compare event, in every state.
LEMMA UntilCompareType ==
    ASSUME Types
    PROVE  UntilCompare \in 1 .. TimerMod
<1>1. cc0 \in Int /\ now \in Int
  BY DEF Types
<1>2. UntilCompare = Distance(cc0, now)
  BY DEF UntilCompare, Distance
<1> QED BY <1>1, <1>2, DistanceInTurn

(***************************************************************************)
(* While part of a window is left, its compare event has not come.         *)
(***************************************************************************)
LEMMA WindowStaysAhead ==
    ASSUME Types, WindowAhead, pc \in {"idle", "listen"}, NEW t \in Nat,
           now' = At(t), cc0' = cc0, compare' = (compare \/ UntilCompare <= t),
           Left(t) > 0
    PROVE  ~compare' /\ UntilCompare' >= Left(t)
<1>1. window \in Nat /\ window > t /\ Left(t) = window - t
  BY DEF Left, Types
<1>2. ~compare /\ UntilCompare >= window
  BY <1>1 DEF WindowAhead
<1>3. UntilCompare \in Nat
  BY UntilCompareType, Moduli
<1>4. t < UntilCompare
  BY <1>1, <1>2, <1>3
<1>5. UntilCompare' = UntilCompare - t
  BY <1>4, CompareNearer
<1>6. UntilCompare' >= Left(t)
  BY <1>1, <1>2, <1>3, <1>5
<1>7. ~(UntilCompare <= t)
  BY <1>3, <1>4
<1>8. ~compare'
  BY <1>2, <1>7
<1> QED BY <1>6, <1>8

\* What is left of a window is a number.
LEMMA LeftType ==
    ASSUME Types, NEW t \in Nat
    PROVE  Left(t) \in Nat
BY DEF Types, Left

\* The deadline of a window is a u32 that does not wrap.
LEMMA Deadline ==
    ASSUME NEW n \in 0 .. TimerMod - 1
    PROVE  ListenUntil(n) = n + 63
<1>1. n + 63 \in Int /\ 0 <= n + 63 /\ n + 63 < WordMod
  BY Moduli
<1>2. (n + 63) % WordMod = n + 63
  BY <1>1, Moduli, Small
<1> QED BY <1>2, Moduli DEF ListenUntil

-----------------------------------------------------------------------------
(* The steps                                                               *)

\* Conn::new.
LEMMA TimingInit == Init => TimingInv
<1> SUFFICES ASSUME Init PROVE TimingInv
  OBVIOUS
<1>1. now \in 0 .. TimerMod - 1 /\ window \in 1 .. TimerMod - 1
  BY ConnTimingAssumption DEF Init
<1>2. cc0 = (now + window) % TimerMod
  BY DEF Init, At
<1>3. cc0 \in Nat
  <2>1. now + window \in Int
    BY <1>1, Moduli
  <2>2. (now + window) % TimerMod \in Int /\ 0 <= (now + window) % TimerMod
    BY <2>1, Moduli, Divided
  <2> QED BY <1>2, <2>2
<1>4. anchor \in Nat
  BY <1>1, Moduli DEF Init, timeout_ticks
<1>5. Types
  <2>1. role \in {"Master", "Slave"} /\ params \in Params
    BY ConnTimingAssumption DEF Init
  <2>2. /\ pc = "idle" /\ frac = 0 /\ listen_until = 0 /\ last_rx = now
        /\ pending_update = None /\ silence = 0
    BY DEF Init
  <2>3. compare \in BOOLEAN /\ wrapped \in BOOLEAN /\ cut \in BOOLEAN
    BY DEF Init
  <2> QED BY <1>1, <1>3, <1>4, <2>1, <2>2, <2>3, Moduli DEF Types
<1>6. SilenceCounted /\ Ahead /\ TimedOut /\ AlignedAfterPacket
  BY <1>1, Moduli DEF Init, SilenceCounted, Ahead, TimedOut, AlignedAfterPacket
<1>7. CompareInv
  <2>1. UntilCompare = window
    <3>1. now \in Int /\ window \in Nat /\ window >= 1 /\ window <= TimerMod
      BY <1>1, Moduli
    <3>2. Distance((now + window) % TimerMod, now) = window
      BY <3>1, DistanceWrapped
    <3> QED BY <1>2, <3>2, UntilCompareIs
  <2>2. UntilCompare >= window
    BY <1>1, <2>1, Moduli
  <2> QED BY <2>2 DEF Init, CompareInv, WindowAhead, AnchorNext
<1> QED BY <1>5, <1>6, <1>7 DEF TimingInv

\* The age of the last packet, as conn_tick computes it before the timer wraps.
LEMMA ElapsedIsSilence ==
    ASSUME Types, SilenceCounted, NEW g \in Nat, ~wrapped, now + g < TimerMod
    PROVE  Elapsed(g) = silence + g
<1>1. now = last_rx + silence /\ At(g) = now + g
  BY AtBounds DEF SilenceCounted
<1>2. At(g) - last_rx = silence + g
  BY <1>1 DEF Types
<1>3. silence + g \in Int /\ 0 <= silence + g /\ silence + g < WordMod
  BY <1>1, Moduli DEF Types
<1>4. (silence + g) % WordMod = silence + g
  BY <1>3, Moduli, Small
<1> QED BY <1>2, <1>4 DEF Elapsed

\* conn_tick gives the link up.
LEMMA ExpireKeeps == ASSUME TimingInv, Expire PROVE TimingInv'
<1> USE DEF TimingInv
<1>1. PICK g \in Gaps : Elapsed(g) >= limit /\ Elapse(g) /\ window' = Left(g)
  BY DEF Expire
<1>2. g \in Nat
  BY ConnTimingAssumption
<1>3. /\ UNCHANGED <<cc0, role, params, listen_until, last_rx, cut, frac, anchor>>
      /\ UNCHANGED pending_update /\ pc' = "closed"
  BY DEF Expire, schedule, update
<1>4. Later(g) /\ compare' \in BOOLEAN
  BY <1>1, Zenon DEF Elapse, Later
<1>5. now' \in 0 .. TimerMod - 1 /\ silence' \in Nat /\ wrapped' \in BOOLEAN
      /\ SilenceCounted'
  BY <1>2, <1>3, <1>4, SilenceGrows
<1>6. window' \in Nat
  BY <1>1, <1>2, LeftType
<1>7. Types'
  BY <1>3, <1>4, <1>5, <1>6 DEF Types
<1>8. ASSUME ~wrapped' PROVE silence' >= limit'
  <2>1. ~wrapped /\ ~(now + g >= TimerMod) /\ silence' = silence + g
    BY <1>4, <1>8 DEF Later
  <2>2. now + g < TimerMod
    BY <1>2, <2>1, Moduli DEF Types
  <2>3. Elapsed(g) = silence + g
    BY <1>2, <2>1, <2>2, ElapsedIsSilence
  <2>4. limit' = limit
    BY <1>3 DEF limit
  <2> QED BY <1>1, <2>1, <2>3, <2>4
<1>9. Ahead' /\ TimedOut' /\ CompareInv' /\ AlignedAfterPacket'
  BY <1>3, <1>8
     DEF Ahead, TimedOut, CompareInv, WindowAhead, AnchorNext, AlignedAfterPacket
<1> QED BY <1>5, <1>7, <1>9

\* conn_tick begins an event.
LEMMA EventBeginsKeeps == ASSUME TimingInv, EventBegins PROVE TimingInv'
<1> USE DEF TimingInv
<1> DEFINE counter == (event_counter + 1) % CounterMod
           p == IF Updated(counter) THEN pending_update ELSE params
           f == IF Updated(counter) THEN 0 ELSE frac
<1>1. /\ pc = "idle" /\ params' = p
      /\ frac' = Fraction(f, p.interval) % 32
      /\ anchor' = (anchor + Ticks(f, p.interval)) % WordMod
      /\ UNCHANGED <<role, last_rx, pending_update>>
  BY DEF EventBegins, update
<1>2. PICK g \in Gaps :
        /\ Elapse(g)
        /\ cut' = (Left(g) > 0)
        /\ IF role = "Master"
           THEN /\ cc0' = anchor'
                /\ pc' = "anchor"
                /\ UNCHANGED listen_until
                /\ window' = Left(g)
           ELSE /\ listen_until' = ListenUntil(now')
                /\ cc0' = listen_until'
                /\ pc' = "listen"
                /\ window' = LISTEN
  BY DEF EventBegins
<1>3. g \in Nat
  BY ConnTimingAssumption
<1>4. p \in Params /\ p.interval \in Nat /\ f \in Nat
  <2>1. p \in Params /\ f \in Nat
    BY DEF Types, Updated
  <2> HIDE DEF p
  <2> QED BY <2>1, ConnTimingAssumption
<1>5. frac' \in Nat /\ anchor' \in Nat
  <2> HIDE DEF p, f
  <2> DEFINE x == f + 2 * p.interval
             y == anchor + (39 * p.interval + x \div 32)
  <2>1. x \in Nat
    BY <1>4
  <2>2. x % 32 \in Nat /\ x \div 32 \in Nat
    <3> HIDE DEF x
    <3> QED BY <2>1
  <2>3. y \in Nat
    <3> HIDE DEF x
    <3> QED BY <1>4, <2>2 DEF Types
  <2>4. y % WordMod \in Nat
    <3> HIDE DEF y
    <3>1. WordMod > 0 /\ y \in Int
      BY <2>3, Moduli
    <3>2. y % WordMod \in Int /\ 0 <= y % WordMod
      BY <3>1, Moduli, Divided
    <3> QED BY <3>2
  <2>5. frac' = x % 32 /\ anchor' = y % WordMod
    BY <1>1 DEF Fraction, Ticks
  <2> QED BY <2>2, <2>4, <2>5
<1> HIDE DEF p, f, counter
<1>6. Later(g) /\ compare' \in BOOLEAN
  BY <1>2, Zenon DEF Elapse, Later
<1>7. now' \in 0 .. TimerMod - 1 /\ silence' \in Nat /\ wrapped' \in BOOLEAN
      /\ SilenceCounted'
  BY <1>1, <1>3, <1>6, SilenceGrows
<1>8. Left(g) \in Nat /\ cut' \in BOOLEAN
  <2>1. Left(g) \in Nat
    BY <1>3, LeftType
  <2>2. (Left(g) > 0) \in BOOLEAN
    BY <2>1
  <2> QED BY <1>2, <2>1, <2>2
<1>9. CASE role = "Master"
  <2>1. /\ cc0' = anchor' /\ pc' = "anchor" /\ listen_until' = listen_until
        /\ window' = Left(g)
    BY <1>2, <1>9
  <2>2. Types'
    BY <1>1, <1>4, <1>5, <1>6, <1>7, <1>8, <2>1 DEF Types
  <2>3. cut' => ~compare'
    <3> SUFFICES ASSUME cut' PROVE ~compare'
      OBVIOUS
    <3>1. window > g
      <4>1. Left(g) > 0
        BY <1>2
      <4> QED BY <4>1 DEF Left
    <3>2. ~compare /\ UntilCompare >= window
      <4>1. window > 0
        BY <1>3, <3>1 DEF Types
      <4> QED BY <1>1, <1>9, <4>1 DEF CompareInv, WindowAhead
    <3>3. ~(UntilCompare <= g)
      <4>1. UntilCompare \in Nat /\ window \in Nat
        BY UntilCompareType, Moduli DEF Types
      <4> QED BY <1>3, <3>1, <3>2, <4>1
    <3> QED BY <1>2, <3>2, <3>3 DEF Elapse
  <2>4. Ahead' /\ TimedOut' /\ CompareInv' /\ AlignedAfterPacket'
    BY <2>1, <2>3
       DEF Ahead, TimedOut, CompareInv, WindowAhead, AnchorNext, AlignedAfterPacket
  <2> QED BY <1>7, <2>2, <2>4
<1>10. CASE role # "Master"
  <2>1. /\ cc0' = listen_until' /\ pc' = "listen" /\ window' = LISTEN
        /\ listen_until' = ListenUntil(now')
    BY <1>2, <1>10
  <2>2. listen_until' = now' + 63
    BY <1>7, <2>1, Deadline
  <2>3. listen_until' \in Nat /\ listen_until' >= now' /\ window' \in Nat
    <3>1. \A n \in 0 .. TimerMod - 1 : n + 63 \in Nat /\ n + 63 >= n
      BY Moduli
    <3>2. listen_until' \in Nat /\ listen_until' >= now'
      BY <1>7, <2>2, <3>1
    <3>3. window' = LISTEN /\ LISTEN \in Nat
      BY <2>1, Moduli
    <3> QED BY <3>2, <3>3
  <2>4. Types'
    <3>1. cc0' \in Nat /\ pc' = "listen"
      BY <2>1, <2>3
    <3> QED BY <1>1, <1>4, <1>5, <1>6, <1>7, <1>8, <2>3, <3>1 DEF Types
  <2>5. Ahead' /\ TimedOut' /\ CompareInv' /\ AlignedAfterPacket'
    BY <1>1, <1>10, <2>1, <2>3
       DEF Ahead, TimedOut, CompareInv, AlignedAfterPacket
  <2> QED BY <1>7, <2>4, <2>5
<1> QED BY <1>9, <1>10

\* The master waits for the compare event.
LEMMA WaitAnchorKeeps == ASSUME TimingInv, WaitAnchor PROVE TimingInv'
<1> USE DEF TimingInv
<1> DEFINE t == UntilCompare
<1>1. /\ pc = "anchor" /\ Elapse(t)
      /\ UNCHANGED <<cc0, role, pc, params, frac, anchor, listen_until, last_rx>>
      /\ UNCHANGED <<pending_update, window, cut>>
  BY DEF WaitAnchor, schedule, update
<1>2. t \in Nat
  BY UntilCompareType, Moduli
<1>3. Later(t) /\ compare' \in BOOLEAN
  BY <1>1, Zenon DEF Elapse, Later
<1>4. now' \in 0 .. TimerMod - 1 /\ silence' \in Nat /\ wrapped' \in BOOLEAN
      /\ SilenceCounted'
  <2> HIDE DEF t
  <2> QED BY <1>1, <1>2, <1>3, SilenceGrows
<1>5. Types'
  BY <1>1, <1>3, <1>4 DEF Types
<1>6. now' = cc0 % TimerMod
  <2>1. cc0 \in Int /\ now \in Int
    BY DEF Types
  <2>2. (now + Distance(cc0, now)) % TimerMod = cc0 % TimerMod
    BY <2>1, DistanceOver
  <2> QED BY <1>3, <2>2, UntilCompareIs DEF Later, At
<1>7. CompareInv'
  BY <1>1, <1>6 DEF CompareInv, WindowAhead, AnchorNext
<1>8. Ahead' /\ TimedOut' /\ AlignedAfterPacket'
  BY <1>1 DEF Ahead, TimedOut, AlignedAfterPacket
<1> QED BY <1>4, <1>5, <1>7, <1>8

\* The master transmits and listens.
LEMMA TransmitKeeps == ASSUME TimingInv, Transmit PROVE TimingInv'
<1> USE DEF TimingInv
<1>1. /\ pc = "anchor" /\ compare
      /\ cc0' = listen_until' /\ pc' = "listen" /\ begun' = now
      /\ UNCHANGED <<role, params, frac, anchor, last_rx, pending_update, cut>>
  BY DEF Transmit, schedule, update
<1>2. PICK t \in TxTicks :
        /\ now' = At(t)
        /\ silence' = silence + t
        /\ wrapped' = (wrapped \/ now + t >= TimerMod)
        /\ Cleared(t)
        /\ listen_until' = ListenUntil(At(t))
        /\ window' = IF UntilCompare <= t THEN 0 ELSE LISTEN
  BY DEF Transmit
<1>3. t \in Nat
  BY ConnTimingAssumption
<1>4. Later(t) /\ compare' \in BOOLEAN
  <2>1. (UntilCompare <= t) \in BOOLEAN
    BY <1>3, UntilCompareType, Moduli
  <2> QED BY <1>2, <2>1, Zenon DEF Cleared, Later
<1>5. now' \in 0 .. TimerMod - 1 /\ silence' \in Nat /\ wrapped' \in BOOLEAN
      /\ SilenceCounted'
  BY <1>1, <1>3, <1>4, SilenceGrows
<1>6. listen_until' = now' + 63
  BY <1>2, <1>5, Deadline
<1>7. listen_until' \in Nat /\ listen_until' >= now' /\ window' \in Nat
  BY <1>2, <1>5, <1>6, Moduli
<1>8. Types'
  BY <1>1, <1>4, <1>5, <1>7 DEF Types
<1>9. UntilCompare' = 63
  <2>1. now' \in Int /\ 63 <= TimerMod
    BY <1>5, Moduli
  <2>2. Distance(now' + 63, now') = 63
    BY <2>1, DistanceSet
  <2>3. UntilCompare' = Distance(cc0', now')
    BY DEF UntilCompare, Distance
  <2> QED BY <1>1, <1>6, <2>2, <2>3
<1>10. window' > 0 => ~compare' /\ UntilCompare' >= window'
  <2> SUFFICES ASSUME window' > 0 PROVE ~compare' /\ UntilCompare' >= window'
    OBVIOUS
  <2>1. window' = IF UntilCompare <= t THEN 0 ELSE LISTEN
    BY <1>2
  <2>2. ~(UntilCompare <= t) /\ window' = 63
    BY <2>1, Moduli
  <2>3. ~compare'
    BY <1>2, <2>2, Zenon DEF Cleared
  <2> QED BY <1>9, <2>2, <2>3
<1>11. CompareInv'
  BY <1>1, <1>10 DEF CompareInv, WindowAhead, AnchorNext
<1>12. AlignedAfterPacket'
  BY <1>1 DEF CompareInv, AnchorNext, AlignedAfterPacket
<1>13. Ahead' /\ TimedOut'
  BY <1>1, <1>7 DEF Ahead, TimedOut
<1> QED BY <1>5, <1>8, <1>11, <1>12, <1>13

(***************************************************************************)
(* A window that ends after t ticks, with or without a packet.             *)
(***************************************************************************)
LEMMA WindowEnds ==
    ASSUME TimingInv, pc = "listen", NEW t \in Nat,
           now' = At(t), compare' = (compare \/ UntilCompare <= t),
           window' = Left(t) \/ window' = 0, pc' = "idle",
           UNCHANGED <<cc0, role, params, frac, anchor, listen_until, cut>>
    PROVE  /\ Ahead' /\ TimedOut' /\ CompareInv' /\ AlignedAfterPacket'
           /\ now' \in 0 .. TimerMod - 1 /\ compare' \in BOOLEAN /\ window' \in Nat
<1> USE DEF TimingInv
<1>1. now' \in 0 .. TimerMod - 1 /\ window' \in Nat
  BY AtBounds, LeftType
<1>2. compare' \in BOOLEAN
  BY Zenon
<1>3. CompareInv'
  <2> SUFFICES ASSUME role' = "Master", window' > 0
               PROVE  ~compare' /\ UntilCompare' >= window'
    BY DEF CompareInv, WindowAhead, AnchorNext
  <2>1. Left(t) > 0 /\ window' = Left(t)
    OBVIOUS
  <2>2. WindowAhead
    BY DEF CompareInv
  <2> QED BY <2>1, <2>2, WindowStaysAhead
<1>4. Ahead' /\ TimedOut' /\ AlignedAfterPacket'
  BY DEF Ahead, TimedOut, AlignedAfterPacket
<1> QED BY <1>1, <1>2, <1>3, <1>4

\* A packet is received.
LEMMA ReceiveKeeps == ASSUME TimingInv, Receive PROVE TimingInv'
<1> USE DEF TimingInv
<1>1. /\ pc = "listen" /\ pc' = "idle" /\ silence' = 0 /\ wrapped' = FALSE
      /\ UpdateReceived
      /\ UNCHANGED <<cc0, role, params, frac, anchor, listen_until, cut>>
  BY DEF Receive, schedule
<1>2. PICK d \in Delays :
        /\ now' = At(d) /\ compare' = (compare \/ UntilCompare <= d)
        /\ window' = Left(d) /\ last_rx' = At(d)
  BY DEF Receive, LastRx
<1>3. d \in Nat
  BY ConnTimingAssumption
<1>4. /\ Ahead' /\ TimedOut' /\ CompareInv' /\ AlignedAfterPacket'
      /\ now' \in 0 .. TimerMod - 1 /\ compare' \in BOOLEAN /\ window' \in Nat
  BY <1>1, <1>2, <1>3, WindowEnds
<1>5. last_rx' \in Nat /\ last_rx' = now'
  BY <1>2, <1>4, Moduli
<1>6. pending_update' \in Params \cup {None}
  BY <1>1 DEF UpdateReceived, update, Types
<1>7. Types'
  BY <1>1, <1>4, <1>5, <1>6 DEF Types
<1>8. SilenceCounted'
  <2>1. \A n \in 0 .. TimerMod - 1 : n = n + 0
    BY Moduli
  <2> QED BY <1>1, <1>4, <1>5, <2>1 DEF SilenceCounted
<1> QED BY <1>4, <1>7, <1>8

\* A garbled packet ends the window, or nothing was received.
LEMMA NothingReceivedKeeps ==
    ASSUME TimingInv, ReceiveGarbled \/ WindowOver
    PROVE  TimingInv'
<1> USE DEF TimingInv
<1>1. /\ pc = "listen" /\ pc' = "idle"
      /\ UNCHANGED <<cc0, role, params, frac, anchor, listen_until, cut>>
      /\ UNCHANGED <<last_rx, pending_update>>
  BY DEF ReceiveGarbled, WindowOver, schedule, update
<1>2. \E t \in Nat : Elapse(t) /\ (window' = Left(t) \/ window' = 0)
  <2>1. CASE ReceiveGarbled
    BY <2>1, ConnTimingAssumption DEF ReceiveGarbled
  <2>2. CASE WindowOver
    <3>1. listen_until - now \in Nat
      BY <1>1 DEF Ahead, Types
    <3> QED BY <2>2, <3>1 DEF WindowOver
  <2> QED BY <2>1, <2>2
<1>3. PICK t \in Nat : Elapse(t) /\ (window' = Left(t) \/ window' = 0)
  BY <1>2
<1>4. Later(t) /\ now' = At(t) /\ compare' = (compare \/ UntilCompare <= t)
  BY <1>3 DEF Elapse, Later
<1>5. /\ Ahead' /\ TimedOut' /\ CompareInv' /\ AlignedAfterPacket'
      /\ now' \in 0 .. TimerMod - 1 /\ compare' \in BOOLEAN /\ window' \in Nat
  BY <1>1, <1>3, <1>4, WindowEnds
<1>6. silence' \in Nat /\ wrapped' \in BOOLEAN /\ SilenceCounted'
  BY <1>1, <1>4, SilenceGrows
<1>7. Types'
  BY <1>1, <1>5, <1>6 DEF Types
<1> QED BY <1>5, <1>6, <1>7

\* Every step keeps the invariant.
LEMMA TimingStep == ASSUME TimingInv, [Next]_vars PROVE TimingInv'
<1>1. CASE Next
  BY <1>1, ExpireKeeps, EventBeginsKeeps, WaitAnchorKeeps, TransmitKeeps, ReceiveKeeps,
     NothingReceivedKeeps DEF Next, Step
<1>2. CASE UNCHANGED vars
  <2> USE <1>2 DEF TimingInv, vars, timer, schedule, update, history
  <2>1. Types' /\ SilenceCounted' /\ Ahead'
    BY DEF Types, SilenceCounted, Ahead
  <2>2. TimedOut' /\ AlignedAfterPacket'
    BY DEF TimedOut, limit, AlignedAfterPacket
  <2>3. CompareInv'
    BY DEF CompareInv, WindowAhead, AnchorNext, UntilCompare
  <2> QED BY <2>1, <2>2, <2>3
<1> QED BY <1>1, <1>2

\* The invariant holds in every state.
LEMMA TimingAlways == Spec => []TimingInv
<1>1. Init => TimingInv
  BY TimingInit
<1>2. TimingInv /\ [Next]_vars => TimingInv'
  BY TimingStep
<1> QED BY <1>1, <1>2, PTL DEF Spec

(***************************************************************************)
(* A link is given up only after the silence its timeout asks for, but for *)
(* a timer that has wrapped: 313 ticks for each 10 ms are never too few.   *)
(***************************************************************************)
THEOREM GivenUpAfterSilence == Spec => []TimeoutMeansSilence
<1>1. TimingInv => TimeoutMeansSilence
  <2> SUFFICES ASSUME Types, TimedOut, pc = "closed", ~wrapped
               PROVE  2 * silence >= 625 * params.timeout
    BY DEF TimingInv, TimeoutMeansSilence
  <2>1. params.timeout \in Nat /\ silence \in Nat
    BY ConnTimingAssumption DEF Types
  <2>2. silence >= params.timeout * 313
    BY DEF TimedOut, limit
  <2> QED BY <2>1, <2>2
<1> QED BY <1>1, TimingAlways, PTL

(***************************************************************************)
(* For every interval, timeout, duration of callbacks and of transmissions *)
(* and every wrap of the timer, an event of the master that begins before  *)
(* the last window would have been over begins at its anchor.              *)
(***************************************************************************)
THEOREM BeginsAtAnchor == Spec => []AlignedAfterPacket
<1>1. TimingInv => AlignedAfterPacket
  BY DEF TimingInv
<1> QED BY <1>1, TimingAlways, PTL

-----------------------------------------------------------------------------
(* Acknowledgements (LinkLayer): the types                                 *)

\* Control: a request, or nothing.
LEMMA ControlTyped ==
    ASSUME TypeOK
    PROVE  Control \in Requests \cup {NoAnswer}
BY DEF TypeOK, Control

\* What respond sends for a control PDU in the slot is never taken for a
\* fragment.
LEMMA PacketKind ==
    ASSUME NEW left \in 0 .. MaxFragments,
           NEW control \in Requests \cup {NoAnswer}
    PROVE  /\ Packet(left, control) \in Requests \cup {"FRAGMENT", "EMPTY"}
           /\ Packet(left, control) = "FRAGMENT" => control = NoAnswer /\ left > 0
BY LinkLayerAssumption DEF Packet

\* A message that handle_l2cap queues is one of the lengths considered.
LEMMA MessageTyped ==
    ASSUME TypeOK, NEW left \in Message(tx_left)
    PROVE  left \in 0 .. MaxFragments
BY LinkLayerAssumption DEF TypeOK, Message

\* The slave's half of an event keeps its types.
LEMMA EventTyped ==
    ASSUME TypeOK, NEW left \in Message(tx_left), EventOf(left)
    PROVE  /\ sn' \in Bit /\ nesn' \in Bit /\ tx_left' \in 0 .. MaxFragments
           /\ pending_control' \in Requests \cup {NoAnswer}
           /\ handled' \in 0 .. MaxPdus
           /\ FirstPacket(left, Control) \in Kind \cup {"EMPTY", "FRAGMENT"}
<1>1. left \in 0 .. MaxFragments
    BY MessageTyped
<1>2. Packet(left, Control) \in Requests \cup {"FRAGMENT", "EMPTY"}
      /\ (Packet(left, Control) = "FRAGMENT" => left > 0)
    BY <1>1, ControlTyped, PacketKind
<1>3. tx_left' \in 0 .. MaxFragments
    BY <1>1, <1>2, LinkLayerAssumption DEF EventOf, respond
<1>4. sn' \in Bit /\ nesn' \in Bit /\ pending_control' \in Requests \cup {NoAnswer}
    BY DEF TypeOK, EventOf, respond, Acked, Bit
<1>5. handled' \in 0 .. MaxPdus
    BY DEF TypeOK, EventOf, HandledNow
<1>6. FirstPacket(left, Control) \in Kind \cup {"EMPTY", "FRAGMENT"}
    BY <1>2 DEF FirstPacket, Kind
<1> QED BY <1>3, <1>4, <1>5, <1>6

\* Types are kept by every step.
LEMMA TypeStep ==
    ASSUME TypeOK, [LLNext]_llVars
    PROVE  TypeOK'
<1>1. CASE queue_notify
    BY <1>1 DEF TypeOK, queue_notify, peer, Bit
<1>2. CASE EventHeard
  <2>1. PICK left \in Message(tx_left) :
            EventOf(left) /\ PeerHears(FirstPacket(left, Control))
    BY <1>2 DEF EventHeard
  <2>2. p_nesn' \in Bit /\ p_sn' \in Bit
    BY <2>1 DEF PeerHears, TypeOK, Bit
  <2>3. p_pdu' \in Kind \cup {"EMPTY"} /\ p_count' \in 0 .. MaxPdus
    BY <2>1, LinkLayerAssumption DEF PeerHears, NextPdu, TypeOK
  <2>4. heard' \in [kind : Kind \cup {"EMPTY", "FRAGMENT"}, fate : Fate]
    BY <2>1, EventTyped DEF PeerHears, Fate
  <2> QED BY <1>2, <2>1, <2>2, <2>3, <2>4, EventTyped DEF TypeOK, EventHeard, Valid
<1>3. CASE EventLost
  <2>1. PICK left \in Message(tx_left) :
            EventOf(left) /\ PeerMisses(FirstPacket(left, Control))
    BY <1>3 DEF EventLost
  <2>2. heard' \in [kind : Kind \cup {"EMPTY", "FRAGMENT"}, fate : Fate]
    BY <2>1, EventTyped DEF PeerMisses, Fate
  <2> QED BY <1>3, <2>1, <2>2, EventTyped
          DEF TypeOK, EventLost, Valid, PeerMisses, peer
<1>4. CASE EventMore
  <2>1. tx_left' \in 0 .. MaxFragments
    BY <1>4, MessageTyped DEF EventMore
  <2>2. p_nesn' \in Bit /\ p_sn' \in Bit
    BY <1>4 DEF EventMore, PeerHears, PeerMisses, TypeOK, Bit, peer
  <2>3. p_pdu' \in Kind \cup {"EMPTY"} /\ p_count' \in 0 .. MaxPdus
    BY <1>4, LinkLayerAssumption
    DEF EventMore, PeerHears, PeerMisses, NextPdu, TypeOK, peer
  <2>4. heard' \in [kind : Kind \cup {"EMPTY", "FRAGMENT"}, fate : Fate]
    BY <1>4 DEF EventMore, PeerHears, PeerMisses, TypeOK, Fate, Kind
  <2> QED BY <1>4, <2>1, <2>2, <2>3, <2>4, ControlTyped
          DEF TypeOK, EventMore, Valid, Acked, HandledNow
<1>5. CASE EventInvalid
    BY <1>5 DEF TypeOK, EventInvalid, peer
<1>6. CASE UNCHANGED llVars
    BY <1>6 DEF TypeOK, llVars, slave, peer
<1> QED BY <1>1, <1>2, <1>3, <1>4, <1>5, <1>6 DEF LLNext

\* The initial state has the types.
LEMMA TypeInit ==
    ASSUME LLInit
    PROVE  TypeOK
<1>1. divisor \in {1, 2} /\ closed \in BOOLEAN
    BY LinkLayerAssumption, Zenon DEF LLInit
<1>2. heard \in [kind : Kind \cup {"EMPTY", "FRAGMENT"}, fate : Fate]
    BY SMT DEF LLInit, Fate
<1>3. p_pdu \in Kind \cup {"EMPTY"} /\ p_count \in 0 .. MaxPdus
    BY LinkLayerAssumption, SMT DEF LLInit
<1> QED BY <1>1, <1>2, <1>3, LinkLayerAssumption DEF LLInit, TypeOK, Bit

-----------------------------------------------------------------------------
\* An event that the peer hears acknowledges its PDU: it goes on to another.
LEMMA HeardGoesOn ==
    ASSUME TypeOK, NEW kind, Acked, PeerHears(kind)
    PROVE  NextPdu
BY DEF TypeOK, Bit, Acked, PeerHears

\* AcknowledgedIsHandled is inductive, given the types.
LEMMA HandledStep ==
    ASSUME TypeOK, AcknowledgedIsHandled, [LLNext]_llVars
    PROVE  AcknowledgedIsHandled'
<1> USE DEF AcknowledgedIsHandled, HandledNow, peer
<1>1. CASE queue_notify
    BY <1>1 DEF queue_notify
<1>2. CASE EventHeard
  <2>1. PICK left \in Message(tx_left) :
            EventOf(left) /\ PeerHears(FirstPacket(left, Control))
    BY <1>2 DEF EventHeard
  <2>2. NextPdu
    BY <2>1, HeardGoesOn DEF EventOf
  <2>3. handled' = p_count
    BY <2>1 DEF EventOf
  <2>4. p_count \in Nat /\ "EMPTY" \notin Kind
    BY LinkLayerAssumption DEF TypeOK, Kind
  <2> QED BY <2>2, <2>3, <2>4 DEF NextPdu
<1>3. CASE EventLost
    BY <1>3 DEF EventLost, EventOf, PeerMisses
<1>4. CASE EventMore
  <2>1. handled' = p_count
    BY <1>4 DEF EventMore
  <2>2. p_count \in Nat /\ "EMPTY" \notin Kind
    BY LinkLayerAssumption DEF TypeOK, Kind
  <2>3. CASE PeerHears("VERSION_IND")
    <3>1. NextPdu
      BY <1>4, <2>3, HeardGoesOn DEF EventMore
    <3> QED BY <2>1, <2>2, <3>1 DEF NextPdu
  <2>4. CASE UNCHANGED peer
    BY <1>4, <2>1, <2>4 DEF EventMore
  <2> QED BY <1>4, <2>3, <2>4 DEF EventMore, PeerMisses
<1>5. CASE EventInvalid
    BY <1>5 DEF EventInvalid
<1>6. CASE UNCHANGED llVars
    BY <1>6 DEF llVars
<1> QED BY <1>1, <1>2, <1>3, <1>4, <1>5, <1>6 DEF LLNext

(***************************************************************************)
(* Whatever is lost and repeated, the slave has handled every PDU that the *)
(* peer regards as acknowledged (Conn::event: nesn).                       *)
(***************************************************************************)
THEOREM AcknowledgedWasHandled ==
    LLSpec => []AcknowledgedIsHandled
<1>1. LLInit => TypeOK /\ AcknowledgedIsHandled
  <2>1. "EMPTY" \notin Kind
    BY LinkLayerAssumption DEF Kind
  <2> SUFFICES ASSUME LLInit
               PROVE  AcknowledgedIsHandled
    BY TypeInit
  <2>2. /\ handled = 0
        /\ \/ p_pdu = "EMPTY" /\ p_count = 0
           \/ p_pdu \in Kind /\ p_count = 1
    BY Zenon DEF LLInit
  <2> QED BY <2>1, <2>2 DEF AcknowledgedIsHandled
<1>2. TypeOK /\ AcknowledgedIsHandled /\ [LLNext]_llVars
        => (TypeOK /\ AcknowledgedIsHandled)'
    BY TypeStep, HandledStep
<1> QED BY <1>1, <1>2, PTL DEF LLSpec

-----------------------------------------------------------------------------
\* With half of its length no PDU that is not empty is valid ...
LEMMA HalfIsNotWhole ==
    ASSUME divisor = 2, p_pdu # "EMPTY"
    PROVE  ~Valid
<1>1. Lengths \subseteq 1 .. 27
    BY LinkLayerAssumption DEF Lengths
<1>2. \A length \in 1 .. 27 : (length \div 2) % 64 # length % 64
    BY SMT
<1> QED BY <1>1, <1>2 DEF Valid, decodes, receive_poll

\* ... so that nothing is handled, and no answer waits.
NoDataTaken == divisor = 2 => handled = 0 /\ pending_control = NoAnswer

LEMMA NoDataStep ==
    ASSUME TypeOK, NoDataTaken, [LLNext]_llVars
    PROVE  NoDataTaken'
<1> USE DEF NoDataTaken
<1>1. CASE Valid /\ HandledNow /\ pending_control' \in {Control, NoAnswer}
  <2>1. CASE p_pdu = "EMPTY"
    <3>1. Control = pending_control
      BY <2>1, LinkLayerAssumption DEF Control
    <3> QED BY <1>1, <2>1, <3>1 DEF Valid, HandledNow
  <2>2. CASE p_pdu # "EMPTY"
    BY <1>1, <2>2, HalfIsNotWhole DEF Valid
  <2> QED BY <2>1, <2>2
<1>2. CASE queue_notify
    BY <1>2 DEF queue_notify
<1>3. CASE EventHeard
    BY <1>1, <1>3 DEF EventHeard, EventOf, respond
<1>4. CASE EventLost
    BY <1>1, <1>4 DEF EventLost, EventOf, respond
<1>5. CASE EventMore
    BY <1>1, <1>5 DEF EventMore
<1>6. CASE EventInvalid
    BY <1>6 DEF EventInvalid
<1>7. CASE UNCHANGED llVars
    BY <1>7 DEF llVars, slave
<1> QED BY <1>2, <1>3, <1>4, <1>5, <1>6, <1>7 DEF LLNext

(***************************************************************************)
(* As receive_poll halves the length, the slave never handles a PDU that   *)
(* is not empty, whatever the peer sends and whatever is lost.             *)
(***************************************************************************)
THEOREM NoDataGetsThrough ==
    LLSpec => []HalvedLengthStopsData
<1>1. LLInit => NoDataTaken
    BY DEF LLInit, NoDataTaken
<1>2. LLInit => TypeOK
    BY TypeInit
<1>3. TypeOK /\ NoDataTaken /\ [LLNext]_llVars => (TypeOK /\ NoDataTaken)'
    BY TypeStep, NoDataStep
<1>4. TypeOK /\ AcknowledgedIsHandled /\ NoDataTaken => HalvedLengthStopsData
    BY DEF TypeOK, AcknowledgedIsHandled, NoDataTaken, HalvedLengthStopsData
<1> QED BY <1>1, <1>2, <1>3, <1>4, AcknowledgedWasHandled, PTL DEF LLSpec

-----------------------------------------------------------------------------
\* An answer in the slot is the answer to the PDU that the peer repeats.
AnswersPresent == pending_control # NoAnswer => pending_control = p_pdu

\* That is kept, and no answer in the slot is replaced by another.
LEMMA AnswersStep ==
    ASSUME TypeOK, AnswersPresent, [LLNext]_llVars
    PROVE  /\ AnswersPresent'
           /\ pending_control # NoAnswer => pending_control' \in {pending_control, NoAnswer}
<1> USE DEF AnswersPresent
<1>1. CASE queue_notify
    BY <1>1 DEF queue_notify, peer
<1>2. CASE EventHeard
    BY <1>2 DEF EventHeard, EventOf, respond
<1>3. CASE EventLost
    BY <1>3 DEF EventLost, EventOf, respond
<1>4. CASE EventMore
  <2>1. CASE p_pdu = "VERSION_IND"
    <3>1. pending_control = NoAnswer /\ Control = pending_control
      BY <2>1, LinkLayerAssumption DEF Control, TypeOK
    <3> QED BY <1>4, <3>1 DEF EventMore
  <2>2. CASE UNCHANGED peer
    BY <1>4, <2>2 DEF EventMore, Control, peer, TypeOK
  <2> QED BY <1>4, <2>1, <2>2 DEF EventMore, PeerMisses
<1>5. CASE EventInvalid
    BY <1>5 DEF EventInvalid, peer
<1>6. CASE UNCHANGED llVars
    BY <1>6 DEF llVars, slave, peer
<1> QED BY <1>1, <1>2, <1>3, <1>4, <1>5, <1>6 DEF LLNext

(***************************************************************************)
(* The one place for control answers suffices: an answer stays in it until *)
(* it is sent (handle_ll_control: pending_control).                        *)
(***************************************************************************)
THEOREM OnePlaceSuffices ==
    LLSpec => AnswerNotReplaced
<1>1. LLInit => TypeOK /\ AnswersPresent
    BY TypeInit DEF LLInit, AnswersPresent
<1>2. TypeOK /\ AnswersPresent /\ [LLNext]_llVars => (TypeOK /\ AnswersPresent)'
    BY TypeStep, AnswersStep
<1>3. TypeOK /\ AnswersPresent /\ [LLNext]_llVars
        => [pending_control # NoAnswer => pending_control' \in {pending_control, NoAnswer}]_llVars
    BY AnswersStep
<1> QED BY <1>1, <1>2, <1>3, PTL DEF LLSpec, AnswerNotReplaced

-----------------------------------------------------------------------------
\* InStepAfterFragment is inductive, given the types.
LEMMA InStepStep ==
    ASSUME TypeOK, InStepAfterFragment, [LLNext]_llVars
    PROVE  InStepAfterFragment'
<1> USE DEF InStepAfterFragment
<1>1. CASE queue_notify
    BY <1>1 DEF queue_notify, peer
<1>2. CASE EventHeard
  <2>1. PICK left \in Message(tx_left) :
            EventOf(left) /\ PeerHears(FirstPacket(left, Control))
    BY <1>2 DEF EventHeard
  <2> SUFFICES ASSUME heard'.kind = "FRAGMENT"
               PROVE  sn' = p_nesn'
    OBVIOUS
  <2>2. FirstPacket(left, Control) = "FRAGMENT"
    BY <2>1 DEF PeerHears
  <2>3. sn' = 1 - sn
    BY <2>1, <2>2 DEF FirstPacket, EventOf, respond
  <2> QED BY <2>1, <2>3 DEF PeerHears, TypeOK, Bit
<1>3. CASE EventLost
    BY <1>3 DEF EventLost, PeerMisses
<1>4. CASE EventMore
    BY <1>4 DEF EventMore, PeerHears, PeerMisses, peer
<1>5. CASE EventInvalid
    BY <1>5 DEF EventInvalid, peer
<1>6. CASE UNCHANGED llVars
    BY <1>6 DEF llVars, slave, peer
<1> QED BY <1>1, <1>2, <1>3, <1>4, <1>5, <1>6 DEF LLNext

(***************************************************************************)
(* Once the peer has heard a fragment the two ends agree on the next       *)
(* sequence number, whatever they disagreed on before (respond: sn).       *)
(***************************************************************************)
THEOREM FragmentsInStep ==
    LLSpec => []InStepAfterFragment
<1>1. LLInit => TypeOK /\ InStepAfterFragment
    BY TypeInit DEF LLInit, InStepAfterFragment
<1>2. TypeOK /\ InStepAfterFragment /\ [LLNext]_llVars
        => (TypeOK /\ InStepAfterFragment)'
    BY TypeStep, InStepStep
<1> QED BY <1>1, <1>2, PTL DEF LLSpec
=============================================================================
