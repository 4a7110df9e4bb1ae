------------------------------ MODULE HciProofs ------------------------------
(***************************************************************************)
(* What is proved of the stack and of the HCI layer above it, for every    *)
(* supervision timeout and every set of packets.  Of the stack (module     *)
(* Ble, Spec): the radio recovers after each link, a stopped side makes no *)
(* connection, the event ring never overflows when it has six cells or     *)
(* more, and an application that has drained it knows the state of the     *)
(* stack.  Of the HCI layer (HciSpec): what the host enabled is in effect, *)
(* each command is answered once and in order, and the host follows the    *)
(* link.                                                                   *)
(***************************************************************************)
EXTENDS Hci, SequenceTheorems, WellFoundedInduction, TLAPS

\* The radio invariant needs to know that what is not None is a link: a step
\* that updates the connection must not turn it into None.
LinkInv == conn \in Link \cup {None} /\ RadioBackToAdvertising

(***************************************************************************)
(* None is not a link, and a new connection is one.                        *)
(***************************************************************************)
LEMMA LinkIsSome ==
    /\ \A l \in Link : l # None
    /\ \A role \in Roles : NewLink(role) \in Link
<1>1. 0 \in 0 .. SilenceLimit
  BY BleAssumption
<1> QED
  BY <1>1, BleAssumption DEF Link, Roles, NewLink

(***************************************************************************)
(* The ways a step can change the link: not at all, by a CONNECT_REQ in    *)
(* either role, by an update of the connection there is, or by closing it. *)
(***************************************************************************)
Untouched == UNCHANGED linkVars

Accepted ==
    /\ adv_state = "Running" /\ adv_state' = "Idle" /\ scan_state' = scan_state
    /\ conn' = NewLink("Slave") /\ radio' = radio

Initiated ==
    /\ scan_state = "Running" /\ scan_state' = "Idle" /\ adv_state' = adv_state
    /\ conn' = NewLink("Master") /\ radio' = radio

Updated ==
    /\ conn # None /\ UNCHANGED <<adv_state, scan_state>>
    /\ \/ conn' = [conn EXCEPT !.terminate_pending = TRUE]
       \/ \E silence \in {0, conn.silence + 1} :
            /\ ~SupervisionExpired
            /\ conn' = [conn EXCEPT !.silence = silence, !.rx_data = FALSE]

Closed == conn' = None /\ radio' = "adv" /\ UNCHANGED <<adv_state, scan_state>>

(***************************************************************************)
(* Every step is one of these.                                             *)
(***************************************************************************)
LEMMA LinkSteps ==
    ASSUME [Next]_vars
    PROVE  Untouched \/ Accepted \/ Initiated \/ Updated \/ Closed
<1>1. CASE next_event \/ drained \/ UNCHANGED vars
  BY <1>1 DEF next_event, drained, vars, Untouched
<1>2. CASE \/ gap_adv_start \/ gap_adv_stop
           \/ gap_scan_start \/ gap_connect \/ gap_scan_stop
  BY <1>2 DEF gap_adv_start, gap_adv_stop, gap_scan_start,
     gap_connect, gap_scan_stop, StartScan, Untouched
<1>3. CASE adv_tick
  BY <1>3 DEF adv_tick, AdvTickStops, AdvTickAdvertises,
     AdvTickAccepts, scanVars, Untouched, Accepted
<1>4. CASE scan_tick
  BY <1>4 DEF scan_tick, ScanTickStops, ScanTickNothing,
     ScanTickReport, ScanTickAux, ScanTickConnects, advVars,
     Untouched, Initiated
<1>5. CASE gap_terminate
  BY <1>5 DEF gap_terminate, Updated, advVars, scanVars
<1>6. CASE conn_tick
  <2>1. CASE Close
    BY <2>1 DEF Close, Closed, advVars, scanVars
  <2>2. ASSUME NEW outcome, NEW silence \in {0, conn.silence + 1}, NEW data,
               EventRuns, GoesOn(outcome, silence, data)
        PROVE  Updated
    BY <2>2 DEF GoesOn, EventRuns, Updated, advVars, scanVars
  <2> QED
    BY <1>6, <2>1, <2>2 DEF conn_tick, ConnTickNoLink,
       ConnTickTimeout, ConnTickWrapped, ConnTickRemoteEnd,
       ConnTickHostEnd, ConnTickSilent, ConnTickHeard,
       ConnTickMoreDataLost
<1> QED
  BY <1>1, <1>2, <1>3, <1>4, <1>5, <1>6 DEF Next

(***************************************************************************)
(* An update keeps the connection a connection: a silent event is only run *)
(* before the supervision timeout.                                         *)
(***************************************************************************)
LEMMA UpdatedIsALink ==
    ASSUME conn \in Link \cup {None}, Updated
    PROVE  conn' \in Link
<1>1. conn \in Link /\ SilenceLimit \in Nat
  BY BleAssumption DEF Updated
<1>2. CASE conn' = [conn EXCEPT !.terminate_pending = TRUE]
  BY <1>1, <1>2 DEF Link
<1>3. ASSUME NEW silence \in {0, conn.silence + 1}, ~SupervisionExpired,
             conn' = [conn EXCEPT !.silence = silence, !.rx_data = FALSE]
      PROVE  conn' \in Link
  <2>1. conn.silence \in 0 .. SilenceLimit /\ conn.silence # SilenceLimit
    BY <1>1, <1>3, LinkIsSome DEF Link, SupervisionExpired
  <2>2. silence \in 0 .. SilenceLimit
    BY <1>1, <1>3, <2>1
  <2> QED
    BY <1>1, <1>3, <2>2 DEF Link
<1> QED
  BY <1>2, <1>3 DEF Updated

(***************************************************************************)
(* A connection stays a connection until it is closed, and closing it      *)
(* restores the radio.                                                     *)
(***************************************************************************)
LEMMA LinkStep == ASSUME LinkInv, [Next]_vars PROVE LinkInv'
<1>1. CASE Untouched
  BY <1>1 DEF LinkInv, RadioBackToAdvertising, Untouched, linkVars
<1>2. CASE Accepted \/ Initiated
  <2>1. conn' \in Link
    BY <1>2, LinkIsSome DEF Accepted, Initiated, Roles
  <2> QED
    BY <2>1, LinkIsSome DEF LinkInv, RadioBackToAdvertising
<1>3. CASE Updated
  BY <1>3, UpdatedIsALink, LinkIsSome DEF LinkInv, RadioBackToAdvertising
<1>4. CASE Closed
  BY <1>4 DEF LinkInv, RadioBackToAdvertising, Closed
<1> QED
  BY <1>1, <1>2, <1>3, <1>4, LinkSteps

\* So there is always a link or none.
LEMMA LinkOrNone == Spec => []LinkInv
<1>1. Init => LinkInv
  BY DEF Init, LinkInv, RadioBackToAdvertising
<1>2. LinkInv /\ [Next]_vars => LinkInv'
  BY LinkStep
<1> QED
  BY <1>1, <1>2, PTL DEF Spec

(***************************************************************************)
(* Without a link the radio is back in the advertising configuration,      *)
(* however the last link ended.                                            *)
(***************************************************************************)
THEOREM RadioRestored == Spec => []RadioBackToAdvertising
<1>1. LinkInv => RadioBackToAdvertising
  BY DEF LinkInv
<1> QED
  BY <1>1, LinkOrNone, PTL

(***************************************************************************)
(* A connection is only made by a side that is running, never by one that  *)
(* was asked to stop: what gap_adv_stop and gap_scan_stop promise.         *)
(***************************************************************************)
THEOREM StoppedMakesNoLink == Spec => NoLinkAfterStop
<1>1. ASSUME [Next]_vars
      PROVE  [/\ NewSlaveLink => adv_state = "Running"
              /\ NewMasterLink => scan_state = "Running"
              /\ conn' # None /\ conn = None
                    => NewSlaveLink \/ NewMasterLink]_vars
  <2>1. CASE Untouched
    BY <2>1 DEF Untouched, linkVars, NewSlaveLink, NewMasterLink
  <2>2. CASE Accepted
    BY <2>2 DEF Accepted, NewSlaveLink, NewMasterLink
  <2>3. CASE Initiated
    BY <2>3 DEF Initiated, NewSlaveLink, NewMasterLink
  <2>4. CASE Updated
    BY <2>4 DEF Updated, NewSlaveLink, NewMasterLink
  <2>5. CASE Closed
    BY <2>5 DEF Closed, NewSlaveLink, NewMasterLink
  <2> QED
    BY <1>1, <2>1, <2>2, <2>3, <2>4, <2>5, LinkSteps
<1> QED
  BY <1>1, PTL DEF Spec, NoLinkAfterStop

-----------------------------------------------------------------------------
(* What a sequence of events tells about a flag                            *)

\* A flag that the events of `on` set and those of `off` clear goes from
\* `before` to `after` when evts is read: the last such event decides.
Tells(on, off, evts, before, after) ==
    \/ /\ \A i \in 1 .. Len(evts) : evts[i] \notin on \cup off
       /\ after <=> before
    \/ \E i \in 1 .. Len(evts) :
        /\ evts[i] \in on \cup off
        /\ \A j \in 1 .. Len(evts) : j > i => evts[j] \notin on \cup off
        /\ after <=> evts[i] \in on

(***************************************************************************)
(* Reading one sequence after another.                                     *)
(***************************************************************************)
LEMMA TellsConcat ==
    ASSUME NEW on, NEW off, NEW S, NEW s \in Seq(S), NEW t \in Seq(S),
           NEW before, NEW between, NEW after,
           Tells(on, off, s, before, between), Tells(on, off, t, between, after)
    PROVE  Tells(on, off, s \o t, before, after)
<1> DEFINE u == s \o t
<1>1. /\ Len(s) \in Nat /\ Len(t) \in Nat /\ Len(u) = Len(s) + Len(t)
      /\ \A i \in 1 .. Len(s) : u[i] = s[i] /\ i \in 1 .. Len(u)
      /\ \A i \in 1 .. Len(t) : u[Len(s) + i] = t[i] /\ Len(s) + i \in 1 .. Len(u)
      /\ \A i \in 1 .. Len(u) : i \in 1 .. Len(s) \/ i - Len(s) \in 1 .. Len(t)
  OBVIOUS
<1>2. \A i \in 1 .. Len(u) : i \notin 1 .. Len(s) => u[i] = t[i - Len(s)]
  BY <1>1
<1> HIDE DEF u
<1>3. CASE \A i \in 1 .. Len(t) : t[i] \notin on \cup off
  <2>1. after <=> between
    BY <1>3 DEF Tells
  <2>2. CASE \A i \in 1 .. Len(s) : s[i] \notin on \cup off
    BY <1>1, <1>2, <1>3, <2>1, <2>2 DEF Tells
  <2>3. CASE ~ \A i \in 1 .. Len(s) : s[i] \notin on \cup off
    <3>1. PICK i \in 1 .. Len(s) :
            /\ s[i] \in on \cup off
            /\ \A j \in 1 .. Len(s) : j > i => s[j] \notin on \cup off
            /\ between <=> s[i] \in on
      BY <2>3 DEF Tells
    <3>2. \A j \in 1 .. Len(u) : j > i => u[j] \notin on \cup off
      BY <1>1, <1>2, <1>3, <3>1
    <3> QED
      BY <1>1, <2>1, <3>1, <3>2 DEF Tells, u
  <2> QED
    BY <2>2, <2>3
<1>4. CASE ~ \A i \in 1 .. Len(t) : t[i] \notin on \cup off
  <2>1. PICK i \in 1 .. Len(t) :
          /\ t[i] \in on \cup off
          /\ \A j \in 1 .. Len(t) : j > i => t[j] \notin on \cup off
          /\ after <=> t[i] \in on
    BY <1>4 DEF Tells
  <2>2. \A j \in 1 .. Len(u) : j > Len(s) + i => u[j] \notin on \cup off
    <3> SUFFICES ASSUME NEW j \in 1 .. Len(u), j > Len(s) + i PROVE u[j] \notin on \cup off
      OBVIOUS
    <3>1. j \notin 1 .. Len(s) /\ j - Len(s) \in 1 .. Len(t) /\ j - Len(s) > i
      BY <1>1
    <3> QED
      BY <1>2, <2>1, <3>1
  <2> QED
    BY <1>1, <2>1, <2>2 DEF Tells, u
<1> QED
  BY <1>3, <1>4

(***************************************************************************)
(* Reading the first event of a sequence.                                  *)
(***************************************************************************)
LEMMA TellsTail ==
    ASSUME NEW on, NEW off, NEW S, NEW s \in Seq(S), s # << >>,
           NEW before, NEW between, NEW after,
           Tells(on, off, s, before, after),
           Head(s) \in on \cup off => (between <=> Head(s) \in on),
           Head(s) \notin on \cup off => (between <=> before)
    PROVE  Tells(on, off, Tail(s), between, after)
<1>1. /\ Len(s) \in Nat /\ Len(s) > 0 /\ Head(s) = s[1] /\ Len(Tail(s)) = Len(s) - 1
      /\ \A i \in 1 .. Len(s) - 1 : Tail(s)[i] = s[i + 1]
  OBVIOUS
<1>2. \A i \in 1 .. Len(s) - 1 : i + 1 \in 1 .. Len(s)
  BY <1>1
<1>3. CASE \A i \in 1 .. Len(s) : s[i] \notin on \cup off
  <2>1. (after <=> before) /\ (between <=> before)
    BY <1>1, <1>3 DEF Tells
  <2> QED
    BY <1>1, <1>2, <1>3, <2>1 DEF Tells
<1>4. CASE ~ \A i \in 1 .. Len(s) : s[i] \notin on \cup off
  <2>1. PICK i \in 1 .. Len(s) :
          /\ s[i] \in on \cup off
          /\ \A j \in 1 .. Len(s) : j > i => s[j] \notin on \cup off
          /\ after <=> s[i] \in on
    BY <1>4 DEF Tells
  <2>2. CASE i = 1
    <3>1. \A j \in 1 .. Len(s) - 1 : Tail(s)[j] \notin on \cup off
      BY <1>1, <1>2, <2>1, <2>2
    <3>2. after <=> between
      BY <1>1, <2>1, <2>2
    <3> QED
      BY <1>1, <3>1, <3>2 DEF Tells
  <2>3. CASE i # 1
    <3>1. i - 1 \in 1 .. Len(s) - 1 /\ Tail(s)[i - 1] = s[i]
      BY <1>1, <2>3
    <3>2. \A j \in 1 .. Len(s) - 1 : j > i - 1 => Tail(s)[j] \notin on \cup off
      BY <1>1, <1>2, <2>1
    <3> QED
      BY <1>1, <2>1, <3>1, <3>2 DEF Tells
  <2> QED
    BY <2>2, <2>3
<1> QED
  BY <1>3, <1>4

(***************************************************************************)
(* Reading nothing changes nothing.                                        *)
(***************************************************************************)
LEMMA TellsNone ==
    ASSUME NEW on, NEW off, NEW flag
    PROVE  Tells(on, off, << >>, flag, flag)
BY DEF Tells

(***************************************************************************)
(* One event decides, if it tells anything.                                *)
(***************************************************************************)
LEMMA TellsOne ==
    ASSUME NEW on, NEW off, NEW e, NEW before, NEW after,
           after <=> IF e \in on \cup off THEN e \in on ELSE before
    PROVE  Tells(on, off, <<e>>, before, after)
<1>1. Len(<<e>>) = 1 /\ <<e>>[1] = e
  OBVIOUS
<1> QED BY <1>1 DEF Tells

(***************************************************************************)
(* The first of two decides, if the second tells nothing.                  *)
(***************************************************************************)
LEMMA TellsFirst ==
    ASSUME NEW on, NEW off, NEW e, NEW f, f \notin on \cup off, NEW before, NEW after,
           after <=> IF e \in on \cup off THEN e \in on ELSE before
    PROVE  Tells(on, off, <<e, f>>, before, after)
<1>1. Len(<<e, f>>) = 2 /\ <<e, f>>[1] = e /\ <<e, f>>[2] = f
  OBVIOUS
<1> QED BY <1>1 DEF Tells

-----------------------------------------------------------------------------
(* What each step reports                                                  *)

\* The events that tell of a flag (operator Seen), and the others
AdvOn   == {"AdvStarted"}
AdvOff  == {"AdvStopped", "ConnectedAsSlave"}
ScanOn  == {"ScanStarted"}
ScanOff == {"ScanStopped", "ConnectedAsMaster"}
LinkOn  == {"ConnectedAsSlave", "ConnectedAsMaster"}
LinkOff == {"Disconnected"}
Mute    == {"ConnectReqReceived", "ConnData", "LlControl", "L2cap", "ScanReport",
            "PeriodicAdv", "PeriodicSynced"}

\* The events of a step tell how it changes the state of the stack.
Told(evts) ==
    /\ Tells(AdvOn, AdvOff, evts, adv_state # "Idle", adv_state' # "Idle")
    /\ Tells(ScanOn, ScanOff, evts, scan_state # "Idle", scan_state' # "Idle")
    /\ Tells(LinkOn, LinkOff, evts, conn # None, conn' # None)

\* The events that calls may still add before the next tick: a side that is
\* idle may be started, and only a tick makes one idle again.
Startable(state) == IF state = "Idle" THEN 1 ELSE 0
Room == Startable(adv_state) + Startable(scan_state)

\* A call reports only what there was room for; a tick reports at most three
\* events, those included that the sides it makes idle may add.
Within(evts) ==
    \/ UNCHANGED loop /\ Len(evts) + Room' <= Room
    \/ loop = "tick" /\ loop' = "drain" /\ Len(evts) + Room' <= Room + 3

Truthful(evts) ==
    evts \in Seq(Events) /\ Report(evts) /\ Told(evts) /\ Within(evts)

StepReports == \E evts \in Seq(Events) : Truthful(evts)

(***************************************************************************)
(* Mute events leave every flag as it is.                                  *)
(***************************************************************************)
LEMMA MuteTells ==
    ASSUME NEW evts \in Seq(Mute), NEW before
    PROVE  /\ evts \in Seq(Events)
           /\ Tells(AdvOn, AdvOff, evts, before, before)
           /\ Tells(ScanOn, ScanOff, evts, before, before)
           /\ Tells(LinkOn, LinkOff, evts, before, before)
<1>1. \A i \in 1 .. Len(evts) : evts[i] \in Mute
  OBVIOUS
<1>2. Mute \subseteq Events
  BY DEF Mute, Events
<1> QED
  BY <1>1, <1>2, SeqMonotonic DEF Tells, Mute, AdvOn, AdvOff, ScanOn, ScanOff, LinkOn,
     LinkOff

(***************************************************************************)
(* Two sequences of mute events after each other are one.                  *)
(***************************************************************************)
LEMMA MuteConcat ==
    ASSUME NEW s \in Seq(Mute), NEW t \in Seq(Mute)
    PROVE  s \o t \in Seq(Mute) /\ Len(s \o t) = Len(s) + Len(t)
BY ConcatProperties

(***************************************************************************)
(* What the application calls.                                             *)
(***************************************************************************)
LEMMA CallReports ==
    ASSUME conn \in Link \cup {None},
           \/ gap_adv_start \/ gap_adv_stop
           \/ gap_scan_start \/ gap_connect \/ gap_scan_stop
             \/ gap_terminate
    PROVE  StepReports
<1> USE DEF Startable, Room, Within, Told, AdvOn, AdvOff, ScanOn, ScanOff, LinkOn, LinkOff
<1>1. << >> \in Seq(Events) /\ <<"AdvStarted">> \in Seq(Events)
      /\ <<"ScanStarted">> \in Seq(Events)
  BY DEF Events
<1>2. CASE gap_adv_start
  <2>1. /\ adv_state = "Idle" /\ adv_state' = "Running" /\ Report(<<"AdvStarted">>)
        /\ UNCHANGED <<scan_state, conn, loop>>
    BY <1>2 DEF gap_adv_start, Call, scanVars, linkVars
  <2>2. Told(<<"AdvStarted">>)
    BY <2>1, TellsOne
  <2>3. Within(<<"AdvStarted">>)
    BY <2>1
  <2> QED BY <1>1, <2>1, <2>2, <2>3 DEF StepReports, Truthful
<1>3. CASE gap_adv_stop
  <2>1. /\ adv_state = "Running" /\ adv_state' = "StopPending" /\ Report(<< >>)
        /\ UNCHANGED <<scan_state, conn, loop>>
    BY <1>3 DEF gap_adv_stop, Call, scanVars, linkVars
  <2>2. Told(<< >>) /\ Within(<< >>)
    BY <2>1, TellsNone
  <2> QED BY <1>1, <2>1, <2>2 DEF StepReports, Truthful
<1>4. CASE gap_scan_start \/ gap_connect
  <2>1. /\ scan_state = "Idle" /\ scan_state' = "Running" /\ Report(<<"ScanStarted">>)
        /\ UNCHANGED <<adv_state, conn, loop>>
    BY <1>4 DEF gap_scan_start, gap_connect, StartScan, Call,
       advVars, linkVars
  <2>2. Told(<<"ScanStarted">>)
    BY <2>1, TellsOne
  <2>3. Within(<<"ScanStarted">>)
    BY <2>1
  <2> QED BY <1>1, <2>1, <2>2, <2>3 DEF StepReports, Truthful
<1>5. CASE gap_scan_stop
  <2>1. /\ scan_state = "Running" /\ scan_state' = "StopPending" /\ Report(<< >>)
        /\ UNCHANGED <<adv_state, conn, loop>>
    BY <1>5 DEF gap_scan_stop, Call, advVars, linkVars
  <2>2. Told(<< >>) /\ Within(<< >>)
    BY <2>1, TellsNone
  <2> QED BY <1>1, <2>1, <2>2 DEF StepReports, Truthful
<1>6. CASE gap_terminate
  <2>1. /\ conn # None /\ Report(<< >>) /\ UNCHANGED <<adv_state, scan_state, loop>>
        /\ Updated
    BY <1>6 DEF gap_terminate, Call, advVars, scanVars, Updated
  <2>2. conn' # None
    BY <2>1, UpdatedIsALink, LinkIsSome
  <2>3. Told(<< >>) /\ Within(<< >>)
    BY <2>1, <2>2, TellsNone
  <2> QED BY <1>1, <2>1, <2>3 DEF StepReports, Truthful
<1> QED BY <1>2, <1>3, <1>4, <1>5, <1>6

(***************************************************************************)
(* An advertising event.                                                   *)
(***************************************************************************)
LEMMA AdvTickReports == adv_tick => StepReports
<1> USE DEF Startable, Room, Within, Told, AdvOn, AdvOff, ScanOn, ScanOff, LinkOn, LinkOff
<1>1. CASE AdvTickStops
  <2>1. /\ adv_state = "StopPending" /\ adv_state' = "Idle" /\ Report(<<"AdvStopped">>)
        /\ loop = "tick" /\ loop' = "drain" /\ UNCHANGED <<scan_state, conn>>
    BY <1>1 DEF AdvTickStops, Tick, scanVars, linkVars
  <2>2. Told(<<"AdvStopped">>)
    BY <2>1, TellsOne
  <2>3. Within(<<"AdvStopped">>)
    BY <2>1
  <2>4. <<"AdvStopped">> \in Seq(Events)
    BY DEF Events
  <2> QED BY <2>1, <2>2, <2>3, <2>4 DEF StepReports, Truthful
<1>2. CASE AdvTickAdvertises
  <2>1. /\ UNCHANGED <<adv_state, scan_state, conn>> /\ Report(<< >>)
        /\ loop = "tick" /\ loop' = "drain"
    BY <1>2 DEF AdvTickAdvertises, Tick, advVars, scanVars,
       linkVars
  <2>2. Told(<< >>) /\ Within(<< >>)
    BY <2>1, TellsNone
  <2>3. << >> \in Seq(Events)
    OBVIOUS
  <2> QED BY <2>1, <2>2, <2>3 DEF StepReports, Truthful
<1>3. CASE AdvTickAccepts
  <2> DEFINE evts == <<"ConnectedAsSlave", "ConnectReqReceived">>
  <2>1. /\ adv_state = "Running" /\ adv_state' = "Idle" /\ scan_state' = scan_state
        /\ conn' # None /\ Report(evts) /\ loop = "tick" /\ loop' = "drain"
    BY <1>3, LinkIsSome DEF AdvTickAccepts, Tick, scanVars, Roles
  <2>2. Told(evts)
    BY <2>1, TellsFirst
  <2>3. Within(evts)
    BY <2>1
  <2>4. evts \in Seq(Events)
    BY DEF Events
  <2> QED BY <2>1, <2>2, <2>3, <2>4 DEF StepReports, Truthful
<1> QED BY <1>1, <1>2, <1>3 DEF adv_tick

\* The parts that the reports of a tick are put together from
AtMostOneMute(evts) == evts \in Seq(Mute) /\ Len(evts) \in Nat /\ Len(evts) <= 1

(***************************************************************************)
(* Such a part is empty or a mute event.                                   *)
(***************************************************************************)
LEMMA OneMute ==
    /\ AtMostOneMute(<< >>)
    /\ \A e \in Mute : AtMostOneMute(<<e>>)
BY DEF AtMostOneMute

(***************************************************************************)
(* Two or three parts after each other are at most two or three mute       *)
(* events.                                                                 *)
(***************************************************************************)
LEMMA MuteParts ==
    ASSUME NEW a, NEW b, NEW c, AtMostOneMute(a), AtMostOneMute(b), AtMostOneMute(c)
    PROVE  /\ a \o b \in Seq(Mute) /\ Len(a \o b) <= 2
           /\ (a \o b) \o c \in Seq(Mute) /\ Len((a \o b) \o c) <= 3
<1>1. a \o b \in Seq(Mute) /\ Len(a \o b) = Len(a) + Len(b)
  BY MuteConcat DEF AtMostOneMute
<1>2. (a \o b) \o c \in Seq(Mute) /\ Len((a \o b) \o c) = Len(a \o b) + Len(c)
  BY <1>1, MuteConcat DEF AtMostOneMute
<1>3. /\ Len(a) \in Nat /\ Len(b) \in Nat /\ Len(c) \in Nat
      /\ Len(a) <= 1 /\ Len(b) <= 1 /\ Len(c) <= 1
  BY DEF AtMostOneMute
<1>4. Len(a \o b) <= 2
  BY <1>1, <1>3
<1>5. Len((a \o b) \o c) <= 3
  BY <1>1, <1>2, <1>3
<1> QED BY <1>1, <1>2, <1>4, <1>5

(***************************************************************************)
(* What periodic_tick reports is at most one mute event.                   *)
(***************************************************************************)
LEMMA PeriodicMute ==
    ASSUME NEW reports \in PeriodicReports
    PROVE  AtMostOneMute(reports)
<1>1. reports = << >> \/ reports = <<"PeriodicAdv">>
  BY DEF PeriodicReports
<1> QED BY <1>1, OneMute DEF Mute

(***************************************************************************)
(* A tick that reports up to three mute events and changes no state.       *)
(***************************************************************************)
LEMMA MuteReports ==
    ASSUME NEW evts \in Seq(Mute), Len(evts) <= 3, Tick(evts),
           UNCHANGED <<adv_state, scan_state>>, conn' # None <=> conn # None
    PROVE  StepReports
<1>1. evts \in Seq(Events) /\ Told(evts)
  <2>1. evts \in Seq(Events)
    BY MuteTells
  <2>2. Tells(AdvOn, AdvOff, evts, adv_state # "Idle", adv_state' # "Idle")
    BY MuteTells
  <2>3. Tells(ScanOn, ScanOff, evts, scan_state # "Idle", scan_state' # "Idle")
    BY MuteTells
  <2>4. Tells(LinkOn, LinkOff, evts, conn # None, conn' # None)
    BY MuteTells DEF Tells
  <2> QED BY <2>1, <2>2, <2>3, <2>4 DEF Told
<1>2. Len(evts) \in Nat
  OBVIOUS
<1>3. Within(evts)
  BY <1>2 DEF Within, Tick, Room, Startable
<1> QED BY <1>1, <1>3 DEF StepReports, Truthful, Tick

(***************************************************************************)
(* A tick in which the scanner goes idle, after mute events, and reports   *)
(* why.                                                                    *)
(***************************************************************************)
LEMMA ScanEndReports ==
    ASSUME NEW reports \in PeriodicReports, NEW why \in ScanOff,
           Tick(reports \o <<why>>),
           scan_state # "Idle", scan_state' = "Idle", UNCHANGED adv_state,
           conn' # None <=> why = "ConnectedAsMaster" \/ conn # None
    PROVE  StepReports
<1> DEFINE evts == reports \o <<why>>
<1>1. /\ reports \in Seq(Mute) /\ reports \in Seq(Events) /\ <<why>> \in Seq(Events)
      /\ Len(reports) \in Nat /\ Len(reports) <= 1
  <2>1. reports \in Seq(Mute) /\ Len(reports) \in Nat /\ Len(reports) <= 1
    BY PeriodicMute DEF AtMostOneMute
  <2>2. reports \in Seq(Events)
    BY <2>1, MuteTells
  <2>3. <<why>> \in Seq(Events)
    BY DEF ScanOff, Events
  <2> QED BY <2>1, <2>2, <2>3
<1>2. evts \in Seq(Events) /\ Len(evts) \in Nat /\ Len(evts) <= 2
  <2>1. evts \in Seq(Events) /\ Len(evts) = Len(reports) + Len(<<why>>)
    BY <1>1, ConcatProperties
  <2>2. Len(<<why>>) = 1
    OBVIOUS
  <2> QED BY <1>1, <2>1, <2>2
<1>3. Told(evts)
  <2>1. Tells(AdvOn, AdvOff, reports, adv_state # "Idle", adv_state # "Idle")
    BY <1>1, MuteTells
  <2>2. Tells(AdvOn, AdvOff, <<why>>, adv_state # "Idle", adv_state' # "Idle")
    BY TellsOne DEF AdvOn, AdvOff, ScanOff
  <2>3. Tells(ScanOn, ScanOff, reports, scan_state # "Idle", scan_state # "Idle")
    BY <1>1, MuteTells
  <2>4. Tells(ScanOn, ScanOff, <<why>>, scan_state # "Idle", scan_state' # "Idle")
    BY TellsOne DEF ScanOn, ScanOff
  <2>5. Tells(LinkOn, LinkOff, reports, conn # None, conn # None)
    BY <1>1, MuteTells
  <2>6. Tells(LinkOn, LinkOff, <<why>>, conn # None, conn' # None)
    BY TellsOne DEF LinkOn, LinkOff, ScanOff
  <2> QED BY <1>1, <2>1, <2>2, <2>3, <2>4, <2>5, <2>6, TellsConcat DEF Told
<1>4. Within(evts)
  BY <1>2 DEF Within, Tick, Room, Startable
<1> QED BY <1>2, <1>3, <1>4 DEF StepReports, Truthful, Tick

(***************************************************************************)
(* A scanning event.                                                       *)
(***************************************************************************)
LEMMA ScanTickReports == scan_tick => StepReports
<1>1. CASE ScanTickStops
  BY <1>1, ScanEndReports DEF ScanTickStops, ScanOff, advVars, linkVars
<1>2. CASE ScanTickConnects
  <2>1. conn' # None
    BY <1>2, LinkIsSome DEF ScanTickConnects, Roles
  <2> QED
    BY <1>2, <2>1, ScanEndReports DEF ScanTickConnects, ScanOff, advVars
<1>3. CASE ScanTickNothing
  <2>1. PICK reports \in PeriodicReports : Tick(reports)
    BY <1>3 DEF ScanTickNothing
  <2>2. reports \in Seq(Mute) /\ Len(reports) <= 3
    BY PeriodicMute DEF AtMostOneMute
  <2> QED
    BY <1>3, <2>1, <2>2, MuteReports DEF ScanTickNothing, scanVars,
       advVars, linkVars
<1>4. CASE ScanTickReport
  <2>1. PICK reports \in PeriodicReports,
             answers \in {<< >>} \cup (IF scan_active THEN {<<"ScanReport">>} ELSE {}) :
               Tick(reports \o <<"ScanReport">> \o answers)
    BY <1>4 DEF ScanTickReport
  <2>2. AtMostOneMute(reports) /\ AtMostOneMute(<<"ScanReport">>)
    BY PeriodicMute, OneMute DEF Mute
  <2>3. answers = << >> \/ answers = <<"ScanReport">>
    OBVIOUS
  <2>4. AtMostOneMute(answers)
    BY <2>3, OneMute DEF Mute
  <2>5. /\ (reports \o <<"ScanReport">>) \o answers \in Seq(Mute)
        /\ Len((reports \o <<"ScanReport">>) \o answers) <= 3
    BY <2>2, <2>4, MuteParts
  <2> QED
    BY <1>4, <2>1, <2>5, MuteReports DEF ScanTickReport, scanVars,
       advVars, linkVars
<1>5. CASE ScanTickAux
  <2>1. PICK reports \in PeriodicReports, syncs \in BOOLEAN :
          Tick(reports \o (IF syncs THEN <<"PeriodicSynced">> ELSE << >>) \o <<"ScanReport">>)
    BY <1>5 DEF ScanTickAux
  <2> DEFINE sync == IF syncs THEN <<"PeriodicSynced">> ELSE << >>
  <2>2. AtMostOneMute(reports) /\ AtMostOneMute(<<"ScanReport">>)
    BY PeriodicMute, OneMute DEF Mute
  <2>3. sync = << >> \/ sync = <<"PeriodicSynced">>
    OBVIOUS
  <2> HIDE DEF sync
  <2>4. AtMostOneMute(sync)
    BY <2>3, OneMute DEF Mute
  <2>5. /\ (reports \o sync) \o <<"ScanReport">> \in Seq(Mute)
        /\ Len((reports \o sync) \o <<"ScanReport">>) <= 3
    BY <2>2, <2>4, MuteParts
  <2>6. Tick(reports \o sync \o <<"ScanReport">>)
    BY <2>1 DEF sync
  <2> QED
    BY <1>5, <2>5, <2>6, MuteReports DEF ScanTickAux, advVars, linkVars
<1> QED BY <1>1, <1>2, <1>3, <1>4, <1>5 DEF scan_tick

(***************************************************************************)
(* A connection event, or the end of the link.                             *)
(***************************************************************************)
LEMMA ConnTickReports ==
    ASSUME conn \in Link \cup {None}, conn_tick
    PROVE  StepReports
<1>1. CASE Close
  <2>1. /\ conn' = None /\ UNCHANGED <<adv_state, scan_state>> /\ Report(<<"Disconnected">>)
        /\ loop = "tick" /\ loop' = "drain"
    BY <1>1 DEF Close, Tick, advVars, scanVars
  <2>2. Told(<<"Disconnected">>)
    BY <2>1, TellsOne DEF Told, AdvOn, AdvOff, ScanOn, ScanOff, LinkOn, LinkOff
  <2>3. Within(<<"Disconnected">>)
    BY <2>1 DEF Within, Room, Startable
  <2>4. <<"Disconnected">> \in Seq(Events)
    BY DEF Events
  <2> QED BY <2>1, <2>2, <2>3, <2>4 DEF StepReports, Truthful
<1>2. ASSUME NEW outcome \in {<< >>, <<"LlControl">>, <<"L2cap">>},
             NEW silence \in {0, conn.silence + 1}, NEW data \in BOOLEAN,
             EventRuns, GoesOn(outcome, silence, data)
      PROVE  StepReports
  <2> DEFINE more == IF data THEN <<"ConnData">> ELSE << >>
  <2>1. Updated
    BY <1>2 DEF GoesOn, EventRuns, Updated, advVars, scanVars
  <2>2. conn # None /\ conn' # None
    BY <2>1, UpdatedIsALink, LinkIsSome DEF Updated
  <2>3. AtMostOneMute(outcome)
    BY OneMute DEF Mute
  <2>4. more = << >> \/ more = <<"ConnData">>
    OBVIOUS
  <2>5. Tick(outcome \o more)
    BY <1>2 DEF GoesOn
  <2> HIDE DEF more
  <2>6. outcome \o more \in Seq(Mute) /\ Len(outcome \o more) <= 3
    <3>1. AtMostOneMute(more)
      BY <2>4, OneMute DEF Mute
    <3>2. outcome \o more \in Seq(Mute) /\ Len(outcome \o more) <= 2
      BY <2>3, <3>1, MuteParts
    <3>3. Len(outcome \o more) \in Nat
      BY <3>2, LenProperties
    <3> QED BY <3>2, <3>3
  <2>7. UNCHANGED <<adv_state, scan_state>>
    BY <1>2 DEF GoesOn, advVars, scanVars
  <2> QED BY <2>2, <2>5, <2>6, <2>7, MuteReports
<1>3. CASE ConnTickSilent
  BY <1>2, <1>3 DEF ConnTickSilent
<1>4. CASE ConnTickHeard
  BY <1>2, <1>4 DEF ConnTickHeard
<1>5. CASE ConnTickMoreDataLost
  BY <1>2, <1>5 DEF ConnTickMoreDataLost
<1> QED
  BY <1>1, <1>3, <1>4, <1>5 DEF conn_tick, ConnTickNoLink,
     ConnTickTimeout, ConnTickWrapped, ConnTickRemoteEnd,
     ConnTickHostEnd

(***************************************************************************)
(* Every step delivers an event, ends a drain, reports, or does nothing.   *)
(***************************************************************************)
LEMMA EveryStep ==
    ASSUME LinkInv, [Next]_vars
    PROVE  next_event \/ drained \/ StepReports \/ UNCHANGED vars
BY CallReports, AdvTickReports, ScanTickReports, ConnTickReports DEF LinkInv, Next

-----------------------------------------------------------------------------
(* The ring is long enough                                                 *)

\* What is queued and what calls may still add is at most the two starts
\* before a tick, and three events more after it.
QueueInv ==
    /\ events \in Seq(Events)
    /\ loop \in {"tick", "drain"}
    /\ Len(events) + Room <= IF loop = "tick" THEN 2 ELSE 5
    /\ ~dropped

(***************************************************************************)
(* The number of events that may still be reported is a number.            *)
(***************************************************************************)
LEMMA RoomIsBounded == Room \in 0 .. 2
BY DEF Room, Startable

(***************************************************************************)
(* What a step reports keeps the queue within the bound.                   *)
(***************************************************************************)
LEMMA ReportsFit ==
    ASSUME EVENT_QUEUE_LEN >= 6, QueueInv, NEW evts \in Seq(Events), Truthful(evts)
    PROVE  QueueInv'
<1>1. /\ events' = events \o evts
      /\ dropped' = (dropped \/ Len(events) + Len(evts) >= EVENT_QUEUE_LEN)
      /\ Within(evts)
  BY DEF Truthful, Report
<1>2. /\ events' \in Seq(Events) /\ Len(events') = Len(events) + Len(evts)
      /\ Len(events) \in Nat /\ Len(evts) \in Nat
  BY <1>1, ConcatProperties, LenProperties DEF QueueInv
<1>3. Room \in 0 .. 2 /\ Room' \in 0 .. 2
  BY RoomIsBounded DEF Room, Startable
<1>4. loop' \in {"tick", "drain"} /\ Len(events') + Room' <= IF loop' = "tick" THEN 2 ELSE 5
  <2> HIDE DEF Room
  <2>1. CASE UNCHANGED loop /\ Len(evts) + Room' <= Room
    BY <1>2, <1>3, <2>1 DEF QueueInv
  <2>2. CASE loop = "tick" /\ loop' = "drain" /\ Len(evts) + Room' <= Room + 3
    BY <1>2, <1>3, <2>2 DEF QueueInv
  <2> QED BY <1>1, <2>1, <2>2 DEF Within
<1>5. ~dropped'
  <2>1. Len(events) + Len(evts) < EVENT_QUEUE_LEN
    BY <1>2, <1>3, <1>4, BleAssumption
  <2>2. ~(Len(events) + Len(evts) >= EVENT_QUEUE_LEN)
    BY <1>2, <2>1, BleAssumption
  <2> QED BY <1>1, <2>2, Zenon DEF QueueInv
<1> QED BY <1>2, <1>4, <1>5 DEF QueueInv

(***************************************************************************)
(* A ring of six cells, two less than the code has, is enough: push_event  *)
(* never finds it full, whatever the application calls and whenever, as    *)
(* long as it drains the queue after each tick.                            *)
(***************************************************************************)
THEOREM RingNeverOverflows ==
    ASSUME EVENT_QUEUE_LEN >= 6
    PROVE  Spec => []NoEventDropped
<1>1. Init => QueueInv
  BY DEF Init, QueueInv, Room, Startable
<1>2. QueueInv /\ LinkInv /\ [Next]_vars => QueueInv'
  <2> SUFFICES ASSUME QueueInv, LinkInv, [Next]_vars PROVE QueueInv'
    OBVIOUS
  <2>1. CASE next_event
    <3>1. /\ events # << >> /\ events' = Tail(events) /\ loop = "drain" /\ ~dropped'
          /\ UNCHANGED <<adv_state, scan_state, loop>>
      BY <2>1 DEF next_event, advVars, scanVars, QueueInv
    <3>2. /\ events' \in Seq(Events) /\ Len(events') = Len(events) - 1
          /\ Len(events) \in Nat
      BY <3>1 DEF QueueInv
    <3>3. Room' = Room /\ Room \in 0 .. 2
      BY <3>1, RoomIsBounded DEF Room
    <3>4. Len(events') + Room' <= 5 /\ loop' = "drain"
      BY <3>1, <3>2, <3>3 DEF QueueInv
    <3> QED BY <3>1, <3>2, <3>4 DEF QueueInv
  <2>2. CASE drained
    <3>1. /\ events = << >> /\ events' = << >> /\ loop' = "tick" /\ ~dropped'
          /\ UNCHANGED <<adv_state, scan_state>>
      BY <2>2 DEF drained, advVars, scanVars, QueueInv
    <3>2. Room' = Room /\ Room \in 0 .. 2
      BY <3>1, RoomIsBounded DEF Room
    <3> QED BY <3>1, <3>2 DEF QueueInv
  <2>3. CASE StepReports
    BY <2>3, ReportsFit DEF StepReports
  <2>4. CASE UNCHANGED vars
    BY <2>4 DEF vars, advVars, scanVars, QueueInv, Room
  <2> QED BY <2>1, <2>2, <2>3, <2>4, EveryStep
<1>3. QueueInv => NoEventDropped
  BY DEF QueueInv, NoEventDropped
<1> QED
  BY <1>1, <1>2, <1>3, LinkOrNone, PTL DEF Spec

-----------------------------------------------------------------------------
(* The events tell the application the state of the stack                  *)

Views == [adv : BOOLEAN, scan : BOOLEAN, link : BOOLEAN]

\* Reading what is queued takes the application's view to the state of the
\* stack.
ViewInv ==
    /\ events \in Seq(Events)
    /\ view \in Views
    /\ Tells(AdvOn, AdvOff, events, view.adv, adv_state # "Idle")
    /\ Tells(ScanOn, ScanOff, events, view.scan, scan_state # "Idle")
    /\ Tells(LinkOn, LinkOff, events, view.link, conn # None)

(***************************************************************************)
(* Seen follows the events that tell of a flag, and no other.              *)
(***************************************************************************)
LEMMA SeenFollows ==
    ASSUME NEW v \in Views, NEW e \in Events
    PROVE  /\ Seen(v, e) \in Views
           /\ e \in AdvOn \cup AdvOff => (Seen(v, e).adv <=> e \in AdvOn)
           /\ e \notin AdvOn \cup AdvOff => (Seen(v, e).adv <=> v.adv)
           /\ e \in ScanOn \cup ScanOff => (Seen(v, e).scan <=> e \in ScanOn)
           /\ e \notin ScanOn \cup ScanOff => (Seen(v, e).scan <=> v.scan)
           /\ e \in LinkOn \cup LinkOff => (Seen(v, e).link <=> e \in LinkOn)
           /\ e \notin LinkOn \cup LinkOff => (Seen(v, e).link <=> v.link)
BY DEF Views, Seen, Events, AdvOn, AdvOff, ScanOn, ScanOff, LinkOn, LinkOff

(***************************************************************************)
(* What a step reports is what it changes, so the view stays right.        *)
(***************************************************************************)
LEMMA ReportsTell ==
    ASSUME ViewInv, NEW evts \in Seq(Events), Truthful(evts)
    PROVE  ViewInv'
<1>1. events' = events \o evts /\ view' = view /\ Told(evts)
  BY DEF Truthful, Report
<1>2. events' \in Seq(Events)
  BY <1>1, ConcatProperties DEF ViewInv
<1>3. Tells(AdvOn, AdvOff, events \o evts, view.adv, adv_state' # "Idle")
  BY <1>1, TellsConcat DEF ViewInv, Told
<1>4. Tells(ScanOn, ScanOff, events \o evts, view.scan, scan_state' # "Idle")
  BY <1>1, TellsConcat DEF ViewInv, Told
<1>5. Tells(LinkOn, LinkOff, events \o evts, view.link, conn' # None)
  BY <1>1, TellsConcat DEF ViewInv, Told
<1> QED
  BY <1>1, <1>2, <1>3, <1>4, <1>5, ZenonT(60) DEF ViewInv, Tells, AdvOn, AdvOff, ScanOn,
     ScanOff, LinkOn, LinkOff

(***************************************************************************)
(* An application that has drained the queue knows the state of the stack. *)
(***************************************************************************)
THEOREM DrainedKnows == Spec => []SettledView
<1>1. Init => ViewInv
  BY TellsNone DEF Init, ViewInv, Views, Tells
<1>2. ViewInv /\ LinkInv /\ [Next]_vars => ViewInv'
  <2> SUFFICES ASSUME ViewInv, LinkInv, [Next]_vars PROVE ViewInv'
    OBVIOUS
  <2>1. CASE next_event
    <3> DEFINE e == Head(events)
    <3>1. /\ events # << >> /\ events' = Tail(events) /\ view' = Seen(view, e)
          /\ UNCHANGED <<adv_state, scan_state, conn>>
      BY <2>1 DEF next_event, advVars, scanVars, linkVars
    <3>2. events \in Seq(Events) /\ e \in Events /\ events' \in Seq(Events)
      BY <3>1 DEF ViewInv
    <3> HIDE DEF e
    <3>3. Tells(AdvOn, AdvOff, Tail(events), Seen(view, e).adv, adv_state # "Idle")
      BY <3>1, <3>2, SeenFollows, TellsTail DEF ViewInv, e
    <3>4. Tells(ScanOn, ScanOff, Tail(events), Seen(view, e).scan, scan_state # "Idle")
      BY <3>1, <3>2, SeenFollows, TellsTail DEF ViewInv, e
    <3>5. Tells(LinkOn, LinkOff, Tail(events), Seen(view, e).link, conn # None)
      BY <3>1, <3>2, SeenFollows, TellsTail DEF ViewInv, e
    <3>6. view' \in Views
      BY <3>1, <3>2, SeenFollows DEF ViewInv
    <3> QED BY <3>1, <3>2, <3>3, <3>4, <3>5, <3>6 DEF ViewInv, Tells, AdvOn, AdvOff,
       ScanOn, ScanOff, LinkOn, LinkOff
  <2>2. CASE drained \/ UNCHANGED vars
    BY <2>2 DEF drained, vars, advVars, scanVars,
       linkVars, ViewInv, Tells
  <2>3. CASE StepReports
    BY <2>3, ReportsTell DEF StepReports
  <2> QED BY <2>1, <2>2, <2>3, EveryStep
<1>3. ViewInv => SettledView
  BY DEF ViewInv, SettledView, Tells, Views
<1> QED
  BY <1>1, <1>2, <1>3, LinkOrNone, PTL DEF Spec

-----------------------------------------------------------------------------
(* The HCI layer: what is enabled                                          *)

EnableInv ==
    /\ adv_state \in States /\ scan_state \in States
    /\ EnableInEffect

\* Steps that leave the stack, the flags and their history alone.
LEMMA EnableUnchanged ==
    ASSUME EnableInv,
           UNCHANGED <<adv_state, scan_state, connect_target, adv_enabled,
                       scan_enabled, lapsed>>
    PROVE  EnableInv'
BY DEF EnableInv, EnableInEffect

\* What a command makes the stack report: at most that a side was started.
Started ==
    events' \in {events, events \o << >>, events \o <<"AdvStarted">>,
                events \o <<"ScanStarted">>}

\* What LE_SET_ADV_ENABLE does to the stack: start, stop or nothing.
LEMMA AdvTried ==
    ASSUME adv_state \in States, AdvEnable
    PROVE  /\ adv_state' = IF Enable
                           THEN IF adv_state = "Idle" THEN "Running" ELSE adv_state
                           ELSE IF adv_state = "Running" THEN "StopPending" ELSE adv_state
           /\ UNCHANGED <<scan_state, connect_target, conn, loop, scan_enabled,
                          connection_open>>
           /\ adv_enabled' = Enable
           /\ Started
<1>1. CASE Enable /\ adv_state = "Idle"
  BY <1>1 DEF Started, AdvEnable, Tried, gap_adv_start, Call, Report,
     scanVars, linkVars
<1>2. CASE Enable /\ adv_state # "Idle"
  BY <1>2 DEF Started, AdvEnable, Tried, stack
<1>3. CASE ~Enable /\ adv_state = "Running"
  BY <1>3 DEF Started, AdvEnable, Tried, gap_adv_stop, Call, Report,
     scanVars, linkVars
<1>4. CASE ~Enable /\ adv_state # "Running"
  BY <1>4 DEF Started, AdvEnable, Tried, stack
<1> QED BY <1>1, <1>2, <1>3, <1>4

\* What LE_SET_SCAN_ENABLE does to the stack, likewise.
LEMMA ScanTried ==
    ASSUME scan_state \in States, ScanEnable
    PROVE  /\ scan_state' = IF Enable
                            THEN IF scan_state = "Idle" THEN "Running" ELSE scan_state
                            ELSE IF scan_state = "Running" THEN "StopPending" ELSE scan_state
           /\ UNCHANGED <<adv_state, connect_target, conn, loop, adv_enabled,
                          connection_open>>
           /\ scan_enabled' = Enable
           /\ Started
<1>1. CASE Enable /\ scan_state = "Idle"
  BY <1>1 DEF Started, ScanEnable, Tried, gap_scan_start, StartScan,
     Call, Report, advVars, linkVars
<1>2. CASE Enable /\ scan_state # "Idle"
  BY <1>2 DEF Started, ScanEnable, Tried, stack
<1>3. CASE ~Enable /\ scan_state = "Running"
  BY <1>3 DEF Started, ScanEnable, Tried, gap_scan_stop, Call, Report,
     advVars, linkVars
<1>4. CASE ~Enable /\ scan_state # "Running"
  BY <1>4 DEF Started, ScanEnable, Tried, stack
<1> QED BY <1>1, <1>2, <1>3, <1>4

\* What LE_CREATE_CONNECTION does: it starts the scan it needs, or nothing.
LEMMA ConnectTried ==
    ASSUME CreateConnection
    PROVE  /\ \/ UNCHANGED <<scan_state, connect_target>>
              \/ scan_state' = "Running" /\ connect_target'
           /\ UNCHANGED <<adv_state, conn, loop, adv_enabled, scan_enabled,
                          connection_open, lapsed>>
           /\ Started
<1>1. CASE Len(Grown) >= 3 + CREATE_PARAMS /\ scan_state = "Idle"
  BY <1>1 DEF Started, CreateConnection, Tried, gap_connect, StartScan,
     Call, Report, advVars, linkVars, flags
<1>2. CASE ~(Len(Grown) >= 3 + CREATE_PARAMS /\ scan_state = "Idle")
  BY <1>2 DEF Started, CreateConnection, Tried, stack, flags
<1> QED BY <1>1, <1>2

\* The ticks of the stack: what each can do to the two sides.
LEMMA TicksTried ==
    ASSUME EnableInv, adv_tick \/ scan_tick \/ conn_tick
    PROVE  /\ adv_state' \in {adv_state, "Idle"} /\ scan_state' \in {scan_state, "Idle"}
           /\ scan_state' = "Running" => connect_target' = connect_target
<1>1. CASE adv_tick
  BY <1>1 DEF adv_tick, AdvTickStops, AdvTickAdvertises,
     AdvTickAccepts, advVars, scanVars
<1>2. CASE scan_tick
  BY <1>2 DEF scan_tick, ScanTickStops, ScanTickNothing,
     ScanTickReport, ScanTickAux, ScanTickConnects, advVars,
     scanVars
<1>3. CASE conn_tick
  <2>1. UNCHANGED <<advVars, scanVars>>
    BY <1>3 DEF conn_tick, ConnTickNoLink, ConnTickTimeout,
       ConnTickWrapped, ConnTickRemoteEnd, ConnTickHostEnd,
       ConnTickSilent, ConnTickHeard, ConnTickMoreDataLost,
       Close, GoesOn
  <2> QED BY <2>1 DEF advVars, scanVars
<1> QED BY <1>1, <1>2, <1>3

\* The invariant is kept by every step.
LEMMA EnableStep == ASSUME EnableInv, [HciNext]_hciVars PROVE EnableInv'
<1>1. CASE \/ host_writes \/ feed_type \/ feed_byte \/ feed_overrun \/ feed_other
           \/ hci_next_event \/ UNCHANGED hciVars
  BY <1>1, EnableUnchanged DEF host_writes, feed_type, feed_byte, feed_overrun,
     feed_other, LastByte, hci_next_event, hciVars, stack, flags
<1>2. CASE tick
  BY <1>2, EnableUnchanged DEF tick
<1>3. CASE handle_command
  <2>1. CASE AdvEnable
    <3>1. lapsed' = IF Enable /\ adv_state = "StopPending" THEN lapsed \cup {"adv"}
                    ELSE lapsed \ {"adv"}
      BY <2>1 DEF AdvEnable
    <3> QED BY <2>1, <3>1, AdvTried DEF EnableInv, EnableInEffect, States
  <2>2. CASE ScanEnable
    <3>1. lapsed' = IF Enable /\ scan_state = "StopPending" THEN lapsed \cup {"scan"}
                    ELSE lapsed \ {"scan"}
      BY <2>2 DEF ScanEnable
    <3> QED BY <2>2, <3>1, ScanTried DEF EnableInv, EnableInEffect, States
  <2>3. CASE CreateConnection
    BY <2>3, ConnectTried DEF EnableInv, EnableInEffect, States
  <2>4. CASE UNCHANGED <<stack, flags, lapsed>>
    BY <2>4, EnableUnchanged DEF stack, flags
  <2> QED BY <1>3, <2>1, <2>2, <2>3, <2>4 DEF handle_command
<1>4. CASE stack_ticks
  <2>1. /\ adv_state' \in {adv_state, "Idle"} /\ scan_state' \in {scan_state, "Idle"}
        /\ scan_state' = "Running" => connect_target' = connect_target
    BY <1>4, TicksTried DEF stack_ticks
  <2>2. UNCHANGED <<adv_enabled, scan_enabled>> /\ lapsed' = lapsed \cup Ended
    BY <1>4 DEF stack_ticks, flags
  <2>3. /\ adv_state = "Running" /\ adv_state' = "Idle" => "adv" \in Ended
        /\ scan_state = "Running" /\ scan_state' = "Idle" => "scan" \in Ended
    BY DEF Ended
  <2> QED BY <2>1, <2>2, <2>3 DEF EnableInv, EnableInEffect, States
<1> QED BY <1>1, <1>2, <1>3, <1>4 DEF HciNext

(***************************************************************************)
(* What the host was told it enabled is in effect, but for what a link or  *)
(* a pending stop has ended, and nothing else is; however the bytes of its *)
(* commands fall between the ticks of the stack.                           *)
(***************************************************************************)
THEOREM AsTheHostWasTold == HciSpec => []EnableInEffect
<1>1. HciInit => EnableInv
  BY DEF HciInit, Init, EnableInv, EnableInEffect, States
<1>2. EnableInv /\ [HciNext]_hciVars => EnableInv'
  BY EnableStep
<1>3. EnableInv => EnableInEffect
  BY DEF EnableInv
<1> QED BY <1>1, <1>2, <1>3, PTL DEF HciSpec

-----------------------------------------------------------------------------
(* Induction, and the elements of a set in a sequence                      *)

(***************************************************************************)
(* Induction over the natural numbers, for a set instead of a predicate.   *)
(***************************************************************************)
LEMMA Induction ==
    ASSUME NEW P, 0 \in P, \A n \in Nat : n \in P => n + 1 \in P
    PROVE  Nat \subseteq P
<1> DEFINE T == Nat \ P
<1> SUFFICES ASSUME T # {} PROVE FALSE
  OBVIOUS
<1>1. PICK x \in T : \A y \in T : ~ (<<y, x>> \in OpToRel(<, Nat))
  <2>1. T \subseteq Nat
    OBVIOUS
  <2> HIDE DEF T
  <2> QED BY <2>1, NatLessThanWellFounded, WFMin
<1>2. \A y \in T : ~(y < x)
  BY <1>1, Zenon DEF OpToRel
<1>3. x \in Nat /\ x # 0
  OBVIOUS
<1>4. x - 1 \in Nat /\ x - 1 < x /\ (x - 1) + 1 = x
  BY <1>3
<1> QED BY <1>2, <1>3, <1>4

(***************************************************************************)
(* Induction over sequences.                                               *)
(***************************************************************************)
LEMMA SeqInduction ==
    ASSUME NEW X, NEW P, << >> \in P,
           \A s \in Seq(X), x \in X : s \in P => Append(s, x) \in P
    PROVE  Seq(X) \subseteq P
<1> DEFINE Q == {n \in Nat : \A s \in Seq(X) : Len(s) = n => s \in P}
<1>1. 0 \in Q
  <2>1. \A s \in Seq(X) : Len(s) = 0 => s = << >>
    BY EmptySeq
  <2> QED BY <2>1
<1>2. ASSUME NEW n \in Nat, n \in Q PROVE n + 1 \in Q
  <2> SUFFICES ASSUME NEW s \in Seq(X), Len(s) = n + 1 PROVE s \in P
    OBVIOUS
  <2>1. s # << >>
    OBVIOUS
  <2>2. PICK t \in Seq(X), x \in X : s = Append(t, x)
    BY <2>1, SequenceEmptyOrAppend
  <2>3. Len(t) \in Nat /\ Len(s) = Len(t) + 1
    BY <2>2, AppendProperties
  <2>4. t \in P
    BY <1>2, <2>3
  <2> QED BY <2>2, <2>4
<1> HIDE DEF Q
<1>3. Nat \subseteq Q
  BY <1>1, <1>2, Induction
<1> QED BY <1>3, LenProperties DEF Q

\* f is the function that Select defines, up to the n-th element.
Keeps(s, S, n, f) ==
    f = [i \in 0 .. n |->
            IF i = 0 THEN << >>
            ELSE IF s[i] \in S THEN Append(f[i - 1], s[i]) ELSE f[i - 1]]

(***************************************************************************)
(* There is such a function.                                               *)
(***************************************************************************)
LEMMA KeepsExists ==
    ASSUME NEW s, NEW S
    PROVE  \A n \in Nat : \E f : Keeps(s, S, n, f)
<1> DEFINE P == {n \in Nat : \E f : Keeps(s, S, n, f)}
<1>1. 0 \in P
  <2> DEFINE g == [i \in 0 .. 0 |-> << >>]
  <2>1. Keeps(s, S, 0, g)
    BY DEF Keeps
  <2> QED BY <2>1
<1>2. ASSUME NEW n \in Nat, n \in P PROVE n + 1 \in P
  <2>1. PICK f : Keeps(s, S, n, f)
    BY <1>2
  <2> DEFINE g == [i \in 0 .. n + 1 |->
                     IF i <= n THEN f[i]
                     ELSE IF s[i] \in S THEN Append(f[i - 1], s[i]) ELSE f[i - 1]]
  <2>2. \A i \in 0 .. n : f[i] = IF i = 0 THEN << >>
            ELSE IF s[i] \in S THEN Append(f[i - 1], s[i]) ELSE f[i - 1]
    BY <2>1 DEF Keeps
  <2>3. \A i \in 0 .. n + 1 : i # 0 => i - 1 \in 0 .. n /\ g[i - 1] = f[i - 1]
    OBVIOUS
  <2>4. \A i \in 0 .. n + 1 : g[i] = IF i = 0 THEN << >>
            ELSE IF s[i] \in S THEN Append(g[i - 1], s[i]) ELSE g[i - 1]
    BY <2>2, <2>3
  <2>5. g = [i \in 0 .. n + 1 |-> g[i]]
    OBVIOUS
  <2> HIDE DEF g
  <2>6. Keeps(s, S, n + 1, g)
    BY <2>4, <2>5 DEF Keeps
  <2> QED BY <2>6
<1> HIDE DEF P
<1>3. Nat \subseteq P
  BY <1>1, <1>2, Induction
<1> QED BY <1>3 DEF P

(***************************************************************************)
(* Such functions for two sequences agree as far as the sequences do.      *)
(***************************************************************************)
LEMMA KeepsAgree ==
    ASSUME NEW s, NEW t, NEW S, NEW n \in Nat, NEW m \in Nat, n <= m, NEW f, NEW g,
           Keeps(s, S, n, f), Keeps(t, S, m, g), \A i \in 1 .. n : s[i] = t[i]
    PROVE  f[n] = g[n]
<1> DEFINE P == {k \in Nat : k <= n => f[k] = g[k]}
<1>1. /\ \A i \in 0 .. n : f[i] = IF i = 0 THEN << >>
            ELSE IF s[i] \in S THEN Append(f[i - 1], s[i]) ELSE f[i - 1]
      /\ \A i \in 0 .. m : g[i] = IF i = 0 THEN << >>
            ELSE IF t[i] \in S THEN Append(g[i - 1], t[i]) ELSE g[i - 1]
  BY DEF Keeps
<1>2. 0 \in P
  BY <1>1
<1>3. ASSUME NEW k \in Nat, k \in P PROVE k + 1 \in P
  <2> SUFFICES ASSUME k + 1 <= n PROVE f[k + 1] = g[k + 1]
    OBVIOUS
  <2>1. /\ k + 1 \in 0 .. n /\ k + 1 \in 0 .. m /\ k + 1 # 0 /\ k + 1 \in 1 .. n
        /\ (k + 1) - 1 = k
    OBVIOUS
  <2>2. f[k] = g[k] /\ s[k + 1] = t[k + 1]
    BY <1>3, <2>1
  <2> QED BY <1>1, <2>1, <2>2
<1> HIDE DEF P
<1>4. n \in P
  BY <1>2, <1>3, Induction
<1> QED BY <1>4 DEF P

\* Select is the last value of such a function.
LEMMA SelectUnfold ==
    ASSUME NEW s, NEW S, Len(s) \in Nat
    PROVE  \E f : Keeps(s, S, Len(s), f) /\ Select(s, S) = f[Len(s)]
<1>1. \E f : Keeps(s, S, Len(s), f)
  BY KeepsExists
<1> DEFINE g == CHOOSE f : Keeps(s, S, Len(s), f)
<1>2. Keeps(s, S, Len(s), g)
  BY <1>1
<1>3. Select(s, S) = g[Len(s)]
  BY Zenon DEF Select, Keeps
<1> QED BY <1>2, <1>3

(***************************************************************************)
(* Select, one element at a time.                                          *)
(***************************************************************************)
LEMMA SelectEmpty ==
    ASSUME NEW S
    PROVE  Select(<< >>, S) = << >>
<1>1. Len(<< >>) = 0
  OBVIOUS
<1>2. PICK f : Keeps(<< >>, S, 0, f) /\ Select(<< >>, S) = f[0]
  BY <1>1, SelectUnfold
<1> QED BY <1>2 DEF Keeps

\* An element appended is selected if it is in the set.
LEMMA SelectAppend ==
    ASSUME NEW X, NEW s \in Seq(X), NEW x \in X, NEW S
    PROVE  Select(Append(s, x), S) =
                IF x \in S THEN Append(Select(s, S), x) ELSE Select(s, S)
<1> DEFINE n == Len(s)
           t == Append(s, x)
<1>1. n \in Nat /\ Len(t) = n + 1 /\ t[n + 1] = x /\ \A i \in 1 .. n : s[i] = t[i]
  BY AppendProperties, LenProperties
<1>2. PICK f : Keeps(s, S, n, f) /\ Select(s, S) = f[n]
  BY <1>1, SelectUnfold
<1> HIDE DEF t
<1>3. PICK g : Keeps(t, S, n + 1, g) /\ Select(t, S) = g[n + 1]
  <2>1. Len(t) \in Nat
    BY <1>1
  <2>2. \E g : Keeps(t, S, Len(t), g) /\ Select(t, S) = g[Len(t)]
    BY <2>1, SelectUnfold
  <2> QED BY <1>1, <2>2
<1> HIDE DEF n
<1>4. f[n] = g[n]
  <2>1. n <= n + 1 /\ n + 1 \in Nat
    BY <1>1
  <2> QED BY <1>1, <1>2, <1>3, <2>1, KeepsAgree
<1>5. g[n + 1] = IF t[n + 1] \in S THEN Append(g[n], t[n + 1]) ELSE g[n]
  <2>1. n + 1 \in 0 .. n + 1 /\ n + 1 # 0 /\ (n + 1) - 1 = n
    BY <1>1
  <2> QED BY <1>3, <2>1 DEF Keeps
<1> QED BY <1>1, <1>2, <1>3, <1>4, <1>5 DEF t

(***************************************************************************)
(* What is selected are elements of the sequence and of the set.           *)
(***************************************************************************)
LEMMA SelectType ==
    ASSUME NEW X, NEW S, NEW s \in Seq(X)
    PROVE  Select(s, S) \in Seq(X \cap S)
<1> DEFINE P == {t \in Seq(X) : Select(t, S) \in Seq(X \cap S)}
<1>1. << >> \in P
  BY SelectEmpty, EmptySeq
<1>2. ASSUME NEW t \in Seq(X), NEW x \in X, t \in P PROVE Append(t, x) \in P
  <2>1. Append(t, x) \in Seq(X)
    BY AppendProperties
  <2>2. Select(Append(t, x), S) = IF x \in S THEN Append(Select(t, S), x) ELSE Select(t, S)
    BY SelectAppend
  <2>3. Select(t, S) \in Seq(X \cap S)
    BY <1>2
  <2>4. x \in S => Append(Select(t, S), x) \in Seq(X \cap S)
    BY <2>3, AppendProperties
  <2> QED BY <2>1, <2>2, <2>3, <2>4
<1> HIDE DEF P
<1>3. s \in P
  BY <1>1, <1>2, SeqInduction
<1> QED BY <1>3 DEF P

\* Nothing is selected from a sequence over another set.
LEMMA SelectNothing ==
    ASSUME NEW X, NEW S, X \cap S = {}, NEW s \in Seq(X)
    PROVE  Select(s, S) = << >>
<1>1. Select(s, S) \in Seq({})
  BY SelectType
<1> DEFINE t == Select(s, S)
<1>2. t \in Seq({})
  BY <1>1
<1> HIDE DEF t
<1>3. t = << >>
  BY <1>2
<1> QED BY <1>3 DEF t

\* Select of one element.
LEMMA SelectOne ==
    ASSUME NEW X, NEW x \in X, NEW S
    PROVE  Select(<<x>>, S) = IF x \in S THEN <<x>> ELSE << >>
<1> DEFINE none == << >>
<1>1. none \in Seq(X) /\ Select(none, S) = none
  BY SelectEmpty
<1>2. Append(none, x) = <<x>>
  OBVIOUS
<1> HIDE DEF none
<1>3. Select(Append(none, x), S) =
            IF x \in S THEN Append(Select(none, S), x) ELSE Select(none, S)
  BY <1>1, SelectAppend
<1>4. Select(<<x>>, S) = IF x \in S THEN <<x>> ELSE none
  BY <1>1, <1>2, <1>3, Zenon
<1> QED BY <1>4 DEF none

\* Appending to the second of two sequences appends to both.
LEMMA ConcatAppend ==
    ASSUME NEW X, NEW s \in Seq(X), NEW t \in Seq(X), NEW x \in X
    PROVE  s \o Append(t, x) = Append(s \o t, x)
OBVIOUS

(***************************************************************************)
(* Selecting from one sequence after another.                              *)
(***************************************************************************)
LEMMA SelectConcat ==
    ASSUME NEW X, NEW S, NEW s \in Seq(X), NEW t \in Seq(X)
    PROVE  Select(s \o t, S) = Select(s, S) \o Select(t, S)
<1> DEFINE P == {u \in Seq(X) : Select(s \o u, S) = Select(s, S) \o Select(u, S)}
<1>0. Select(s, S) \in Seq(X \cap S)
  BY SelectType
<1>1. << >> \in P
  <2>1. s \o << >> = s /\ Select(s, S) \o << >> = Select(s, S)
    BY <1>0, ConcatEmptySeq
  <2> QED BY <2>1, SelectEmpty, EmptySeq
<1>2. ASSUME NEW u \in Seq(X), NEW x \in X, u \in P PROVE Append(u, x) \in P
  <2>1. Append(u, x) \in Seq(X) /\ s \o u \in Seq(X)
    BY AppendProperties, ConcatProperties
  <2>2. s \o Append(u, x) = Append(s \o u, x)
    BY ConcatAppend
  <2>3. /\ Select(Append(u, x), S) = IF x \in S THEN Append(Select(u, S), x) ELSE Select(u, S)
        /\ Select(Append(s \o u, x), S) =
                IF x \in S THEN Append(Select(s \o u, S), x) ELSE Select(s \o u, S)
    BY <2>1, SelectAppend
  <2>4. Select(s \o u, S) = Select(s, S) \o Select(u, S) /\ Select(u, S) \in Seq(X \cap S)
    BY <1>2, SelectType
  <2>5. x \in S => Select(s, S) \o Append(Select(u, S), x) =
                        Append(Select(s, S) \o Select(u, S), x)
    <3>1. x \in S => x \in X \cap S
      OBVIOUS
    <3> QED BY <1>0, <2>4, <3>1, ConcatAppend, SMTT(30)
  <2> QED BY <2>1, <2>2, <2>3, <2>4, <2>5
<1> HIDE DEF P
<1>3. t \in P
  BY <1>1, <1>2, SeqInduction
<1> QED BY <1>3 DEF P

(***************************************************************************)
(* One more event read: it decides, or what was told before remains.       *)
(***************************************************************************)
LEMMA TellsAppend ==
    ASSUME NEW on, NEW off, NEW X, NEW s \in Seq(X), NEW x \in X,
           NEW before, NEW after
    PROVE  Tells(on, off, Append(s, x), before, after) <=>
                IF x \in on \cup off THEN after <=> x \in on
                ELSE Tells(on, off, s, before, after)
<1> DEFINE n == Len(s)
           t == Append(s, x)
<1>1. n \in Nat /\ Len(t) = n + 1 /\ t[n + 1] = x /\ \A i \in 1 .. n : t[i] = s[i]
  BY AppendProperties, LenProperties
<1>2. \A i \in 1 .. n + 1 : i = n + 1 \/ i \in 1 .. n
  BY <1>1
<1>3. n + 1 \in 1 .. n + 1 /\ \A i \in 1 .. n : i \in 1 .. n + 1 /\ n + 1 > i /\ ~(i > n + 1)
  BY <1>1
<1> HIDE DEF n, t
<1>4. CASE x \in on \cup off
  <2>1. Tells(on, off, t, before, after) => (after <=> x \in on)
    <3> SUFFICES ASSUME Tells(on, off, t, before, after) PROVE after <=> x \in on
      OBVIOUS
    <3>1. PICK i \in 1 .. n + 1 :
            /\ \A j \in 1 .. n + 1 : j > i => t[j] \notin on \cup off
            /\ after <=> t[i] \in on
      BY <1>1, <1>3, <1>4 DEF Tells
    <3>2. i = n + 1
      BY <1>1, <1>2, <1>3, <1>4, <3>1
    <3> QED BY <1>1, <3>1, <3>2
  <2>2. (after <=> x \in on) => Tells(on, off, t, before, after)
    <3>1. \A j \in 1 .. n + 1 : ~(j > n + 1)
      BY <1>1
    <3> QED BY <1>1, <1>3, <1>4, <3>1 DEF Tells
  <2> QED BY <1>4, <2>1, <2>2 DEF t
<1>5. CASE x \notin on \cup off
  <2>1. ASSUME Tells(on, off, s, before, after) PROVE Tells(on, off, t, before, after)
    <3>1. CASE \A i \in 1 .. n : s[i] \notin on \cup off
      BY <1>1, <1>2, <1>5, <2>1, <3>1 DEF Tells, n
    <3>2. CASE ~ \A i \in 1 .. n : s[i] \notin on \cup off
      <4>1. PICK i \in 1 .. n :
              /\ s[i] \in on \cup off
              /\ \A j \in 1 .. n : j > i => s[j] \notin on \cup off
              /\ after <=> s[i] \in on
        BY <2>1, <3>2 DEF Tells, n
      <4>2. \A j \in 1 .. n + 1 : j > i => t[j] \notin on \cup off
        BY <1>1, <1>2, <1>5, <4>1
      <4> QED BY <1>1, <1>3, <4>1, <4>2 DEF Tells
    <3> QED BY <3>1, <3>2
  <2>2. ASSUME Tells(on, off, t, before, after) PROVE Tells(on, off, s, before, after)
    <3>1. CASE \A i \in 1 .. n + 1 : t[i] \notin on \cup off
      BY <1>1, <1>3, <2>2, <3>1 DEF Tells, n
    <3>2. CASE ~ \A i \in 1 .. n + 1 : t[i] \notin on \cup off
      <4>1. PICK i \in 1 .. n + 1 :
              /\ t[i] \in on \cup off
              /\ \A j \in 1 .. n + 1 : j > i => t[j] \notin on \cup off
              /\ after <=> t[i] \in on
        BY <1>1, <2>2, <3>2 DEF Tells
      <4>2. i \in 1 .. n
        BY <1>1, <1>2, <1>5, <4>1
      <4> QED BY <1>1, <1>3, <4>1, <4>2 DEF Tells, n
    <3> QED BY <3>1, <3>2
  <2> QED BY <1>5, <2>1, <2>2 DEF t
<1> QED BY <1>4, <1>5

(***************************************************************************)
(* Leaving out events that tell nothing changes nothing of what is told.   *)
(***************************************************************************)
LEMMA TellsSelect ==
    ASSUME NEW on, NEW off, NEW X, NEW S, on \cup off \subseteq S, NEW s \in Seq(X),
           NEW before, NEW after, Tells(on, off, s, before, after)
    PROVE  Tells(on, off, Select(s, S), before, after)
<1> DEFINE P == {t \in Seq(X) : Tells(on, off, t, before, after)
                                    => Tells(on, off, Select(t, S), before, after)}
<1>1. << >> \in P
  BY SelectEmpty, EmptySeq
<1>2. ASSUME NEW t \in Seq(X), NEW x \in X, t \in P PROVE Append(t, x) \in P
  <2>1. Append(t, x) \in Seq(X) /\ Select(t, S) \in Seq(X \cap S)
    BY AppendProperties, SelectType
  <2>2. SUFFICES ASSUME Tells(on, off, Append(t, x), before, after)
                 PROVE  Tells(on, off, Select(Append(t, x), S), before, after)
    BY <2>1
  <2>3. Select(Append(t, x), S) = IF x \in S THEN Append(Select(t, S), x) ELSE Select(t, S)
    BY SelectAppend
  <2>4. IF x \in on \cup off THEN after <=> x \in on ELSE Tells(on, off, t, before, after)
    BY <2>2, TellsAppend
  <2>5. x \in S =>
          (Tells(on, off, Append(Select(t, S), x), before, after) <=>
                IF x \in on \cup off THEN after <=> x \in on
                ELSE Tells(on, off, Select(t, S), before, after))
    <3> SUFFICES ASSUME x \in X \cap S
                 PROVE  Tells(on, off, Append(Select(t, S), x), before, after) <=>
                            IF x \in on \cup off THEN after <=> x \in on
                            ELSE Tells(on, off, Select(t, S), before, after)
      OBVIOUS
    <3> QED BY <2>1, TellsAppend
  <2> QED BY <1>2, <2>3, <2>4, <2>5
<1> HIDE DEF P
<1>3. s \in P
  BY <1>1, <1>2, SeqInduction
<1> QED BY <1>3 DEF P

-----------------------------------------------------------------------------
(* The framer                                                              *)

Byte == 0 .. 255
Last == written[Len(written)]

FramerTypes ==
    /\ line \in Seq(Byte) /\ buf \in Seq(Byte) /\ expected \in Nat
    /\ packet_type \in PacketTypes \cup {None}
    /\ written \in Seq(Packets)

\* What is on the line is the end of what was written last.
LineIsEnd ==
    line # << >> =>
        /\ written # << >> /\ Len(line) <= Len(Last)
        /\ \A i \in 1 .. Len(line) : line[i] = Last[Len(Last) - Len(line) + i]

\* Inside a packet, its type, the buffer and the line make up the packet.
InPacket ==
    packet_type # None =>
        /\ line # << >> /\ Whole(Last) /\ Last[1] = packet_type
        /\ Len(Last) = 1 + Len(buf) + Len(line)
        /\ \A i \in 1 .. Len(buf) : buf[i] = Last[i + 1]
        /\ Len(buf) >= HeaderLen(packet_type) => expected = Len(Last) - 1

\* Outside, nothing of it has been fed, or all of it is idle.
OutsidePacket ==
    packet_type = None /\ line # << >> =>
        \/ Whole(Last) /\ Len(line) = Len(Last)
        \/ Idle(Last)

FramerInv == FramerTypes /\ LineIsEnd /\ InPacket /\ OutsidePacket

\* What was written last is a packet of the host.
LEMMA LastIsPacket ==
    ASSUME FramerTypes, written # << >>
    PROVE  /\ Last \in Packets /\ Last \in Seq(Byte) /\ Len(Last) \in Nat /\ Len(Last) >= 1
           /\ Whole(Last) \/ Idle(Last)
           /\ \A i \in 1 .. Len(Last) : Last[i] \in Byte
<1>1. Len(written) \in Nat /\ Len(written) >= 1
  BY DEF FramerTypes
<1>2. Last \in Packets
  BY <1>1 DEF FramerTypes, Last
<1>3. Last \in Seq(Byte) /\ Last # << >> /\ (Whole(Last) \/ Idle(Last))
  BY <1>2, HciAssumption DEF Byte
<1> HIDE DEF Last
<1>4. Len(Last) \in Nat /\ Len(Last) >= 1 /\ \A i \in 1 .. Len(Last) : Last[i] \in Byte
  BY <1>3
<1> QED BY <1>2, <1>3, <1>4

\* The next byte goes from the line to the buffer.
LEMMA NextByte ==
    ASSUME FramerTypes, line # << >>
    PROVE  /\ Grown \in Seq(Byte) /\ Len(Grown) = Len(buf) + 1 /\ Len(buf) \in Nat
           /\ \A i \in 1 .. Len(buf) : Grown[i] = buf[i]
           /\ Grown[Len(buf) + 1] = line[1]
           /\ Len(line) \in Nat /\ Len(line) >= 1 /\ line[1] \in Byte /\ Head(line) = line[1]
           /\ Tail(line) \in Seq(Byte) /\ Len(Tail(line)) = Len(line) - 1
           /\ \A i \in 1 .. Len(line) - 1 : Tail(line)[i] = line[i + 1]
           /\ Tail(line) = << >> <=> Len(line) = 1
<1>1. /\ Len(line) \in Nat /\ Len(line) >= 1 /\ line[1] \in Byte /\ Head(line) = line[1]
      /\ Tail(line) \in Seq(Byte) /\ Len(Tail(line)) = Len(line) - 1
      /\ \A i \in 1 .. Len(line) - 1 : Tail(line)[i] = line[i + 1]
  BY DEF FramerTypes
<1>2. Tail(line) = << >> <=> Len(line) = 1
  BY <1>1, EmptySeq
<1>3. /\ Grown \in Seq(Byte) /\ Len(Grown) = Len(buf) + 1 /\ Len(buf) \in Nat
      /\ \A i \in 1 .. Len(buf) : Grown[i] = buf[i]
      /\ Grown[Len(buf) + 1] = line[1]
  BY <1>1, AppendProperties, LenProperties DEF FramerTypes, Grown
<1> QED BY <1>1, <1>2, <1>3

\* The line stays the end of the packet when a byte is taken from it.
LEMMA LineShrinks ==
    ASSUME FramerInv, line # << >>, line' = Tail(line), written' = written
    PROVE  LineIsEnd' /\ line' \in Seq(Byte) /\ written' \in Seq(Packets)
<1> USE DEF FramerInv
<1>1. Last' = Last
  BY DEF Last
<1>2. /\ Len(Last) \in Nat /\ written # << >> /\ Len(line) <= Len(Last)
      /\ \A i \in 1 .. Len(line) : line[i] = Last[Len(Last) - Len(line) + i]
  BY LastIsPacket DEF LineIsEnd
<1> HIDE DEF Last
<1>3. \A i \in 1 .. Len(line) - 1 :
        Tail(line)[i] = Last[Len(Last) - Len(Tail(line)) + i]
  <2> TAKE i \in 1 .. Len(line) - 1
  <2>1. Tail(line)[i] = line[i + 1] /\ i + 1 \in 1 .. Len(line)
    BY NextByte
  <2>2. Len(Last) - Len(line) + (i + 1) = Len(Last) - Len(Tail(line)) + i
    BY <1>2, NextByte
  <2>3. line[i + 1] = Last[Len(Last) - Len(line) + (i + 1)]
    BY <1>2, <2>1
  <2> QED BY <2>1, <2>2, <2>3
<1>4. Len(Tail(line)) <= Len(Last)
  BY <1>2, NextByte
<1> QED BY <1>1, <1>2, <1>3, <1>4, NextByte DEF LineIsEnd, FramerTypes

\* Bytes are numbers.
LEMMA ByteIsNat == Byte \subseteq Nat
BY DEF Byte

\* The length of a whole packet.
LEMMA WholeLength ==
    ASSUME NEW p \in Seq(Byte), Whole(p)
    PROVE  /\ p[1] = HCI_COMMAND =>
                Len(p) >= 4 /\ Len(p) = 4 + p[4] /\ p[4] \in Nat
           /\ p[1] = HCI_EVENT =>
                Len(p) >= 3 /\ Len(p) = 3 + p[3] /\ p[3] \in Nat
           /\ p[1] = HCI_ACL_DATA =>
                /\ Len(p) >= 5 /\ Len(p) = 5 + p[4] + 256 * p[5]
                /\ p[4] \in Nat /\ p[5] \in Nat
<1>1. Len(p) \in Nat /\ \A i \in 1 .. Len(p) : p[i] \in Nat
  <2>1. Len(p) \in Nat /\ \A i \in 1 .. Len(p) : p[i] \in Byte
    BY LenProperties, ElementOfSeq
  <2> QED BY <2>1, ByteIsNat
<1>2. HCI_COMMAND # HCI_EVENT /\ HCI_COMMAND # HCI_ACL_DATA /\ HCI_EVENT # HCI_ACL_DATA
  BY DEF HCI_COMMAND, HCI_EVENT, HCI_ACL_DATA
<1>3. CASE p[1] = HCI_COMMAND
  BY <1>1, <1>2, <1>3 DEF Whole
<1>4. CASE p[1] = HCI_EVENT
  BY <1>1, <1>2, <1>4 DEF Whole
<1>5. CASE p[1] = HCI_ACL_DATA
  BY <1>1, <1>2, <1>5 DEF Whole
<1> QED BY <1>2, <1>3, <1>4, <1>5

(***************************************************************************)
(* A packet is complete with its last byte and no other, and the buffer    *)
(* holds it then without the packet type.                                  *)
(***************************************************************************)
LEMMA CompleteAtEnd ==
    ASSUME FramerInv, line # << >>, packet_type # None
    PROVE  /\ Completes <=> Tail(line) = << >>
           /\ Len(Grown) >= HeaderLen(packet_type) => NowExpected = Len(Last) - 1
           /\ NowExpected \in Nat
           /\ Len(Last) = 1 + Len(Grown) + Len(Tail(line))
           /\ \A i \in 1 .. Len(Grown) : Grown[i] = Last[i + 1]
<1> USE DEF FramerInv
<1> DEFINE n == Len(Grown)
           t == packet_type
           p == Last
<1>a. p \in Seq(Byte) /\ Len(p) \in Nat /\ Whole(p) /\ p[1] = t
  BY LastIsPacket DEF LineIsEnd, InPacket
<1>b. Len(p) = 1 + Len(buf) + Len(line)
  BY DEF InPacket
<1>c. Len(buf) >= HeaderLen(t) => expected = Len(p) - 1
  BY DEF InPacket
<1>d. \A i \in 1 .. Len(buf) : buf[i] = p[i + 1]
  BY DEF InPacket
<1>e. Len(buf) \in Nat /\ Len(line) \in Nat /\ Len(line) >= 1
  BY NextByte
<1>1. line[1] = p[Len(p) - Len(line) + 1]
  BY <1>e DEF LineIsEnd
<1>2. n = Len(buf) + 1 /\ Len(p) = 1 + n + Len(Tail(line)) /\ n \in Nat
  <2>1. n = Len(buf) + 1 /\ Len(Tail(line)) = Len(line) - 1
    BY NextByte
  <2> QED BY <1>b, <1>e, <2>1
<1>3. \A i \in 1 .. n : Grown[i] = p[i + 1]
  <2> TAKE i \in 1 .. n
  <2>1. CASE i <= Len(buf)
    <3>1. i \in 1 .. Len(buf)
      BY <1>2, <1>e, <2>1
    <3> QED BY <1>d, <3>1, NextByte
  <2>2. CASE i = n
    <3>1. Len(p) - Len(line) + 1 = n + 1
      BY <1>2, <1>b, <1>e
    <3>2. Grown[n] = line[1]
      BY <1>2, NextByte
    <3> QED BY <1>1, <2>2, <3>1, <3>2
  <2> QED BY <1>2, <1>e, <2>1, <2>2
<1>4. t \in PacketTypes /\ expected \in Nat
  BY DEF FramerTypes
<1> HIDE DEF n, t, p
<1>5. /\ HeaderLen(t) \in Nat /\ Len(p) - 1 >= HeaderLen(t)
      /\ n = HeaderLen(t) => FrameLen(t, Grown) = Len(p) - 1
  <2>1. CASE t = HCI_COMMAND
    <3>1. HeaderLen(t) = 3 /\ FrameLen(t, Grown) = 3 + Grown[3]
      BY <2>1 DEF HeaderLen, FrameLen, HCI_COMMAND, HCI_EVENT, HCI_ACL_DATA
    <3>2. Len(p) >= 4 /\ Len(p) = 4 + p[4] /\ p[4] \in Nat
      BY <1>a, <2>1, WholeLength
    <3>3. n = 3 => Grown[3] = p[4]
      BY <1>3
    <3> QED BY <1>a, <3>1, <3>2, <3>3
  <2>2. CASE t = HCI_EVENT
    <3>1. HeaderLen(t) = 2 /\ FrameLen(t, Grown) = 2 + Grown[2]
      BY <2>2 DEF HeaderLen, FrameLen, HCI_COMMAND, HCI_EVENT, HCI_ACL_DATA
    <3>2. Len(p) >= 3 /\ Len(p) = 3 + p[3] /\ p[3] \in Nat
      BY <1>a, <2>2, WholeLength
    <3>3. n = 2 => Grown[2] = p[3]
      BY <1>3
    <3> QED BY <1>a, <3>1, <3>2, <3>3
  <2>3. CASE t = HCI_ACL_DATA
    <3>1. HeaderLen(t) = 4 /\ FrameLen(t, Grown) = 4 + Grown[3] + 256 * Grown[4]
      BY <2>3 DEF HeaderLen, FrameLen, HCI_COMMAND, HCI_EVENT, HCI_ACL_DATA
    <3>2. /\ Len(p) >= 5 /\ Len(p) = 5 + p[4] + 256 * p[5]
          /\ p[4] \in Nat /\ p[5] \in Nat
      BY <1>a, <2>3, WholeLength
    <3>3. n = 4 => Grown[3] = p[4] /\ Grown[4] = p[5]
      BY <1>3
    <3> QED BY <1>a, <3>1, <3>2, <3>3, SMTT(30)
  <2> QED BY <1>4, <2>1, <2>2, <2>3 DEF PacketTypes
<1>6. NowExpected = IF n = HeaderLen(t) THEN FrameLen(t, Grown) ELSE expected
  BY DEF NowExpected, n, t
<1>7. n >= HeaderLen(t) => NowExpected = Len(p) - 1
  <2>1. n >= HeaderLen(t) /\ n # HeaderLen(t) => Len(buf) >= HeaderLen(t)
    BY <1>2, <1>5, <1>e
  <2> QED BY <1>5, <1>6, <1>c, <2>1
<1>8. NowExpected \in Nat
  <2>1. Len(p) - 1 \in Nat
    BY <1>5, <1>a
  <2> QED BY <1>4, <1>5, <1>6, <2>1
<1>9. Completes <=> n = NowExpected /\ NowExpected >= HeaderLen(t)
  BY DEF Completes, n, t
<1>10. Completes <=> Len(Tail(line)) = 0
  <2>1. Len(Tail(line)) \in Nat
    BY NextByte
  <2>2. Len(Tail(line)) = 0 <=> n = Len(p) - 1
    <3>1. \A a, b, c \in Nat : a = 1 + b + c => (c = 0 <=> b = a - 1)
      OBVIOUS
    <3> QED BY <1>2, <1>a, <2>1, <3>1
  <2>3. Completes => n = Len(p) - 1
    BY <1>7, <1>9
  <2>4. n = Len(p) - 1 => Completes
    BY <1>5, <1>7, <1>9
  <2> QED BY <2>2, <2>3, <2>4
<1>11. Len(Tail(line)) = 0 <=> Tail(line) = << >>
  BY NextByte
<1> QED BY <1>2, <1>3, <1>7, <1>8, <1>10, <1>11 DEF n, t, p

\* The host writes a packet, or idle bytes.
LEMMA WriteFramed ==
    ASSUME FramerInv, host_writes
    PROVE  /\ FramerInv' /\ Last' \in Packets /\ written' = Append(written, Last')
           /\ line' # << >>
<1> USE DEF FramerInv
<1>1. PICK p \in Packets : line' = p /\ written' = Append(written, p)
  BY DEF host_writes
<1>2. line = << >> /\ UNCHANGED <<packet_type, expected, buf>>
  BY DEF host_writes, framer
<1>3. packet_type = None
  BY <1>2 DEF InPacket
<1>4. p \in Seq(Byte) /\ p # << >> /\ (Whole(p) \/ Idle(p))
  BY HciAssumption DEF Byte
<1>5. /\ written' \in Seq(Packets) /\ written' # << >> /\ Last' = p
  <2>1. /\ written' \in Seq(Packets) /\ Len(written') = Len(written) + 1
        /\ written'[Len(written) + 1] = p /\ Len(written) \in Nat
    BY <1>1, AppendProperties, LenProperties DEF FramerTypes
  <2>2. written' # << >>
    BY <2>1
  <2> QED BY <2>1, <2>2 DEF Last
<1>6. FramerTypes'
  BY <1>1, <1>2, <1>4, <1>5 DEF FramerTypes
<1>7. LineIsEnd'
  <2>1. Len(p) \in Nat /\ Len(p) <= Len(p) /\ \A i \in 1 .. Len(p) : Len(p) - Len(p) + i = i
    BY <1>4, LenProperties
  <2> QED BY <1>1, <1>5, <2>1 DEF LineIsEnd
<1>8. InPacket' /\ OutsidePacket'
  BY <1>1, <1>2, <1>3, <1>4, <1>5 DEF InPacket, OutsidePacket
<1> QED BY <1>1, <1>4, <1>5, <1>6, <1>7, <1>8

\* A packet type begins a packet; other bytes outside a packet are idle.
LEMMA TypeFramed ==
    ASSUME FramerInv, feed_type
    PROVE  /\ FramerInv' /\ Last' = Last
           /\ line' = << >> => Last[1] # HCI_COMMAND
<1> USE DEF FramerInv
<1>1. /\ line # << >> /\ packet_type = None /\ line' = Tail(line)
      /\ UNCHANGED <<expected, written>> /\ Last' = Last
  BY DEF feed_type, host, Last
<1>2. /\ LineIsEnd' /\ line' \in Seq(Byte) /\ written' \in Seq(Packets)
  BY <1>1, LineShrinks
<1>3. /\ written # << >> /\ Len(line) <= Len(Last)
      /\ line[1] = Last[Len(Last) - Len(line) + 1]
      /\ Len(line) \in Nat /\ Len(line) >= 1 /\ Head(line) = line[1]
  <2>1. Len(line) \in Nat /\ Len(line) >= 1 /\ Head(line) = line[1]
    BY <1>1, NextByte
  <2> QED BY <1>1, <2>1 DEF LineIsEnd
<1>4. Len(Last) \in Nat /\ Last \in Seq(Byte)
  BY <1>3, LastIsPacket
<1>5. CASE Head(line) \in PacketTypes
  <2>1. packet_type' = Head(line) /\ buf' = << >>
    BY <1>5 DEF feed_type
  <2>2. Whole(Last) /\ Len(line) = Len(Last)
    <3>1. ~Idle(Last)
      <4>1. Len(Last) - Len(line) + 1 \in 1 .. Len(Last)
        BY <1>3, <1>4
      <4> QED BY <1>3, <1>5, <4>1 DEF Idle
    <3> QED BY <1>1, <3>1 DEF OutsidePacket
  <2>3. Last[1] = packet_type' /\ packet_type' # None
    <3>1. Len(Last) - Len(line) + 1 = 1
      BY <1>4, <2>2
    <3>2. packet_type' # None
      BY <1>5, <2>1, HciAssumption
    <3> QED BY <1>3, <2>1, <3>1, <3>2
  <2>4. Len(Last) >= 3
    BY <1>4, <1>5, <2>1, <2>2, <2>3, WholeLength DEF PacketTypes
  <2>5. Len(line') = Len(line) - 1 /\ line' # << >>
    BY <1>1, <1>4, <2>2, <2>4, NextByte
  <2>6. Len(buf') = 0 /\ buf' \in Seq(Byte)
    BY <2>1, EmptySeq
  <2>7. HeaderLen(packet_type') >= 1 /\ HeaderLen(packet_type') \in Nat
    BY <1>5, <2>1
       DEF HeaderLen, PacketTypes, HCI_COMMAND, HCI_EVENT, HCI_ACL_DATA
  <2>8. InPacket'
    <3>1. Len(Last) = 1 + Len(buf') + Len(line')
      BY <1>3, <1>4, <2>2, <2>5, <2>6
    <3>2. ~(Len(buf') >= HeaderLen(packet_type'))
      BY <2>6, <2>7
    <3>3. \A i \in 1 .. Len(buf') : FALSE
      BY <2>6
    <3> QED BY <1>1, <2>2, <2>3, <2>5, <3>1, <3>2, <3>3 DEF InPacket
  <2>9. OutsidePacket'
    BY <2>3 DEF OutsidePacket
  <2>10. FramerTypes'
    BY <1>1, <1>2, <1>5, <2>1, <2>6 DEF FramerTypes
  <2> QED BY <1>1, <1>2, <2>5, <2>8, <2>9, <2>10
<1>6. CASE Head(line) \notin PacketTypes
  <2>1. UNCHANGED <<packet_type, buf>>
    BY <1>6 DEF feed_type
  <2>2. Idle(Last)
    <3> SUFFICES ASSUME Whole(Last), Len(line) = Len(Last) PROVE FALSE
      BY <1>1 DEF OutsidePacket
    <3>1. Len(Last) - Len(line) + 1 = 1
      BY <1>4
    <3>2. Last[1] \in PacketTypes
      BY DEF Whole, PacketTypes
    <3> QED BY <1>3, <1>6, <3>1, <3>2
  <2>3. Last[1] # HCI_COMMAND
    <3>1. 1 \in 1 .. Len(Last)
      BY <1>3, <1>4
    <3> QED BY <2>2, <3>1 DEF Idle, PacketTypes
  <2>4. FramerTypes' /\ InPacket' /\ OutsidePacket'
    BY <1>1, <1>2, <2>1, <2>2 DEF FramerTypes, InPacket, OutsidePacket
  <2> QED BY <1>1, <1>2, <2>3, <2>4
<1> QED BY <1>5, <1>6

\* A byte inside a packet.
LEMMA ByteFramed ==
    ASSUME FramerInv, feed_byte
    PROVE  FramerInv' /\ Last' = Last /\ line' # << >>
<1> USE DEF FramerInv
<1>1. /\ line # << >> /\ packet_type # None /\ ~Completes /\ line' = Tail(line)
      /\ buf' = Grown /\ expected' = NowExpected
      /\ UNCHANGED <<packet_type, written>> /\ Last' = Last
  BY DEF feed_byte, host, Last
<1>2. /\ LineIsEnd' /\ line' \in Seq(Byte) /\ written' \in Seq(Packets)
  BY <1>1, LineShrinks
<1>3. /\ line' # << >> /\ NowExpected \in Nat
      /\ Len(Grown) >= HeaderLen(packet_type) => NowExpected = Len(Last) - 1
      /\ Len(Last) = 1 + Len(Grown) + Len(Tail(line))
      /\ \A i \in 1 .. Len(Grown) : Grown[i] = Last[i + 1]
  BY <1>1, CompleteAtEnd
<1>4. Whole(Last) /\ Last[1] = packet_type
  BY <1>1 DEF InPacket
<1>5. InPacket'
  BY <1>1, <1>3, <1>4 DEF InPacket
<1>6. OutsidePacket'
  BY <1>1 DEF OutsidePacket
<1>7. FramerTypes'
  BY <1>1, <1>2, <1>3, NextByte DEF FramerTypes
<1> QED BY <1>1, <1>2, <1>3, <1>5, <1>6, <1>7

\* The last byte of a packet.
LEMMA LastByteFramed ==
    ASSUME FramerInv, NEW type \in PacketTypes, LastByte(type)
    PROVE  /\ FramerInv' /\ Last' = Last /\ line # << >> /\ line' = << >> /\ written' = written
           /\ Last[1] = type /\ Whole(Last) /\ Last \in Seq(Byte)
           /\ Len(Last) = 1 + Len(Grown) /\ Grown \in Seq(Byte)
           /\ \A i \in 1 .. Len(Grown) : Grown[i] = Last[i + 1]
<1> USE DEF FramerInv
<1>1. /\ line # << >> /\ packet_type = type /\ packet_type # None /\ Completes
      /\ line' = Tail(line) /\ packet_type' = None /\ buf' = << >> /\ expected' = 0
      /\ UNCHANGED written /\ Last' = Last
  BY HciAssumption DEF LastByte, host, Last
<1>2. /\ line' = << >> /\ Len(Last) = 1 + Len(Grown) + Len(Tail(line))
      /\ \A i \in 1 .. Len(Grown) : Grown[i] = Last[i + 1]
  BY <1>1, CompleteAtEnd
<1>3. Len(Tail(line)) = 0 /\ Len(Grown) \in Nat /\ Grown \in Seq(Byte)
  BY <1>1, <1>2, NextByte
<1>4. Len(Last) = 1 + Len(Grown)
  <2> DEFINE rest == Len(Tail(line))
             most == Len(Grown)
             all  == Len(Last)
  <2>1. all = 1 + most + rest /\ rest = 0 /\ most \in Nat
    BY <1>2, <1>3
  <2> HIDE DEF rest, most, all
  <2>2. all = 1 + most
    BY <2>1
  <2> QED BY <2>2 DEF most, all
<1>5. /\ Last[1] = type /\ Whole(Last) /\ Last \in Seq(Byte)
  BY <1>1, LastIsPacket DEF InPacket, LineIsEnd
<1>6. FramerTypes' /\ LineIsEnd' /\ InPacket' /\ OutsidePacket'
  BY <1>1, <1>2, EmptySeq DEF FramerTypes, LineIsEnd, InPacket, OutsidePacket
<1> QED BY <1>1, <1>2, <1>3, <1>4, <1>5, <1>6

-----------------------------------------------------------------------------
(* Each command is answered                                                *)

Codes == {"ANSWER", "CONNECTION_COMPLETE", "DISCONNECTION_COMPLETE", "ADVERTISING_REPORT"}

HostEvents == [code : Codes, opcode : Seq(Byte)]

\* The opcodes of the answers in a queue, and of the first n of some commands
OpcodesIn(evts)       == [i \in 1 .. Len(evts) |-> evts[i].opcode]
OpcodesOf(packets, n) == [i \in 1 .. n |-> SubSeq(packets[i], 2, 3)]

\* What has been written, the commands among it
AllCommands == Select(written, CommandPackets)
Queued      == Select(hci_events, AnswerEvents)

AnswerInv ==
    /\ FramerInv
    /\ hci_events \in Seq(HostEvents) /\ answered \in Seq(Seq(Byte))
    /\ AnsweredOnceInOrder

(***************************************************************************)
(* Commands and Answers in these terms: what is on the line and is not a   *)
(* command holds nothing back.                                             *)
(***************************************************************************)
LEMMA CommandsAre ==
    /\ Commands = OpcodesOf(AllCommands,
            IF line # << >> /\ Last \in CommandPackets
            THEN Len(AllCommands) - 1 ELSE Len(AllCommands))
    /\ Answers = answered \o OpcodesIn(Queued)
BY DEF Commands, OpcodesOf, AllCommands, Last, Answers, OpcodesIn, Queued

\* The same in the next state.
LEMMA CommandsWillBe ==
    /\ Commands' = OpcodesOf(AllCommands',
            IF line' # << >> /\ Last' \in CommandPackets
            THEN Len(AllCommands') - 1 ELSE Len(AllCommands'))
    /\ AllCommands' = Select(written', CommandPackets)
    /\ Answers' = answered' \o OpcodesIn(Queued')
    /\ Queued' = Select(hci_events', AnswerEvents)
BY DEF Commands, OpcodesOf, AllCommands, Last, Answers, OpcodesIn, Queued,
   CommandPackets, AnswerEvents

\* The types of what is selected.
LEMMA SelectedTypes ==
    ASSUME AnswerInv
    PROVE  /\ AllCommands \in Seq(CommandPackets) /\ Len(AllCommands) \in Nat
           /\ Queued \in Seq(AnswerEvents) /\ Len(Queued) \in Nat
<1>1. AllCommands \in Seq(Packets \cap CommandPackets)
  BY SelectType DEF AnswerInv, FramerInv, FramerTypes, AllCommands
<1>2. Queued \in Seq(HostEvents \cap AnswerEvents)
  BY SelectType DEF AnswerInv, Queued
<1>3. AllCommands \in Seq(CommandPackets) /\ Queued \in Seq(AnswerEvents)
  BY <1>1, <1>2, SeqMonotonic
<1> QED BY <1>3, LenProperties

\* Opcodes of sequences of events.
LEMMA OpcodesInType ==
    ASSUME NEW s \in Seq(AnswerEvents)
    PROVE  OpcodesIn(s) \in Seq(Seq(Byte)) /\ Len(OpcodesIn(s)) = Len(s)
<1>1. Len(s) \in Nat /\ \A i \in 1 .. Len(s) : s[i].opcode \in Seq(Byte)
  <2>1. Len(s) \in Nat /\ \A i \in 1 .. Len(s) : s[i] \in AnswerEvents
    BY LenProperties, ElementOfSeq
  <2> QED BY <2>1 DEF AnswerEvents, Byte
<1> QED BY <1>1 DEF OpcodesIn

\* A sequence that is another one with an element appended.
LEMMA AppendIs ==
    ASSUME NEW X, NEW s \in Seq(X), NEW x \in X, NEW t \in Seq(X),
           Len(t) = Len(s) + 1, \A i \in 1 .. Len(s) : t[i] = s[i], t[Len(s) + 1] = x
    PROVE  t = Append(s, x)
<1> DEFINE u == Append(s, x)
<1>1. /\ u \in Seq(X) /\ Len(s) \in Nat /\ Len(u) = Len(s) + 1 /\ u[Len(s) + 1] = x
      /\ \A i \in 1 .. Len(s) : u[i] = s[i]
  BY AppendProperties, LenProperties
<1> HIDE DEF u
<1>2. \A i \in 1 .. Len(t) : i = Len(s) + 1 \/ i \in 1 .. Len(s)
  BY <1>1
<1>3. \A i \in 1 .. Len(t) : t[i] = u[i]
  BY <1>1, <1>2
<1> QED BY <1>1, <1>3, SeqEqual DEF u

\* The opcodes when an answer is queued.
LEMMA OpcodesInAppend ==
    ASSUME NEW s \in Seq(AnswerEvents), NEW e \in AnswerEvents
    PROVE  OpcodesIn(Append(s, e)) = Append(OpcodesIn(s), e.opcode)
<1> DEFINE t == Append(s, e)
           o == OpcodesIn(s)
           p == OpcodesIn(t)
<1>1. /\ t \in Seq(AnswerEvents) /\ Len(s) \in Nat /\ Len(t) = Len(s) + 1 /\ t[Len(s) + 1] = e
      /\ \A i \in 1 .. Len(s) : t[i] = s[i]
  BY AppendProperties, LenProperties
<1>2. /\ o \in Seq(Seq(Byte)) /\ Len(o) = Len(s) /\ e.opcode \in Seq(Byte)
      /\ p \in Seq(Seq(Byte)) /\ Len(p) = Len(t)
  BY <1>1, OpcodesInType DEF AnswerEvents, Byte
<1>3. \A i \in 1 .. Len(s) : o[i] = s[i].opcode
  BY DEF OpcodesIn
<1>4. \A i \in 1 .. Len(t) : p[i] = t[i].opcode
  BY DEF OpcodesIn
<1>5. Len(s) + 1 \in 1 .. Len(t) /\ \A i \in 1 .. Len(s) : i \in 1 .. Len(t)
  BY <1>1
<1> HIDE DEF t, o, p
<1>6. Len(p) = Len(o) + 1 /\ (\A i \in 1 .. Len(o) : p[i] = o[i]) /\ p[Len(o) + 1] = e.opcode
  BY <1>1, <1>2, <1>3, <1>4, <1>5
<1>7. p = Append(o, e.opcode)
  BY <1>2, <1>6, AppendIs
<1> QED BY <1>7 DEF t, o, p

\* The opcodes when the first event is taken from a queue: an answer goes to
\* the host with its opcode.
LEMMA OpcodesInHead ==
    ASSUME NEW a \in Seq(Seq(Byte)), NEW t \in Seq(AnswerEvents), NEW e \in AnswerEvents
    PROVE  a \o OpcodesIn(<<e>> \o t) = Append(a, e.opcode) \o OpcodesIn(t)
<1> DEFINE s == <<e>> \o t
           o == OpcodesIn(s)
           p == OpcodesIn(t)
           x == e.opcode
           q == <<x>> \o p
<1>1. x \in Seq(Byte) /\ <<x>> \in Seq(Seq(Byte))
  BY DEF AnswerEvents, Byte
<1>2. /\ s \in Seq(AnswerEvents) /\ Len(t) \in Nat /\ Len(s) = Len(t) + 1 /\ s[1] = e
      /\ \A i \in 1 .. Len(t) : s[i + 1] = t[i] /\ i + 1 \in 1 .. Len(s)
  OBVIOUS
<1>3. /\ o \in Seq(Seq(Byte)) /\ Len(o) = Len(s)
      /\ p \in Seq(Seq(Byte)) /\ Len(p) = Len(t)
  BY <1>2, OpcodesInType
<1>4. /\ \A i \in 1 .. Len(s) : o[i] = s[i].opcode
      /\ \A i \in 1 .. Len(t) : p[i] = t[i].opcode
  BY DEF OpcodesIn
<1> HIDE DEF s, o, p
<1>5. o[1] = x /\ \A i \in 1 .. Len(p) : o[i + 1] = p[i]
  <2>1. 1 \in 1 .. Len(s)
    BY <1>2
  <2> QED BY <1>2, <1>3, <1>4, <2>1
<1> HIDE DEF x
<1>6. /\ q \in Seq(Seq(Byte)) /\ Len(q) = Len(p) + 1 /\ q[1] = x
      /\ \A i \in 1 .. Len(p) : q[i + 1] = p[i]
  BY <1>1, <1>3
<1> HIDE DEF q
<1>7. \A i \in 1 .. Len(p) + 1 : i = 1 \/ \E j \in 1 .. Len(p) : i = j + 1
  <2> SUFFICES ASSUME NEW i \in 1 .. Len(p) + 1, i # 1 PROVE \E j \in 1 .. Len(p) : i = j + 1
    OBVIOUS
  <2>1. i - 1 \in 1 .. Len(p) /\ i = (i - 1) + 1
    BY <1>2, <1>3
  <2> QED BY <2>1
<1>8. o = q
  <2>1. Len(o) = Len(q) /\ Len(o) = Len(p) + 1
    BY <1>2, <1>3, <1>6
  <2>2. \A i \in 1 .. Len(o) : o[i] = q[i]
    BY <1>5, <1>6, <1>7, <2>1, SMTT(30)
  <2> QED BY <1>3, <1>6, <2>1, <2>2, SeqEqual
<1>9. Append(a, x) = a \o <<x>>
  BY <1>1, AppendIsConcat
<1>10. (a \o <<x>>) \o p = a \o (<<x>> \o p)
  BY <1>1, <1>3, ConcatAssociative, SMTT(30)
<1> QED BY <1>8, <1>9, <1>10 DEF o, s, p, q, x

\* What push_event does: it appends, or the queue overflows and is given up.
LEMMA PushedOrNot ==
    ASSUME NEW evts, push_events(evts)
    PROVE  \/ ~overflowed /\ ~overflowed' /\ hci_events' = hci_events \o evts
           \/ overflowed' /\ hci_events' = << >>
BY DEF push_events

\* An answer is queued behind the others.
LEMMA AnswerQueued ==
    ASSUME AnswerInv, NEW o \in Seq(Byte), answered' = answered,
           hci_events' = Append(hci_events, [code |-> "ANSWER", opcode |-> o])
    PROVE  hci_events' \in Seq(HostEvents) /\ Answers' = Append(Answers, o)
<1> DEFINE e == [code |-> "ANSWER", opcode |-> o]
<1>1. e \in HostEvents /\ e \in AnswerEvents /\ e.opcode = o
  BY DEF HostEvents, Codes, AnswerEvents, Byte
<1> HIDE DEF e
<1>2. hci_events' \in Seq(HostEvents)
  BY <1>1, AppendProperties DEF AnswerInv, e
<1>3. Queued' = Append(Queued, e)
  BY <1>1, SelectAppend, CommandsWillBe DEF AnswerInv, Queued, e
<1>4. OpcodesIn(Queued') = Append(OpcodesIn(Queued), o)
  BY <1>1, <1>3, SelectedTypes, OpcodesInAppend
<1>5. answered \o Append(OpcodesIn(Queued), o) = Append(answered \o OpcodesIn(Queued), o)
  BY SelectedTypes, OpcodesInType, ConcatAppend, SMTT(30) DEF AnswerInv
<1> QED BY <1>2, <1>4, <1>5, CommandsAre, CommandsWillBe

\* Events that are no answers are queued behind the others.
LEMMA OthersQueued ==
    ASSUME AnswerInv, NEW evts \in Seq(HostEvents \ AnswerEvents), answered' = answered,
           hci_events' = hci_events \o evts
    PROVE  hci_events' \in Seq(HostEvents) /\ Answers' = Answers
<1>1. evts \in Seq(HostEvents)
  BY SeqMonotonic
<1>2. Select(evts, AnswerEvents) = << >>
  <2>1. (HostEvents \ AnswerEvents) \cap AnswerEvents = {}
    OBVIOUS
  <2> QED BY <2>1, SelectNothing
<1>3. Queued' = Queued
  <2>1. Select(hci_events \o evts, AnswerEvents) =
            Select(hci_events, AnswerEvents) \o Select(evts, AnswerEvents)
    BY <1>1, SelectConcat DEF AnswerInv
  <2>2. Queued' = Select(hci_events \o evts, AnswerEvents)
    BY CommandsWillBe
  <2>3. Queued \o << >> = Queued
    BY SelectedTypes, ConcatEmptySeq
  <2> QED BY <1>2, <2>1, <2>2, <2>3, Zenon DEF Queued
<1>4. hci_events' \in Seq(HostEvents)
  BY <1>1, ConcatProperties DEF AnswerInv
<1> QED BY <1>3, <1>4, CommandsAre, CommandsWillBe

\* Nothing is lost or added when an event is delivered.
LEMMA AnswerDelivered ==
    ASSUME AnswerInv, hci_next_event
    PROVE  /\ hci_events' \in Seq(HostEvents) /\ answered' \in Seq(Seq(Byte))
           /\ Answers' = Answers
<1> DEFINE e == Head(hci_events)
           t == Tail(hci_events)
<1>1. /\ hci_events # << >> /\ hci_events' = t
      /\ answered' = IF e.code = "ANSWER" THEN Append(answered, e.opcode) ELSE answered
  BY DEF hci_next_event
<1>2. /\ e \in HostEvents /\ t \in Seq(HostEvents) /\ hci_events = <<e>> \o t
      /\ <<e>> \in Seq(HostEvents)
  BY <1>1 DEF AnswerInv
<1> HIDE DEF e, t
<1>3. Queued = Select(<<e>>, AnswerEvents) \o Select(t, AnswerEvents)
  BY <1>2, SelectConcat DEF Queued
<1>4. Select(<<e>>, AnswerEvents) = IF e \in AnswerEvents THEN <<e>> ELSE << >>
  BY <1>2, SelectOne
<1>5. Queued' = Select(t, AnswerEvents) /\ Queued' \in Seq(AnswerEvents)
  <2>1. Queued' = Select(t, AnswerEvents)
    BY <1>1, CommandsWillBe
  <2>2. Select(t, AnswerEvents) \in Seq(HostEvents \cap AnswerEvents)
    BY <1>2, SelectType
  <2> QED BY <2>1, <2>2, SeqMonotonic
<1>6. e \in AnswerEvents <=> e.code = "ANSWER"
  BY <1>2 DEF HostEvents, AnswerEvents, Byte
<1>7. answered' \in Seq(Seq(Byte))
  <2>1. e.opcode \in Seq(Byte)
    BY <1>2 DEF HostEvents
  <2> QED BY <1>1, <2>1, AppendProperties DEF AnswerInv
<1>8. CASE e \in AnswerEvents
  <2>1. Queued = <<e>> \o Queued' /\ answered' = Append(answered, e.opcode)
    BY <1>1, <1>3, <1>4, <1>5, <1>6, <1>8
  <2>2. answered \o OpcodesIn(<<e>> \o Queued') = answered' \o OpcodesIn(Queued')
    BY <1>5, <1>8, <2>1, OpcodesInHead DEF AnswerInv
  <2> QED BY <1>1, <1>2, <1>7, <2>1, <2>2, CommandsAre, CommandsWillBe
<1>9. CASE e \notin AnswerEvents
  <2>1. Queued = << >> \o Queued' /\ answered' = answered
    BY <1>1, <1>3, <1>4, <1>5, <1>6, <1>9
  <2>2. Queued = Queued'
    BY <1>5, <2>1, ConcatEmptySeq
  <2> QED BY <1>1, <1>2, <1>7, <2>1, <2>2, CommandsAre, CommandsWillBe
<1> QED BY <1>8, <1>9

\* A packet that is written is not counted before it has been fed.
LEMMA CommandWritten ==
    ASSUME AnswerInv, host_writes
    PROVE  Commands' = Commands
<1> DEFINE n == Len(AllCommands)
           p == Last'
<1>1. line = << >> /\ line' # << >> /\ p \in Packets /\ written' = Append(written, p)
  BY WriteFramed DEF AnswerInv, host_writes
<1>2. AllCommands' = IF p \in CommandPackets THEN Append(AllCommands, p) ELSE AllCommands
  <2>1. written \in Seq(Packets) /\ AllCommands' = Select(written', CommandPackets)
    BY CommandsWillBe DEF AnswerInv, FramerInv, FramerTypes
  <2> HIDE DEF p
  <2> QED BY <1>1, <2>1, SelectAppend DEF AllCommands
<1>3. Commands = OpcodesOf(AllCommands, n)
  BY <1>1, CommandsAre
<1>4. AllCommands \in Seq(CommandPackets) /\ n \in Nat
  BY SelectedTypes
<1> HIDE DEF p
<1>5. CASE p \in CommandPackets
  <2> DEFINE all == Append(AllCommands, p)
  <2>1. Len(all) = n + 1 /\ \A i \in 1 .. n : all[i] = AllCommands[i]
    BY <1>4, <1>5, AppendProperties
  <2>2. Commands' = OpcodesOf(all, Len(all) - 1)
    BY <1>1, <1>2, <1>5, CommandsWillBe DEF p
  <2> HIDE DEF all, n
  <2>3. Len(all) - 1 = n
    BY <1>4, <2>1
  <2>4. OpcodesOf(all, n) = OpcodesOf(AllCommands, n)
    BY <2>1 DEF OpcodesOf
  <2> QED BY <1>3, <2>2, <2>3, <2>4
<1>6. CASE p \notin CommandPackets
  BY <1>1, <1>2, <1>3, <1>6, CommandsWillBe DEF p
<1> QED BY <1>5, <1>6

\* A byte that does not end a command leaves the commands as they are.
LEMMA CommandGoesOn ==
    ASSUME FramerInv, line # << >>, written' = written, Last' = Last,
           line' = << >> => Last[1] # HCI_COMMAND
    PROVE  Commands' = Commands
<1>1. AllCommands' = AllCommands
  BY CommandsWillBe DEF AllCommands
<1>2. line' = << >> => Last \notin CommandPackets
  BY DEF CommandPackets
<1> QED BY <1>1, <1>2, CommandsAre, CommandsWillBe

\* The last byte of a command adds its opcode.
LEMMA CommandEnds ==
    ASSUME AnswerInv, LastByte(HCI_COMMAND)
    PROVE  Commands' = Append(Commands, Opcode) /\ Opcode \in Seq(Byte)
<1> DEFINE n == Len(AllCommands)
<1>1. HCI_COMMAND \in PacketTypes
  BY DEF PacketTypes
<1>2. /\ line # << >> /\ line' = << >> /\ written' = written /\ Last' = Last
      /\ Last[1] = HCI_COMMAND /\ Whole(Last) /\ Last \in Seq(Byte)
      /\ Len(Last) = 1 + Len(Grown) /\ Grown \in Seq(Byte)
      /\ \A i \in 1 .. Len(Grown) : Grown[i] = Last[i + 1]
  BY <1>1, LastByteFramed DEF AnswerInv
<1>3. written \in Seq(Packets) /\ written # << >> /\ Last \in Packets
  <2>1. written \in Seq(Packets) /\ written # << >>
    BY <1>2 DEF AnswerInv, FramerInv, FramerTypes, LineIsEnd
  <2> QED BY <2>1, LastIsPacket DEF AnswerInv, FramerInv
<1>4. Last \in CommandPackets
  BY <1>2, <1>3 DEF CommandPackets
<1>5. AllCommands \in Seq(CommandPackets) /\ n \in Nat
  BY SelectedTypes
<1>6. n >= 1 /\ AllCommands[n] = Last
  <2>1. PICK front \in Seq(Packets), x \in Packets : written = Append(front, x)
    BY <1>3, SequenceEmptyOrAppend
  <2>2. x = Last
    BY <2>1, AppendProperties DEF Last
  <2>3. AllCommands = Append(Select(front, CommandPackets), Last)
    BY <1>4, <2>1, <2>2, SelectAppend DEF AllCommands
  <2>4. Select(front, CommandPackets) \in Seq(Packets \cap CommandPackets)
    BY SelectType
  <2> DEFINE s == Select(front, CommandPackets)
  <2>5. s \in Seq(Packets) /\ AllCommands = Append(s, Last)
    BY <2>3, <2>4, SeqMonotonic
  <2> HIDE DEF s
  <2>6. Len(s) \in Nat /\ n = Len(s) + 1 /\ AllCommands[Len(s) + 1] = Last
    BY <1>3, <2>5, AppendProperties, LenProperties
  <2> QED BY <2>6
<1>7. Opcode \in Seq(Byte) /\ Opcode = SubSeq(Last, 2, 3)
  <2>1. Len(Last) \in Nat /\ Len(Last) >= 4 /\ Len(Grown) \in Nat
    BY <1>2, WholeLength, LenProperties
  <2> HIDE DEF Last, Grown
  <2>2. Len(Grown) >= 3
    BY <1>2, <2>1
  <2>3. \A i \in 1 .. 2 : Grown[i] \in Byte /\ Grown[i] = Last[i + 1]
    BY <1>2, <2>1, <2>2
  <2>4. \A i \in 2 .. 3 : Last[i] \in Byte
    BY <1>2, <2>1
  <2> DEFINE o == SubSeq(Grown, 1, 2)
             q == SubSeq(Last, 2, 3)
  <2>5. o \in Seq(Byte) /\ Len(o) = 2 /\ \A i \in 1 .. 2 : o[i] = Grown[i]
    BY <2>3, SubSeqProperties
  <2>6. q \in Seq(Byte) /\ Len(q) = 2 /\ \A i \in 1 .. 2 : q[i] = Last[i + 1]
    BY <2>4, SubSeqProperties
  <2> HIDE DEF o, q
  <2>7. o = q
    BY <2>3, <2>5, <2>6, SeqEqual
  <2> QED BY <2>5, <2>7 DEF Opcode, o, q
<1>8. Commands = OpcodesOf(AllCommands, n - 1) /\ Commands' = OpcodesOf(AllCommands, n)
  <2>1. AllCommands' = AllCommands
    BY <1>2, CommandsWillBe DEF AllCommands
  <2> QED BY <1>2, <1>4, <2>1, CommandsAre, CommandsWillBe
<1>9. OpcodesOf(AllCommands, n) = Append(OpcodesOf(AllCommands, n - 1), Opcode)
  <2> DEFINE f(i) == SubSeq(AllCommands[i], 2, 3)
             X == {f(i) : i \in 1 .. n}
             s == [i \in 1 .. n - 1 |-> f(i)]
             t == [i \in 1 .. n |-> f(i)]
  <2> HIDE DEF n
  <2>1. n - 1 \in Nat /\ n \in 1 .. n /\ (n - 1) + 1 = n /\ \A i \in 1 .. n - 1 : i \in 1 .. n
    BY <1>5, <1>6
  <2>2. f(n) = Opcode
    BY <1>6, <1>7
  <2> HIDE DEF f
  <2>3. s \in Seq(X) /\ t \in Seq(X) /\ Len(s) = n - 1 /\ Len(t) = n /\ f(n) \in X
    BY <1>5, <2>1, SMTT(30)
  <2>4. t[n] = f(n) /\ \A i \in 1 .. n - 1 : t[i] = s[i]
    BY <2>1
  <2> HIDE DEF X, s, t
  <2>5. t = Append(s, f(n))
    BY <2>1, <2>3, <2>4, AppendIs
  <2> QED BY <2>2, <2>5, Zenon DEF OpcodesOf, s, t, f
<1> QED BY <1>7, <1>8, <1>9

-----------------------------------------------------------------------------
(* The host follows the link                                               *)

HostOn  == {e \in HostEvents : e.code = "CONNECTION_COMPLETE"}
HostOff == {e \in HostEvents : e.code = "DISCONNECTION_COMPLETE"}

\* The two queues in a row: reading the stack's takes connection_open to the
\* state of the stack, reading the HCI queue the host to connection_open.
HostInv ==
    /\ LinkInv
    /\ events \in Seq(Events) /\ loop \in {"tick", "drain"}
    /\ connection_open \in BOOLEAN /\ host_link \in BOOLEAN
    /\ Tells(LinkOn, LinkOff, events, connection_open, conn # None)
    /\ loop = "tick" => connection_open = (conn # None)
    /\ hci_events \in Seq(HostEvents)
    /\ ~overflowed => Tells(HostOn, HostOff, hci_events, host_link, connection_open)

(***************************************************************************)
(* What a step of the HCI layer does to the stack: nothing, a call of a    *)
(* command, a tick of the stack, or the drain of Hci::tick.                *)
(***************************************************************************)
LEMMA StackSteps ==
    ASSUME EnableInv, LinkInv, [HciNext]_hciVars
    PROVE  \/ UNCHANGED vars /\ UNCHANGED connection_open
           \/ /\ handle_command /\ [Next]_vars /\ StepReports
              /\ UNCHANGED <<conn, loop, connection_open>>
           \/ /\ stack_ticks /\ [Next]_vars /\ StepReports
              /\ loop' = "drain" /\ UNCHANGED connection_open
           \/ tick
<1> USE DEF vars, advVars, scanVars, linkVars, stack, flags
<1>1. CASE \/ host_writes \/ feed_type \/ feed_byte \/ feed_overrun \/ feed_other
           \/ hci_next_event \/ UNCHANGED hciVars
  BY <1>1 DEF host_writes, feed_type, feed_byte, feed_overrun, feed_other, LastByte,
     hci_next_event, hciVars
<1>2. CASE handle_command
  <2>1. CASE UNCHANGED <<stack, connection_open>>
    BY <2>1
  <2>2. ASSUME gap_adv_start \/ gap_adv_stop \/ gap_scan_start
                \/ gap_connect \/ gap_scan_stop
        PROVE  Next /\ StepReports
    BY <2>2, CallReports DEF LinkInv, Next
  <2>3. CASE AdvEnable
    <3>1. UNCHANGED <<conn, loop, connection_open>>
      BY <2>3, AdvTried DEF EnableInv
    <3>2. gap_adv_start \/ gap_adv_stop \/ UNCHANGED stack
      BY <2>3 DEF AdvEnable, Tried
    <3> QED BY <1>2, <2>1, <2>2, <3>1, <3>2
  <2>4. CASE ScanEnable
    <3>1. UNCHANGED <<conn, loop, connection_open>>
      BY <2>4, ScanTried DEF EnableInv
    <3>2. gap_scan_start \/ gap_scan_stop \/ UNCHANGED stack
      BY <2>4 DEF ScanEnable, Tried
    <3> QED BY <1>2, <2>1, <2>2, <3>1, <3>2
  <2>5. CASE CreateConnection
    <3>1. UNCHANGED <<conn, loop, connection_open>>
      BY <2>5, ConnectTried
    <3>2. gap_connect \/ UNCHANGED stack
      BY <2>5 DEF CreateConnection, Tried
    <3> QED BY <1>2, <2>1, <2>2, <3>1, <3>2
  <2>6. CASE UNCHANGED <<stack, flags>>
    BY <2>1, <2>6
  <2> QED BY <1>2, <2>3, <2>4, <2>5, <2>6 DEF handle_command
<1>3. CASE stack_ticks
  <2>1. /\ adv_tick \/ scan_tick \/ conn_tick
        /\ UNCHANGED connection_open
    BY <1>3 DEF stack_ticks
  <2>2. Next /\ StepReports
    BY <2>1, AdvTickReports, ScanTickReports, ConnTickReports DEF LinkInv, Next
  <2>3. loop' = "drain"
    BY <2>1 DEF adv_tick, AdvTickStops, AdvTickAdvertises,
       AdvTickAccepts, scan_tick, ScanTickStops,
       ScanTickNothing, ScanTickReport, ScanTickAux,
       ScanTickConnects, conn_tick, ConnTickNoLink,
       ConnTickTimeout, ConnTickWrapped, ConnTickRemoteEnd,
       ConnTickHostEnd, ConnTickSilent, ConnTickHeard,
       ConnTickMoreDataLost, Close, GoesOn, Tick
  <2> QED BY <1>3, <2>1, <2>2, <2>3
<1> QED BY <1>1, <1>2, <1>3 DEF HciNext

(***************************************************************************)
(* LinkAfter is what the events tell.                                      *)
(***************************************************************************)
LEMMA LinkAfterTold ==
    ASSUME NEW evts \in Seq(Events), NEW before \in BOOLEAN, NEW after,
           Tells(LinkOn, LinkOff, evts, before, after)
    PROVE  LinkAfter(evts, before) <=> after
<1>1. Len(evts) \in Nat
  BY LenProperties
<1>2. CASE \A i \in 1 .. Len(evts) : evts[i] \notin LinkOn \cup LinkOff
  BY <1>2 DEF Tells, LinkAfter, LinkOn, LinkOff, Connected
<1>3. CASE ~ \A i \in 1 .. Len(evts) : evts[i] \notin LinkOn \cup LinkOff
  <2>1. PICK i \in 1 .. Len(evts) :
          /\ evts[i] \in LinkOn \cup LinkOff
          /\ \A j \in 1 .. Len(evts) : j > i => evts[j] \notin LinkOn \cup LinkOff
          /\ after <=> evts[i] \in LinkOn
    BY <1>3 DEF Tells
  <2>2. CASE evts[i] \in LinkOn
    BY <2>1, <2>2 DEF LinkAfter, LinkOn, LinkOff, Connected
  <2>3. CASE evts[i] \notin LinkOn
    <3>1. evts[i] = "Disconnected"
      BY <2>1, <2>3 DEF LinkOff
    <3>2. \A k \in 1 .. Len(evts) : evts[k] \in Connected => i > k
      <4> SUFFICES ASSUME NEW k \in 1 .. Len(evts), evts[k] \in Connected, ~(i > k) PROVE FALSE
        OBVIOUS
      <4>1. k # i
        BY <3>1 DEF Connected
      <4>2. k > i
        BY <4>1
      <4> QED BY <2>1, <4>2 DEF LinkOn, Connected
    <3> QED BY <2>1, <2>3, <3>1, <3>2 DEF LinkAfter
  <2> QED BY <2>2, <2>3
<1> QED BY <1>2, <1>3

(***************************************************************************)
(* What is passed on to the host tells it the same.                        *)
(***************************************************************************)
LEMMA PassedOn ==
    ASSUME NEW evts \in Seq(Reported), NEW before, NEW after
    PROVE  /\ ForHostAll(evts) \in Seq(HostEvents \ AnswerEvents)
           /\ Tells(LinkOn, LinkOff, evts, before, after)
                => Tells(HostOn, HostOff, ForHostAll(evts), before, after)
<1> DEFINE h == ForHostAll(evts)
<1>1. Len(evts) \in Nat /\ \A i \in 1 .. Len(evts) : evts[i] \in Reported
  BY LenProperties, ElementOfSeq
<1>2. ASSUME NEW e \in Reported
      PROVE  /\ ForHost(e) \in HostEvents \ AnswerEvents
             /\ ForHost(e) \in HostOn <=> e \in LinkOn
             /\ ForHost(e) \in HostOff <=> e \in LinkOff
  <2> DEFINE none == << >>
  <2>1. /\ e \in LinkOn => ForHost(e) = [code |-> "CONNECTION_COMPLETE", opcode |-> none]
        /\ e \in LinkOff => ForHost(e) = [code |-> "DISCONNECTION_COMPLETE", opcode |-> none]
        /\ e = "ScanReport" => ForHost(e) = [code |-> "ADVERTISING_REPORT", opcode |-> none]
    BY DEF ForHost, LinkOn, LinkOff, Connected
  <2>2. e \in LinkOn \/ e \in LinkOff \/ e = "ScanReport"
    BY DEF Reported, LinkOn, LinkOff, Connected
  <2>3. ~(e \in LinkOn /\ e \in LinkOff) /\ (e = "ScanReport" => e \notin LinkOn \cup LinkOff)
    BY DEF LinkOn, LinkOff
  <2>4. none \in Seq(Byte)
    BY EmptySeq
  <2> HIDE DEF none
  <2>5. CASE e \in LinkOn
    BY <2>1, <2>3, <2>4, <2>5 DEF HostEvents, Codes, HostOn, HostOff, AnswerEvents
  <2>6. CASE e \in LinkOff
    BY <2>1, <2>3, <2>4, <2>6 DEF HostEvents, Codes, HostOn, HostOff, AnswerEvents
  <2>7. CASE e = "ScanReport"
    BY <2>1, <2>3, <2>4, <2>7 DEF HostEvents, Codes, HostOn, HostOff, AnswerEvents
  <2> QED BY <2>2, <2>5, <2>6, <2>7
<1>3. h = [i \in 1 .. Len(evts) |-> ForHost(evts[i])]
  BY DEF ForHostAll
<1>4. /\ h \in Seq(HostEvents \ AnswerEvents) /\ Len(h) = Len(evts)
      /\ \A i \in 1 .. Len(evts) : h[i] = ForHost(evts[i])
  <2> HIDE DEF h
  <2> QED BY <1>1, <1>2, <1>3
<1> HIDE DEF h
<1>5. \A i \in 1 .. Len(evts) : /\ h[i] \in HostOn <=> evts[i] \in LinkOn
                                /\ h[i] \in HostOff <=> evts[i] \in LinkOff
  BY <1>1, <1>2, <1>4
<1>6. Tells(LinkOn, LinkOff, evts, before, after) => Tells(HostOn, HostOff, h, before, after)
  BY <1>4, <1>5 DEF Tells
<1> QED BY <1>4, <1>6 DEF h

HciInv == EnableInv /\ AnswerInv /\ HostInv

\* What Hci::tick passes on, if the queue has room for it.
LEMMA TickPassesOn ==
    ASSUME HciInv, tick
    PROVE  \/ overflowed' /\ hci_events' = << >>
           \/ \E h \in Seq(HostEvents \ AnswerEvents) :
                /\ ~overflowed /\ hci_events' = hci_events \o h
                /\ Tells(HostOn, HostOff, h, connection_open, conn # None)
<1> DEFINE t == Select(events, Reported)
<1>1. t \in Seq(Reported)
  <2>1. t \in Seq(Events \cap Reported)
    BY SelectType DEF HciInv, HostInv
  <2> QED BY <2>1, SeqMonotonic
<1>2. LinkOn \cup LinkOff \subseteq Reported
  BY DEF LinkOn, LinkOff, Reported, Connected
<1>3. Tells(LinkOn, LinkOff, t, connection_open, conn # None)
  BY <1>2, TellsSelect DEF HciInv, HostInv
<1>4. \/ ~overflowed /\ hci_events' = hci_events \o ForHostAll(t)
      \/ overflowed' /\ hci_events' = << >>
  <2>1. push_events(ForHostAll(t))
    BY DEF tick
  <2> QED BY <2>1, PushedOrNot
<1> HIDE DEF t
<1>5. ForHostAll(t) \in Seq(HostEvents \ AnswerEvents)
      /\ Tells(HostOn, HostOff, ForHostAll(t), connection_open, conn # None)
  BY <1>1, <1>3, PassedOn
<1> QED BY <1>4, <1>5

\* What handle_command adds to the queue, if it has room for it.
LEMMA AnswerPushed ==
    ASSUME AnswerInv, handle_command
    PROVE  \/ overflowed' /\ hci_events' = << >>
           \/ /\ ~overflowed
              /\ hci_events' = Append(hci_events, [code |-> "ANSWER", opcode |-> Opcode])
<1> DEFINE e == [code |-> "ANSWER", opcode |-> Opcode]
<1>1. push_events(<<e>>) /\ LastByte(HCI_COMMAND)
  BY DEF handle_command, Answer
<1>2. e \in HostEvents
  BY <1>1, CommandEnds DEF HostEvents, Codes
<1> HIDE DEF e
<1>3. hci_events \o <<e>> = Append(hci_events, e)
  BY <1>2, AppendIsConcat DEF AnswerInv
<1>4. \/ ~overflowed /\ hci_events' = hci_events \o <<e>>
      \/ overflowed' /\ hci_events' = << >>
  BY <1>1, PushedOrNot
<1> QED BY <1>3, <1>4 DEF e

\* Every step keeps the answers in step with the commands.
LEMMA AnswerStep == ASSUME HciInv, [HciNext]_hciVars PROVE AnswerInv'
<1>1. AnswerInv /\ FramerInv
  BY DEF HciInv, AnswerInv
<1>2. ASSUME FramerInv', UNCHANGED <<queue, answered>>, Commands' = Commands
      PROVE  AnswerInv'
  <2>1. UNCHANGED <<hci_events, overflowed>>
    BY <1>2 DEF queue
  <2>2. Answers' = Answers
    BY <1>2, <2>1 DEF Answers, AnswerEvents
  <2> QED BY <1>1, <1>2, <2>1, <2>2 DEF AnswerInv, AnsweredOnceInOrder
<1>3. CASE host_writes
  <2>1. UNCHANGED <<queue, answered>>
    BY <1>3 DEF host_writes
  <2> QED BY <1>1, <1>2, <1>3, <2>1, WriteFramed, CommandWritten
<1>4. CASE feed_type
  <2>1. line # << >> /\ UNCHANGED <<queue, answered, written>>
    BY <1>4 DEF feed_type, host
  <2>2. FramerInv' /\ Last' = Last /\ (line' = << >> => Last[1] # HCI_COMMAND)
    BY <1>1, <1>4, TypeFramed
  <2> QED BY <1>1, <1>2, <2>1, <2>2, CommandGoesOn
<1>5. CASE feed_byte
  <2>1. line # << >> /\ UNCHANGED <<queue, answered, written>>
    BY <1>5 DEF feed_byte, host
  <2>2. FramerInv' /\ Last' = Last /\ line' # << >>
    BY <1>1, <1>5, ByteFramed
  <2> QED BY <1>1, <1>2, <2>1, <2>2, CommandGoesOn
<1>6. CASE feed_other
  <2>1. PICK type \in {HCI_ACL_DATA, HCI_EVENT} : LastByte(type)
    BY <1>6 DEF feed_other
  <2>2. type \in PacketTypes /\ type # HCI_COMMAND
    BY DEF PacketTypes, HCI_COMMAND, HCI_ACL_DATA, HCI_EVENT
  <2>3. /\ FramerInv' /\ Last' = Last /\ line # << >> /\ written' = written
        /\ Last[1] # HCI_COMMAND
    BY <1>1, <2>1, <2>2, LastByteFramed
  <2>4. UNCHANGED <<queue, answered>>
    BY <1>6 DEF feed_other, LastByte, host
  <2> QED BY <1>1, <1>2, <2>3, <2>4, CommandGoesOn
<1>7. CASE handle_command
  <2>1. LastByte(HCI_COMMAND) /\ answered' = answered
    BY <1>7 DEF handle_command, LastByte, host
  <2>2. FramerInv'
    <3>1. HCI_COMMAND \in PacketTypes
      BY DEF PacketTypes
    <3> QED BY <1>1, <2>1, <3>1, LastByteFramed
  <2>3. Commands' = Append(Commands, Opcode) /\ Opcode \in Seq(Byte)
    BY <1>1, <2>1, CommandEnds
  <2>4. CASE ~overflowed /\ hci_events' = Append(hci_events, [code |-> "ANSWER", opcode |-> Opcode])
    <3>1. hci_events' \in Seq(HostEvents) /\ Answers' = Append(Answers, Opcode)
      BY <1>1, <2>1, <2>3, <2>4, AnswerQueued
    <3> QED BY <1>1, <2>1, <2>2, <2>3, <2>4, <3>1 DEF AnswerInv, AnsweredOnceInOrder
  <2>5. CASE overflowed' /\ hci_events' = << >>
    BY <1>1, <2>1, <2>2, <2>5, EmptySeq DEF AnswerInv, AnsweredOnceInOrder
  <2> QED BY <1>1, <1>7, <2>1, <2>4, <2>5, AnswerPushed
<1>8. ASSUME UNCHANGED <<framer, line, written>>
      PROVE  FramerInv' /\ Commands' = Commands
  BY <1>1, <1>8 DEF framer, FramerInv, FramerTypes, LineIsEnd, InPacket, OutsidePacket,
     Last, Commands, CommandPackets
<1>9. CASE tick
  <2>1. UNCHANGED <<framer, line, written, answered>>
    BY <1>9 DEF tick, host
  <2>2. CASE overflowed' /\ hci_events' = << >>
    BY <1>1, <1>8, <2>1, <2>2, EmptySeq DEF AnswerInv, AnsweredOnceInOrder
  <2>3. CASE ~(overflowed' /\ hci_events' = << >>)
    <3>1. PICK h \in Seq(HostEvents \ AnswerEvents) :
            ~overflowed /\ hci_events' = hci_events \o h
      BY <1>9, <2>3, TickPassesOn
    <3>2. hci_events' \in Seq(HostEvents) /\ Answers' = Answers
      BY <1>1, <2>1, <3>1, OthersQueued
    <3> QED BY <1>1, <1>8, <2>1, <3>1, <3>2 DEF AnswerInv, AnsweredOnceInOrder
  <2> QED BY <2>2, <2>3
<1>10. CASE hci_next_event
  <2>1. UNCHANGED <<framer, line, written>> /\ overflowed' = overflowed
    BY <1>10 DEF hci_next_event
  <2> QED BY <1>1, <1>8, <1>10, <2>1, AnswerDelivered DEF AnswerInv, AnsweredOnceInOrder
<1>11. CASE feed_overrun \/ stack_ticks \/ UNCHANGED hciVars
  <2>1. UNCHANGED <<framer, line, written>> /\ UNCHANGED <<queue, answered>>
    BY <1>11 DEF feed_overrun, stack_ticks, hciVars, host
  <2> QED BY <1>2, <1>8, <2>1
<1> QED
  BY <1>3, <1>4, <1>5, <1>6, <1>7, <1>9, <1>10, <1>11 DEF HciNext

\* The stack's side of the invariant: what connection_open is told.
LEMMA StackSideStep ==
    ASSUME HciInv, [HciNext]_hciVars
    PROVE  /\ LinkInv'
           /\ events' \in Seq(Events) /\ loop' \in {"tick", "drain"}
           /\ connection_open' \in BOOLEAN
           /\ Tells(LinkOn, LinkOff, events', connection_open', conn' # None)
           /\ loop' = "tick" => connection_open' = (conn' # None)
<1> USE DEF HciInv, HostInv
<1>1. CASE UNCHANGED vars /\ UNCHANGED connection_open
  <2>1. LinkInv'
    BY <1>1, LinkStep
  <2>2. UNCHANGED <<events, loop, conn, connection_open>>
    BY <1>1 DEF vars, linkVars
  <2> QED BY <2>1, <2>2
<1>2. ASSUME StepReports, [Next]_vars, UNCHANGED connection_open,
             loop' = "drain" \/ UNCHANGED <<conn, loop>>
      PROVE  /\ LinkInv'
             /\ events' \in Seq(Events) /\ loop' \in {"tick", "drain"}
             /\ connection_open' \in BOOLEAN
             /\ Tells(LinkOn, LinkOff, events', connection_open', conn' # None)
             /\ loop' = "tick" => connection_open' = (conn' # None)
  <2>1. LinkInv'
    BY <1>2, LinkStep
  <2>2. PICK evts \in Seq(Events) : events' = events \o evts /\ Told(evts)
    BY <1>2 DEF StepReports, Truthful, Report
  <2>3. events' \in Seq(Events)
    BY <2>2, ConcatProperties
  <2>4. Tells(LinkOn, LinkOff, events \o evts, connection_open, conn' # None)
    BY <2>2, TellsConcat DEF Told
  <2>5. loop' \in {"tick", "drain"} /\ (loop' = "tick" => connection_open' = (conn' # None))
    BY <1>2
  <2> QED BY <1>2, <2>1, <2>2, <2>3, <2>4, <2>5
<1>3. CASE tick
  <2>1. /\ events' = << >> /\ loop' = "tick" /\ UNCHANGED <<conn, radio>>
        /\ connection_open' = LinkAfter(events, connection_open)
    BY <1>3 DEF tick
  <2>2. LinkAfter(events, connection_open) <=> conn # None
    BY LinkAfterTold
  <2>3. LinkInv'
    BY <2>1 DEF LinkInv, RadioBackToAdvertising
  <2>4. connection_open' = (conn' # None)
    BY <2>1, <2>2 DEF LinkAfter
  <2>5. Tells(LinkOn, LinkOff, << >>, connection_open', conn' # None)
    BY <2>4, TellsNone
  <2>6. events' \in Seq(Events)
    BY <2>1, EmptySeq
  <2> QED BY <2>1, <2>3, <2>4, <2>5, <2>6
<1> QED BY <1>1, <1>2, <1>3, StackSteps

\* The host's side of the invariant: what the host is told.
LEMMA HostSideStep ==
    ASSUME HciInv, [HciNext]_hciVars
    PROVE  /\ hci_events' \in Seq(HostEvents) /\ host_link' \in BOOLEAN
           /\ ~overflowed' =>
                Tells(HostOn, HostOff, hci_events', host_link', connection_open')
<1> USE DEF HciInv, HostInv
<1>1. hci_events' \in Seq(HostEvents)
  BY AnswerStep DEF AnswerInv
<1>2. CASE UNCHANGED <<hci_events, overflowed, host_link, connection_open>>
  BY <1>2
<1>3. CASE \/ host_writes \/ feed_type \/ feed_byte \/ feed_overrun \/ feed_other
           \/ stack_ticks \/ UNCHANGED hciVars
  BY <1>2, <1>3 DEF host_writes, feed_type, feed_byte, feed_overrun, feed_other, LastByte,
     stack_ticks, hciVars, host, flags, queue
<1>4. CASE handle_command
  <2> DEFINE e == [code |-> "ANSWER", opcode |-> Opcode]
  <2>1. host_link' = host_link /\ LastByte(HCI_COMMAND)
    BY <1>4 DEF handle_command, LastByte, host
  <2>2. connection_open' = connection_open
    BY <1>4 DEF handle_command, AdvEnable, ScanEnable, CreateConnection, flags
  <2>3. e \in HostEvents /\ e \notin HostOn \cup HostOff
    <3>1. Opcode \in Seq(Byte)
      BY <2>1, CommandEnds
    <3> QED BY <3>1 DEF HostEvents, Codes, HostOn, HostOff
  <2>4. overflowed' \/ (~overflowed /\ hci_events' = Append(hci_events, e))
    BY <1>4, AnswerPushed
  <2> HIDE DEF e
  <2>5. ~overflowed =>
            Tells(HostOn, HostOff, Append(hci_events, e), host_link, connection_open)
    BY <2>3, TellsAppend
  <2> QED BY <1>1, <2>1, <2>2, <2>4, <2>5
<1>5. CASE tick
  <2>1. UNCHANGED <<host_link, conn>> /\ loop' = "tick"
    BY <1>5 DEF tick, host
  <2>2. CASE overflowed'
    BY <1>1, <2>1, <2>2
  <2>3. CASE ~overflowed'
    <3>1. PICK h \in Seq(HostEvents \ AnswerEvents) :
            /\ ~overflowed /\ hci_events' = hci_events \o h
            /\ Tells(HostOn, HostOff, h, connection_open, conn # None)
      BY <1>5, <2>3, TickPassesOn
    <3>2. h \in Seq(HostEvents)
      BY SeqMonotonic
    <3>3. Tells(HostOn, HostOff, hci_events \o h, host_link, conn # None)
      BY <3>1, <3>2, TellsConcat
    <3>4. connection_open' = (conn # None)
      BY <2>1, StackSideStep
    <3> QED BY <1>1, <2>1, <3>1, <3>3, <3>4
  <2> QED BY <2>2, <2>3
<1>6. CASE hci_next_event
  <2> DEFINE e == Head(hci_events)
  <2>1. /\ hci_events # << >> /\ hci_events' = Tail(hci_events)
        /\ connection_open' = connection_open /\ overflowed' = overflowed
        /\ host_link' = CASE e.code = "CONNECTION_COMPLETE"    -> TRUE
                          [] e.code = "DISCONNECTION_COMPLETE" -> FALSE
                          [] OTHER                             -> host_link
    BY <1>6 DEF hci_next_event, flags
  <2>2. e \in HostEvents
    BY <2>1
  <2>3. /\ e \in HostOn => host_link' = TRUE
        /\ e \in HostOff => host_link' = FALSE
        /\ e \notin HostOn \cup HostOff => host_link' = host_link
        /\ e \in HostOff => e \notin HostOn
    <3> HIDE DEF e
    <3>1. /\ e \in HostOn <=> e.code = "CONNECTION_COMPLETE"
          /\ e \in HostOff <=> e.code = "DISCONNECTION_COMPLETE"
      BY <2>2 DEF HostOn, HostOff
    <3> QED BY <2>1, <3>1
  <2>4. /\ host_link' \in BOOLEAN
        /\ e \in HostOn \cup HostOff => (host_link' <=> e \in HostOn)
        /\ e \notin HostOn \cup HostOff => (host_link' <=> host_link)
    <3> HIDE DEF e
    <3>1. CASE e \in HostOn
      BY <2>3, <3>1
    <3>2. CASE e \in HostOff
      BY <2>3, <3>2
    <3>3. CASE e \notin HostOn \cup HostOff
      BY <2>3, <3>3
    <3> QED BY <3>1, <3>2, <3>3
  <2>5. ~overflowed =>
            Tells(HostOn, HostOff, Tail(hci_events), host_link', connection_open)
    BY <2>1, <2>4, TellsTail
  <2> QED BY <1>1, <2>1, <2>4, <2>5
<1> QED BY <1>3, <1>4, <1>5, <1>6 DEF HciNext

(***************************************************************************)
(* The invariants of the HCI layer hold together.                          *)
(***************************************************************************)
LEMMA HciAlways == HciSpec => []HciInv
<1>1. HciInit => HciInv
  <2> SUFFICES ASSUME HciInit PROVE HciInv
    OBVIOUS
  <2> USE DEF HciInit, Init
  <2>1. EnableInv
    BY DEF EnableInv, EnableInEffect, States
  <2>2. FramerInv
    BY EmptySeq DEF FramerInv, FramerTypes, LineIsEnd, InPacket, OutsidePacket
  <2>3. /\ hci_events \in Seq(HostEvents) /\ answered \in Seq(Seq(Byte))
        /\ events \in Seq(Events)
    BY EmptySeq
  <2>4. AnsweredOnceInOrder
    <3>1. AllCommands = << >> /\ Queued = << >>
      BY SelectEmpty DEF AllCommands, Queued
    <3>2. OpcodesIn(<< >>) = << >> /\ OpcodesOf(<< >>, 0) = << >>
      BY DEF OpcodesIn, OpcodesOf
    <3>3. Commands = << >> /\ Answers = << >>
      BY <3>1, <3>2, CommandsAre
    <3> QED BY <3>3 DEF AnsweredOnceInOrder
  <2>5. LinkInv
    BY DEF LinkInv, RadioBackToAdvertising
  <2>6. /\ Tells(LinkOn, LinkOff, events, connection_open, conn # None)
        /\ Tells(HostOn, HostOff, hci_events, host_link, connection_open)
    BY TellsNone DEF Tells
  <2> QED BY <2>1, <2>2, <2>3, <2>4, <2>5, <2>6 DEF HciInv, AnswerInv, HostInv
<1>2. HciInv /\ [HciNext]_hciVars => HciInv'
  <2> SUFFICES ASSUME HciInv, [HciNext]_hciVars PROVE HciInv'
    OBVIOUS
  <2>1. EnableInv'
    BY EnableStep DEF HciInv
  <2> QED BY <2>1, AnswerStep, StackSideStep, HostSideStep DEF HciInv, HostInv
<1> QED BY <1>1, <1>2, PTL DEF HciSpec

(***************************************************************************)
(* Each command is answered once, with its opcode, in order, however its   *)
(* bytes fall between the ticks of the stack, and whatever the packets     *)
(* around it contain: H4Framer::feed and handle_command.  This ends where  *)
(* push_event first finds the ring of the HCI events full.                 *)
(***************************************************************************)
THEOREM EachCommandAnswered == HciSpec => []AnsweredOnceInOrder
<1>1. HciInv => AnsweredOnceInOrder
  BY DEF HciInv, AnswerInv
<1> QED BY <1>1, HciAlways, PTL

(***************************************************************************)
(* Once both queues are empty, the host and connection_open agree with the *)
(* stack on whether there is a link, the host only as long as its ring has *)
(* not overflowed: Hci::tick and Hci::next_event.                          *)
(***************************************************************************)
THEOREM HostFollowsLink == HciSpec => []HostKnowsLink
<1>1. HciInv => HostKnowsLink
  <2> SUFFICES ASSUME HostInv PROVE HostKnowsLink
    BY DEF HciInv
  <2>1. loop = "tick" => connection_open = (conn # None)
    BY DEF HostInv
  <2>2. hci_events = << >> /\ ~overflowed => host_link = connection_open
    BY DEF HostInv, Tells
  <2> QED BY <2>1, <2>2 DEF HostKnowsLink
<1> QED BY <1>1, HciAlways, PTL

(***************************************************************************)
(* Under the HCI layer, too, a ring of six cells is enough: the commands   *)
(* that reach the stack between two of its ticks, or between a tick and    *)
(* its drain, never make push_event find the ring full.                    *)
(***************************************************************************)
THEOREM RingNeverOverflowsUnderHci ==
    ASSUME EVENT_QUEUE_LEN >= 6
    PROVE  HciSpec => []NoEventDropped
<1>1. HciInit => QueueInv
  BY DEF HciInit, Init, QueueInv, Room, Startable
<1>2. QueueInv /\ HciInv /\ [HciNext]_hciVars => QueueInv'
  <2> SUFFICES ASSUME QueueInv, HciInv, [HciNext]_hciVars PROVE QueueInv'
    OBVIOUS
  <2>1. CASE tick
    <3>1. /\ events' = << >> /\ loop' = "tick" /\ ~dropped'
          /\ UNCHANGED <<adv_state, scan_state>>
      BY <2>1 DEF tick, QueueInv
    <3>2. Room' = Room /\ Room \in 0 .. 2
      BY <3>1, RoomIsBounded DEF Room
    <3> QED BY <3>1, <3>2 DEF QueueInv
  <2>2. CASE StepReports
    BY <2>2, ReportsFit DEF StepReports
  <2>3. CASE UNCHANGED vars
    BY <2>3 DEF vars, advVars, scanVars, QueueInv, Room
  <2> QED BY <2>1, <2>2, <2>3, StackSteps DEF HciInv, HostInv
<1>3. QueueInv => NoEventDropped
  BY DEF QueueInv, NoEventDropped
<1> QED BY <1>1, <1>2, <1>3, HciAlways, PTL DEF HciSpec

\* Inside a packet whose next byte finds the buffer full: it is a long one,
\* and so an ACL packet.
LEMMA OverrunByAcl ==
    ASSUME FramerInv, packet_type # None, ~Fits
    PROVE  Last[1] = HCI_ACL_DATA /\ Len(Last) > 1 + FRAME_LEN
<1> USE DEF FramerInv
<1>1. line # << >> /\ Last[1] = packet_type /\ Len(Last) = 1 + Len(buf) + Len(line)
  BY DEF InPacket
<1>2. Last \in Packets
  BY <1>1, LastIsPacket DEF LineIsEnd
<1>3. Len(buf) \in Nat /\ Len(line) \in Nat /\ Len(line) >= 1
  BY <1>1, NextByte
<1> DEFINE all == Len(Last)
           fed == Len(buf)
           left == Len(line)
<1>4. /\ all = 1 + fed + left /\ fed \in Nat /\ left \in Nat /\ left >= 1
      /\ ~(fed < FRAME_LEN) /\ FRAME_LEN \in Nat
  BY <1>1, <1>3, HciAssumption DEF Fits
<1> HIDE DEF all, fed, left
<1>5. all > 1 + FRAME_LEN /\ ~(all <= 1 + FRAME_LEN)
  BY <1>4
<1>6. Len(Last) > 1 + FRAME_LEN /\ ~(Len(Last) <= 1 + FRAME_LEN)
  BY <1>5 DEF all
<1>7. Last[1] \notin {HCI_COMMAND, HCI_EVENT}
  BY <1>2, <1>6, HciAssumption
<1>8. packet_type \in PacketTypes
  BY DEF FramerTypes
<1> QED BY <1>1, <1>6, <1>7, <1>8 DEF PacketTypes

(***************************************************************************)
(* H4Framer::feed writes beyond its buffer for no other packet than an ACL *)
(* packet longer than it, whatever came before and however the bytes fall  *)
(* between the ticks.                                                      *)
(***************************************************************************)
THEOREM OnlyLongAclPanics == HciSpec => []PanicsOnLongAcl
<1>1. HciInit => PanicsOnLongAcl
  BY DEF HciInit, PanicsOnLongAcl
<1>2. PanicsOnLongAcl /\ HciInv /\ [HciNext]_hciVars => PanicsOnLongAcl'
  <2> SUFFICES ASSUME PanicsOnLongAcl, HciInv, [HciNext]_hciVars PROVE PanicsOnLongAcl'
    OBVIOUS
  <2>1. CASE feed_overrun
    <3>1. packet_type # None /\ ~Fits /\ written' = written
      BY <2>1 DEF feed_overrun, host
    <3>2. Last[1] = HCI_ACL_DATA /\ Len(Last) > 1 + FRAME_LEN
      BY <3>1, OverrunByAcl DEF HciInv, AnswerInv
    <3> QED BY <3>1, <3>2 DEF PanicsOnLongAcl, Last
  <2>2. CASE UNCHANGED hciVars
    BY <2>2 DEF hciVars, host, PanicsOnLongAcl
  <2>3. CASE HciNext /\ ~feed_overrun
    <3>1. ~panicked'
      BY <2>3 DEF HciNext, host_writes, feed_type, feed_byte, feed_other, handle_command,
         LastByte, tick, hci_next_event, stack_ticks, Running
    <3> QED BY <3>1 DEF PanicsOnLongAcl
  <2> QED BY <2>1, <2>2, <2>3
<1> QED BY <1>1, <1>2, HciAlways, PTL DEF HciSpec
=============================================================================
