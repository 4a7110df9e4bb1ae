# TLA+ models of nrf-ble

nrf-ble is a Bluetooth Low Energy stack for the nRF52: a link layer on the RADIO
and TIMER0 peripherals (`src/src/hw`), the PDU codecs it needs (`src/src/ll`),
an advertising data builder (`src/src/gap`), and an HCI controller layer on top
(`src/src/hci.rs`).  The stack is one object, `Ble`, without interrupts or
threads: the application calls `gap_*` operations and then either drives the
`*_tick` methods or hands control to `adv_forever`, `scan_forever` or
`conn_forever`, which wait for the timer, tick, and give the queued events to a
callback, which may itself call `gap_*`.  What is concurrent is the world: the
timer that keeps counting, the peer, the radio channel, and the power supply.

The models cover the parts whose behaviour depends on that order of things.

## Inventory

| Component | State | Operations | What is hard | What makes it correct |
|---|---|---|---|---|
| Event queue (`ble.rs`, again in `hci.rs`) | ring of 8 cells, head, tail | `push_event`, `next_event`, `drain_events` | overflow: the tail skips a cell that stays full | at most once, FIFO, lost only when overwritten |
| GAP and connection life cycle (`ble.rs`) | `adv_state`, `scan_state`, `connect_target`, `periodic_sync`, `conn`, the access address in the radio | `gap_adv_*`, `gap_scan_*`, `gap_connect`, `gap_terminate`, `adv_tick`, `scan_tick`, `conn_tick` | calls from callbacks, a link that ends in six ways or is replaced, stops that race a CONNECT_REQ | the application's picture is right; the radio recovers; stops and terminations take effect |
| Scheduler (`ble.rs`, `timers.rs`) | TIMER0, CC0, its event, `IntervalAccum`, channel index | the waits and windows inside the ticks and loops | one compare register for everything, a 24-bit counter against u32 deadlines | no drift, exact cycles, no hang |
| Transmit slot, fragmentation, reassembly (`conn.rs`) | `tx_att*`, `tx_frag_offset`, `tx_cid`, `tx_pdu_max`, `pending_control`, `rx_l2cap*` | `queue_*`, `l2cap_send`, `tx_fragment`, `respond`, `handle_l2cap`, LL_LENGTH | four users of one slot, sizes that change between fragments | messages arrive whole, once, in order, on their channel; no index leaves its buffer |
| Reception, acknowledgement (`conn.rs`, `radio.rs`, `pdu.rs`) | `sn`, `nesn` | `event`, `respond` | lost and repeated packets, the MD bit, acknowledgements that are not looked at | what is acknowledged was handled; the peer gets on |
| Connection timing (`conn.rs`, `ble.rs`) | `anchor`, `last_rx`, `event_counter`, `pending_update` | `event`, `event_master`, the supervision check | four counters that wrap, one compare register, instants | a timeout means silence; events begin at their anchor; a silent link ends |
| LL control, encryption start (`conn.rs`, `ccm.rs`) | `pending_control`, `encrypted`, `packet_counter` | `handle_ll_control` | one slot for answers | no answer is replaced by another |
| Credit-based channels (`conn.rs`) | `coc` | signaling handlers, `l2cap_send`, `rx_coc_sdu` | credits of two directions, in the shared slot | credits are neither made nor forgotten |
| ATT server, GATT client (`conn.rs`) | `pending_request`, `gatt_result`, `nus_cccd` | `handle_att`, `gatt_*` | answers that are late or not expected | a result belongs to its request; exchanges end |
| Pairing (`smp.rs`, `conn.rs`) | `smp`, `pairing_in_progress` | `handle_smp` | messages in any order, pairings begun anew | a key is made of a value that fits the confirm value for the request and response in force |
| Bond stores (`bond_flash.rs`, `conn.rs`) | RAM cache, flash page | `save`, `find`, `flush`, `open` | power loss while the page is rewritten | no torn, duplicate or resurrected bond |
| HCI (`hci.rs`) | H4 framer, event ring, `adv_enabled`, `scan_enabled`, `connection_open` | `feed`, `on_packet`, `tick`, `next_event` | packets among any bytes, errors that are dropped, three views of one state | each command one answer; host and stack agree |
| RADIO driver (`radio.rs`) | registers | `init`, `transmit`, `receive_*` | I/O | which packets can be heard |
| Codecs, CRC, whitening, channels, addresses, AD builder (`ll/*`, `gap/*`) | none, or a cursor | pure functions | data | round trips, published vectors |

`Ble` owns the queue, the timer, the radio and at most one `Conn`.  Ticks push
events; loops pop them and call the application; `conn_tick` calls
`Conn::event`, which shares the radio and CC0 with advertising and scanning.

The places where this can go wrong unnoticed are listed, with their lines, under
`hazards` in `PROJECT.json`.

## Modules

| Module | Models | Composition |
|---|---|---|
| `EventRing` | the ring as a value: push, pop | used by `EventQueue` |
| `EventQueue` | the ring between a stack that pushes and an application that pops | refines `LossyHandover` |
| `LossyHandover` | abstract: an event is handed over at most once, and dropped only when `Capacity` later ones have been offered | |
| `Ble` | the `Ble` object, its event queue, and the application's loop | `EventQueue` justifies its FIFO queue |
| `Scheduler`, `MCScheduler` | TIMER0 and the two loops on it | |
| `L2cap` | one direction of a connection: the slot, the fragmenter and the peer's reassembly | |
| `LinkLayer` | a slave with its length check, sequence numbers and control answers, a peer that follows the protocol, and a channel that loses packets | gives `Services` its loss: nothing is sent again |
| `Services` | two ends of a connection, each with its ATT server, GATT client, credit-based channel and slot | |
| `ConnTiming`, `MCConnTiming` | one end of a connection on TIMER0: anchors, listen windows, supervision timeout, updates | gives `Ble` its silent events and the choice `ConnTickWrapped` |
| `Pairing` | legacy pairing at one end, the start of encryption, bonds in RAM | |
| `Hci`, `MCHci` | the HCI layer between a host and the stack | extends `Ble`, whose operations it calls |
| `FlashBond` | `FlashBondStore` over a flash page and a power supply | |
| `MCBonds` | a device with one of the two stores of bonds | extends `Pairing` and `FlashBond` |
| `ConnProofs` | theorems about `ConnTiming` and `LinkLayer` | extends both |
| `HciProofs` | theorems about `Hci` and about `Ble` | extends `Hci` |
| the other `*Proofs` | theorems about the module they extend | |

Definitions keep the source's names where an operation is one step.  `map` in
`PROJECT.json` gives the lines each definition stands for.  Definitions introduced by a
comment beginning "Variant:" are deliberately wrong versions of the definition
after them; they are not part of any specification and serve to show that the
properties notice such a mistake.

**EventQueue.**  Events are numbered as they are pushed.  `push_event` and
`next_event` are the two actions; a `next_event` that returns `None` changes
nothing and is no step.  `delivered` and `overflowed` are history variables.

**Ble.**  Every operation takes `&mut self`, so each is one atomic step.  A tick
is split into one action per outcome (`AdvTickAccepts`, `ScanTickConnects`,
`ConnTickTimeout`, ...), each with all the events that outcome reports, in order.  The application
calls `gap_*` at any time and otherwise behaves like the `*_forever` loops: a
tick, then `next_event` until the queue is empty (`loop`).  The connection is
reduced to its role, `terminate_pending`, whether `rx_data` holds anything, and
the number of silent events.  `radio` is the access address and CRC the RADIO
holds: `Conn::event` sets the link's, `radio.init()` restores the advertising
ones, and nothing on an advertising channel is heard in between.  That a 24-bit
wrap makes the supervision check fire on a live link is a choice
(`ConnTickWrapped`).  `view` is what the delivered events told the application.

**Scheduler.**  The unit is the 32 µs tick.  The stack's own instructions take no
time; time passes in `WaitCompare`, in the receive windows, in the busy waits and in
the application's callback between two ticks (`Callback`).  `At` wraps as the
timer does, deadlines and CC0 do not (u32 sums), the comparator sees the low
bits.  A tick that takes time is two actions: its beginning (`AdvTickLegacy`,
`ScanTick`, ...) and its end (`AdvHeard`, `AdvUnheard`, ...).  `due`,
`disturbed` and `late` are history: the first counts down to the time at which the next
scan cycle should start, the second records that this cycle met an extended or periodic
advertiser or a deadline beyond the timer, the third that it ended when the
next was already due.  One loop runs at a time; advertising started from a
callback of `scan_forever`, which would fight for CC0, is not modelled.

**L2cap.**  A message is known by its position among the messages queued, and a
run of its bytes by that number and two offsets, so mixed messages are visible.
The application and the stack's own answers (ATT server, SMP, signaling) queue by the same
two actions, at any time, whether the slot is free or not.  `mixed` is history: the
messages that `queue_att` has put over one half sent, and those under them.
An index out of bounds in `tx_fragment` is a panic, after which nothing runs
(`fragment_panic`); the subtraction that underflows panics or wraps, as the build checks
arithmetic or not, and both are outcomes.
The peer runs the same `handle_l2cap`; a packet is handled in the step that
sends it, as there is no loss here.  A continuation that the peer takes for a
header is misread as anything its bytes could spell (`Misread`).

**LinkLayer.**  A PDU of the peer is known by its number; a message of the slave
by how many fragments are left.  The peer repeats a PDU until it is acknowledged
and takes a packet when it has the number it expects.  One action is one
connection event: heard by both, with the answer lost, or with the MD bit, after
which the slave listens again while the peer waits, so the event has no answer.
An LL_VERSION_IND is the exception: `handle_ll_control` answers it itself.
A packet of the peer that is lost is the same as nothing happening.  `handled` and
`heard` are history.

Before any of this `DataPdu::decode` compares the length in the header with the one
`receive_poll` reports, which is half of it: `buf[1] >> 1` is the layout in which
this code writes advertising headers, and reads them (`AdvHdr`), so that
advertising works, but data headers are written and decoded with the plain
length.  `divisor` is 2 as in the code or 1 as in the comment of `receive_poll`.
With 2 the first data PDU that is not empty ends the link
(`EventInvalid`), and `HalvedLengthStopsData` says that none is ever handled.  The other modules about
connections (`L2cap`, `Services`, `Pairing`, `ConnTiming`, and the events with data in
`Ble`) describe the code behind that check, for a `receive_poll` that does what its
comment says.

**Services.**  An end is a record and a handler a function of it, so that the two
ends run the same code.  `EventBothHeard` is one connection event: the master
sends what is in its slot, the slave handles it and sends what is then in its
own, and the master handles that.  Opcodes and first bytes are numbers because
messages can arrive on the wrong channel (`queue_att` does not set `tx_cid`), where
they mean something else.  Messages fit one PDU and discoveries find one
declaration or none.  `ref`, `granted`, `gone` and `peer_gone` are history.

**ConnTiming.**  The unit is the tick and code takes no time, as in `Scheduler`.
`EventBegins` is `conn_tick` up to the first wait, `WaitAnchor` and `Transmit`
are the master's way to its listen window, and `Receive`, `ReceiveGarbled` and
`WindowOver` end it.  The timer counts modulo `TimerMod`, anchors and deadlines are
u32, `event_counter` is u16.  The connection starts while the compare event of
the advertising or scanning loop is still to come (`Leftovers`).  `silence`, `wrapped`, `window`, `cut` and
`begun` are history.  Further packets of one event (MD) are left to `LinkLayer`.

**Pairing.**  `handle_smp` goes by the opcode alone, so each SMP message is an
action without a guard.  `c1` and `s1` are free terms: they agree only when
their arguments do.  The confirm value of the peer is any `c1` of any request and response, as
`handle_confirm` stores what it is given.  `saved` and `renewed` are history.

**Hci.**  The module extends `Ble`; the application of that module is
replaced by the HCI layer, and the specification is `HciSpec`.  The host writes a packet, `feed_type` and
`feed_byte` take it one byte at a time between ticks of the stack, and the byte
that completes it runs `handle_command` (or is ignored, `feed_other`).  Calls of
the stack that fail are dropped, as in the code.  `tick` moves all events of the
stack to the HCI queue, which the transport empties before the stack ticks again.  The
queue is followed up to its first overflow (`overflowed`), from where on it is
what `EventQueue` describes.  The byte after a full framer buffer panics
(`feed_overrun`).  `lapsed` is history: operations that ended, or never
began, without the host having disabled them.

**FlashBond.**  `flush` is one action per write, so `power_loss` can fall between
any two of them; a power loss in `erase_page` leaves any part of the page.
`open` is `load_page`.  The NVMC and the flash are external.  Assumed of them:
an erased cell (0xFF) matches neither the magic word nor a trailer, and an interrupted
erase leaves each of the header and the records either as it was or erased.

## Runs

| Run | Bounds | Shows |
|---|---|---|
| `event_queue` | 8 cells, 17 events | two complete overflows in every interleaving: `LostOnlyWhenOverwritten`, `FifoUntilOverflow`, `EveryEventDelivered`, and the refinement of `LossyHandover` |
| `ble` | 8 cells, a supervision timeout of 1 silent event | `NoEventDropped`, `SettledView`, `RadioBackToAdvertising`, `NoLinkAfterStop`, `StopCompletes`, `TerminateEndsLink` |
| `ble_conn_data` | the same | violation of `ConnDataReadable` |
| `l2cap` | 3 messages of 5, 70 (ATT), 6 or 40 bytes, payloads of 27, 62 and 251 | `HandledWhole`, `RightChannel`, `PanicCauses`, `AttDelivered` |
| `l2cap_dle` | 2 messages, payloads of 27 and 251 | violation of `FragmentFits` |
| `link_layer` | 4 PDUs of the peer, of 0, 1 or 27 bytes, 2 kinds of request, messages of 2 fragments, both divisors | `AcknowledgedIsHandled`, `InStepAfterFragment`, `AnswerNotReplaced`, `HalvedLengthStopsData` |
| `services` | 4 calls, 2 credits, SDUs of 0 and 5 bytes | `CreditsAccounted`, `Correlated`, `ExchangesEnd` |
| `conn_timing` | timer of 4096 ticks, u32 of 16384, u16 of 16; intervals of 6 and 7 units, timeouts of 10 and 20 ms; 2 packets | `TimeoutMeansSilence`, `AlignedAfterPacket`, `SilentLinkEnds` |
| `conn_timing_anchor` | a master, one start, callbacks that take no time | violation of `AnchorAligned` |
| `scheduler` | timer of 4096 ticks, a loop that may find a compare event pending, three intervals; windows of 30 in 33, 30 in 120 and 4 in 4 units; callbacks of 0 and 500 ticks | `DriftFree`, `CycleExactUndisturbed`, `WakesUndisturbed`, `LateOnlyWhenTight`, `StopReturns` |
| `bonds` | with a RAM store: one request or response of the peer besides the own ones, one random value, 2 slots, 3 peers, 2 keys; with a flash store: the same slots, peers and keys, records of two parts | `KeyConfirmed`, `LatestBond`; `OnlySavedBonds`, `OnePerPeer`, `FlushedIsDurable`, `NoOldBondAfterErase` |
| `hci` | three packets out of ten: commands with and without parameters, ACL data that ends like a command, a long ACL packet, an event, an idle byte; a framer of 6 bytes, a queue of 4 cells, `LE_CREATE_CONNECTION` with 2 parameter bytes instead of 25 | `AnsweredOnceInOrder`, `EnableInEffect`, `HostKnowsLink`, `PanicsOnLongAcl`, `CommandAnswered` |

Why the bounds are enough.  17 events fill 8 cells twice over and start a third
round, so each cell is written after having been skipped; the theorems cover every
length.  `Ble` has no data but what is listed; its queue is bounded by the
property `NoEventDropped` itself.  One silent event distinguishes a link that
may still be heard from one that has timed out; a longer timeout only repeats
the former.  70 bytes take three fragments of the default size and two of 62, so
the size can change in front of a middle and of a last fragment; 62 is the largest payload
that fits `tx_buf`, 251 the largest that is accepted; three messages
give each one a predecessor and a successor, and let one be queued over two others.  33 units leave a fraction (644
17/32 ticks) and room for the three windows but not for three callbacks, 120 leave room for
both, 4 for neither; an earlier loop may leave a pending compare event, with which the run may begin, a CC0 that is written over, and a periodic sync, which the loop can also acquire itself; the theorems cover any number of loops; starting at 3864
brings the end of the timer into the first cycle; the delays fall inside and beyond a
window.  Three packets let the
host enable, disable and enable again within one tick of the stack, and put a
command behind any other packet; 4 cells, of which 3 are used, overflow when the answers meet the events
of a tick, and 6 bytes hold every command and event of the run.  Three peers are one more than the store holds
(`bonds`).  Four PDUs take both sequence numbers round twice, so a
repetition can be mistaken for the PDU after next.  Four calls suffice to
open a channel, use up its two credits and have a request of either client in the way.
4096 ticks are about 17 of the shortest intervals: the timer wraps within a few
events, the u32 within the longest silence, and starting at 3700 puts a wrap
into the first window; a gap of 205 ticks outlasts a window of 63 and can bring the
next anchor into a transmission, one of 0 does neither; a packet after 5 ticks ends a window early, and one after 300 can only come in a
window whose deadline is out of reach.  One random value can be right or
wrong, as confirm values for other requests come as well, and a request can follow the confirm value that was for it, or replace the one of this end.

Deadlock is not checked where the bound on messages, events or loops ends a
behaviour (`EventQueue`, `L2cap`, `Scheduler`, `LinkLayer`, `Services`), a panic ends the
program (`L2cap`, `Hci`) or the link has been given up (`ConnTiming`, `LinkLayer`).

### Fairness

* `EventQueue`: `next_event` is called as long as it returns something.
  `drain_events` does that after each tick of every loop.
* `Ble`: the loop drains (weak fairness) and gets round to each of the three ticks
  again and again (strong fairness, as the application may alternate between them).  A
  `conn_tick` is only promised while there is a link.  No outcome of a tick is
  fair: a peer may be silent for ever.
* `L2cap`: connection events recur at every anchor (weak fairness of `respond`).
  `AttDelivered` names its own condition on the peer: that it stops putting control
  requests in front of the fragments.
* `Services`: connection events recur while there is something to send.  Either packet may be lost
  each time.
* `ConnTiming`: `conn_forever` goes on and the timer counts.  Packets need not come.
* `Hci`: the loop that drives the controller feeds the bytes that are there, calls
  `Hci::tick` and empties the queue.
* `Scheduler`: the timer counts, the callback returns, and a loop whose condition holds goes on.  Packets are
  not assumed to arrive.

### Where code and documentation disagree

Three runs refute a statement of the documentation.

* `conn_rx_data` cannot be used when `ConnData` is reported, as the
  documentation of `conn_forever` says: `conn_tick` empties the buffer before it
  queues the event (`ble_conn_data`).
* Connection events of a master are not "anchor-aligned" after an event without a packet:
  the compare event of the listen window is still pending when the next anchor
  is awaited, so that event begins at once, and the anchor runs ahead of time by
  an interval for each (`conn_timing_anchor`).
* "DLE (251-byte PDUs)": the size is accepted, and `tx_fragment` then indexes past the 64 bytes of
  `tx_buf` (`l2cap_dle`).

More disagreements are behaviours of the passing runs, and stated by their properties or
by the exceptions these make.

* `receive_poll` does not return "the PDU length" of a data PDU but half of it, and the link
  ends with the first one that is not empty: `HalvedLengthStopsData`.
* "data channel fragmentation/reassembly across events": an ATT message queued while
  another is half sent, an answer of the stack for example, keeps its offset, and the peer
  handles a mixture: the messages `mixed`, which `HandledWhole` excepts.
* "ATT and SMP channels": `queue_att` does not set `tx_cid`, so an ATT message follows
  the last message of another channel to that channel, as `RightChannel` says.
* "a scan cycle must be exactly one scan interval": with a window as long as the interval
  or a callback that outlasts what is left of it, CC0 is set to a count that has passed, and the
  next cycle waits for a full turn of the timer, nearly nine minutes.  Such cycles
  are `late`; `LateOnlyWhenTight` says when they can occur, and the invariant
  `CycleExact` alone is violated.
* "feed bytes, get complete packets": an ACL packet of more than 256 bytes of data
  overruns the framer's buffer: the one panic that `PanicsOnLongAcl` allows.
* "Awaiting the peer confirm": in that state a random value makes a key all the same,
  if it fits the confirm value of before the last request or response; this is the
  case `renewed` in `KeyConfirmed`.

Two more show when a constant of a run is changed: `services` with `Paced = FALSE`
violates `Correlated`, as a late answer is taken for the answer to the next
request, and `ExchangesEnd`, as two stray errors can answer each other for ever.

Seen while modelling, and kept in the models: `next_event` does not "pop the oldest
pending event" after an overflow, the skipped event comes after the younger ones;
the initiator of a credit-based channel stores the credits it is granted as the
peer's and can never send; a credit is sent to channel 0 as long as the
response has not come; the slave does not toggle `sn` for control answers and empty
PDUs, so that a peer discards one that follows an empty PDU as a repetition; it
does not wait for anchors, and a window without a packet is followed by the
next event at once; a master looks at no control PDU but LL_TERMINATE_IND, so
the handshake `gap_encrypt` begins does not complete; an update that stays pending
is applied again when `event_counter` comes round.
The proof of `AlignedAfterPacket` first failed on a case the run had not reached: an
event that begins too soon, after a window without a packet, may still be
transmitting when its own anchor comes, and the compare event of that anchor then ends
the wait for the next one, even though a packet ended the event early.  The
property excepts it and the run now has a gap that leads there.

Some properties state exactly how much holds.  `RightChannel` excepts an ATT message
sent after one on another channel, since `queue_att` does not set `tx_cid`.
`EnableInEffect` excepts an enable while the stop is
pending, which `Hci` confirms although `gap_adv_start` refused it.
`HandledWhole` excepts long messages on channels other than ATT, which are not
reassembled, and mixed messages; `PanicCauses` says that nothing else underflows or panics.
`KeyConfirmed` excepts this end's own confirm value when a request or a response has come since.
`AnsweredOnceInOrder`, `HostKnowsLink` and `CommandAnswered` end with an overflow of the HCI queue.  `TerminateEndsLink` excepts a peer that for ever announces more
data and sends none; `CycleExactUndisturbed` and
`WakesUndisturbed` except a cycle that has met an extended or periodic
advertiser or a deadline beyond the end of the timer, where a window without a packet lasts for ever, and one that follows a cycle without room, which `LateOnlyWhenTight` bounds.  `TimeoutMeansSilence` excepts a timer that has
wrapped since the last packet, `AlignedAfterPacket` an event that began too soon and
was still transmitting when its own anchor came, and `SilentLinkEnds` a listen window
that reaches across the end of the timer.  `CreditsAccounted` excepts ends that sent an ATT message on the
channel, where it passes for an SDU.

## Proofs

TLAPS checks these for every value of the constants that satisfies the named
assumptions of the modules.

* `EventQueueProofs`: `IndicesInRange`, `DeliveredAtMostOnce`,
  `FirstInFirstOut`, `KeptUntilOverwritten` and `Refinement`.  None of the
  properties is inductive: after an overflow head and tail say nothing
  about which cells are full.  The invariant therefore speaks of each cell's age, its distance
  behind the head: a full cell of age a holds exactly the event pushed a pushes
  ago (`CellsFresh`), that event is delivered if the cell is empty (`NothingLost`) and
  gone from the ring if it is delivered (`DeliveredGone`); before the first
  overflow the full cells are the youngest ones and the tail is the oldest of
  them (`InOrder`).
* `SchedulerProofs`: `SchedulesNeverDrift`.  `Remainder` gives
  `IntervalAccum::frac` its meaning: ticks handed out, times 32, plus `frac`, is
  the exact time in 1/32 ticks.  It is kept by each call of `next`
  (`NextIsExact`) and bounds the error by less than one tick.  `CyclesExact`
  (`CycleExactUndisturbed`), `WokenInTime` (`WakesUndisturbed`) and `LateNeedsTightSettings`
  (`LateOnlyWhenTight`) hold for every setting `gap_scan_start` accepts, a window equal to the
  interval included, and callbacks of any length up to `MaxCallback`.  The
  invariant is `InCycle`: in an undisturbed cycle no count wraps, CC0 is the end of
  the window of the channel, and `due` is what is left of the interval.  A cycle that ends with
  something left sets CC0 ahead of the count by exactly that; how much each tick can use up (its
  window, a wait for a SCAN_RSP, a callback) gives the bound of the last theorem.
* `HciProofs`, for every supervision timeout, every set of packets and any number of them.
  A packet is whole or else idle bytes, and a command or an event fits the framer
  (`HciAssumption`), as their length field of one byte makes sure in the code.
  * Of the stack, as theorems about `Spec` of `Ble`: `RadioRestored` and
    `StoppedMakesNoLink`, from the list of the ways in which a step can change the
    connection.  `RingNeverOverflows`: six cells are enough, and the code has eight.
    `NoEventDropped` is not inductive; `QueueInv` counts the events queued together
    with those that calls can still add before the next tick (each idle side can be
    started once), two before a tick and five after it.  `DrainedKnows`
    (`SettledView`): `ViewInv` says that reading the queue takes the application's view
    to the state of the stack, for which every step is shown to report events that
    tell what it changed (`EveryStep`).
  * `AsTheHostWasTold` (`EnableInEffect`) is inductive with the types of the two states.
  * `EachCommandAnswered` (`AnsweredOnceInOrder`).  `FramerInv` ties the framer to the
    packet written last: the line is its end, and inside a packet type, buffer and line
    make it up, with `expected` right once the header is there.  So a packet is complete
    with its last byte and no other (`CompleteAtEnd`), and the opcode answered is its
    own.  The rest follows what `Select` picks from a sequence through `Append`, `\o`
    and `Tail` (`SelectAppend`, `SelectConcat`).  All of it ends with the first overflow of the
    HCI queue, whatever its length.
  * `HostFollowsLink` (`HostKnowsLink`).  `HostInv` reads the two queues in a row: the
    events of the stack take `connection_open` to the state of the stack, those for the
    host take `host_link` to `connection_open`.  `Tells` says what a sequence of
    events tells about a flag; leaving out events that tell nothing changes
    nothing (`TellsSelect`), and what `Hci::tick` passes on tells the host the same
    (`PassedOn`).
  * `RingNeverOverflowsUnderHci`: six cells are also enough when commands of a host come
    between two ticks or between a tick and its drain.  `OnlyLongAclPanics`
    (`PanicsOnLongAcl`) from `FramerInv`: a full buffer inside a packet means a packet longer than it,
    which neither a command nor an event is.
* `L2capProofs`, for messages queued at any time by anyone: `NoUnderflow` (`TypeOK`), for any lengths and sizes: an
  offset other than 0 belongs to the message in the slot, unless that is mixed.  `OnlyTwoPanics`
  (`PanicCauses`) follows, since a fragment of a message that is not mixed ends within its length, and
  takes no more than the announced size.  `WholeOrNotAtAll` (`HandledWhole`) and
  `NothingElseAstray` (`RightChannel`) assume `Orderly`: the peer announces
  no size below 27, the least the Core Specification allows.  The slot holds the last message
  queued; half way through an ATT message that is not mixed the peer has collected
  exactly the bytes up to `tx_frag_offset`, and half way through one that is mixed or
  on another channel only bytes of a message that is lost anyway (`RxInv`, `Collected`); what was handled on its own
  channel is whole and in the order queued, and the message in the slot is not
  handled a second time (`HandledInv`).
* `FlashBondProofs`: `TypeCorrect`, `NoTornBond`, `Durable`,
  `NothingOldReturns`, `OneBondPerPeer`.  The invariant says how far `flush` has got (`InMagic`,
  `InWrite`): records before the current slot equal the cache, the current one lacks its
  trailer, later ones are erased; and whatever is complete on the page was saved once
  (`PageSaved`), which is what survives a power loss.  That no peer has two bonds
  (`OnePerPeer`) follows because what a restart would load is always part of the
  cache or of what would have been loaded before (`PowerLossPart`), and a part of a
  store without doubles has none (`OneEachPart`).
* `ConnProofs`.  Of `LinkLayer`: `AcknowledgedWasHandled`, `OnePlaceSuffices` and
  `FragmentsInStep`, for any requests, any number of PDUs and any message
  lengths.  The first and the last are inductive once the types are known.  The
  second needs `AnswersPresent`: an answer in the slot answers the very PDU that
  the peer repeats, because only the packet that carries the answer
  acknowledges the request.  `NoDataGetsThrough` (`HalvedLengthStopsData`) adds that none of the
  lengths from 1 to 27 equals its half (`HalfIsNotWhole`).  Of `ConnTiming`, for a timer longer than a listen window
  (63 ticks) and a word of at least twice its range: `GivenUpAfterSilence`
  (`TimeoutMeansSilence`), since the last packet and the silence add up to the count as
  long as the timer has not wrapped (`SilenceCounted`), so that the difference
  `conn_tick` takes is the silence.  `BeginsAtAnchor` (`AlignedAfterPacket`): while
  the window of the last event lasts, its compare event is to come and at least as far
  away as the window's end (`WindowAhead`), so that an event begun by then finds no
  compare event pending but the one of its own anchor (`AnchorNext`); the
  lemmas on `Distance` carry this across the ends of timer and word.
* `PairingProofs`: `LastSavedIsFound`, for stores of any size, from `OneSlot` (no
  address has two slots) and `SlotHoldsSaved` (a slot holds what was last saved
  with its address, and an address without one has nothing saved).  `KeysAreConfirmed` (`KeyConfirmed`), for any PDUs, random
  values and confirm values, from `OwnConfirmSent`: once the peer's confirm value is
  stored, this end has sent its own, for the request and the response in force unless
  one of them has been replaced since.

* `ServicesProofs`, for every number of credits (a u16), SDU length and number of
  calls, with a `None` that is no channel record (`NoneAssumption`).  A
  connection event consists of packets heard and packets lost, and both
  invariants are shown to survive each of the two, at a pair of ends.
  `NoCreditUnaccounted` (`CreditsAccounted`): `Account` adds up the places a credit
  of an end can be in (unspent, spent on the SDU in its slot, held by
  the peer's slot on its way back, or lost: overwritten in a slot, lost on the air, or sent to
  channel 0); besides, an end whose peer still asks for a channel has been granted nothing,
  and no SDU is in the middle of reassembly, since one always fits one PDU.
  `ResultsBelong` (`Correlated`) assumes `Paced`: the request
  under way is the last one asked and is in one place only, as a request in the slot
  of its sender or as an answer in that of the peer (`Thread`).

Every invariant and every action property that a run checks is stated by one of
these theorems.  Only model-checked are the liveness properties, as the prover has no
rules for fairness: `EveryEventDelivered`, `StopCompletes`, `TerminateEndsLink`,
`AttDelivered`, `ExchangesEnd`, `SilentLinkEnds`, `StopReturns` and `CommandAnswered`.  The library's induction theorems, which take an
operator as a parameter, cannot be used here; where a proof needs induction over a sequence
(`Select`), `Induction` and `SeqInduction` state it for a set instead, from the fact
that every non-empty set of natural numbers has a least element.

## Not modelled

Registers, frequencies and transmit power (pure I/O); AES, P-256, CCM and the
key derivation (arithmetic on wide values); Secure Connections and passkeys,
which no part of the stack calls; the packet counter of an encrypted link; PDU
codecs apart from the bits and the length of the data header, CRC, whitening, the hop sequence and the AD builder
(stateless data, with published test vectors); the air simulator (test
scaffolding); GAP configuration calls, which only change packet contents.
Both loops at once (advertising started from a callback of `scan_forever`).

## Plan

What is left to do.

1. Both loops at once on CC0 (`Scheduler`), the one interleaving of the stack's own
   operations that no module covers.
2. The link layer of a master, whose `event_master` looks at fewer PDUs, beside the slave of
   `LinkLayer`.
