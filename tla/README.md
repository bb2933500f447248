# A TLA+ model of MOQ-Veins

MOQ-Veins simulates Media over QUIC (MoQ) between vehicles: a publisher in a
car sends *tracks* of objects (a small, urgent bounding-box track and a bulk
point-cloud track) to a relay, the relay forwards them to subscribers, and an
MQTT stack carries the same load for comparison. This directory holds the
specifications of its application code (`src/MoQVeinsSim/src`), the TLC
configurations that check them on small instances, and proofs of the theorems
that hold for every instance.

Contents: [the system](#1-the-system), [the hard parts](#2-what-is-hard),
[the modules](#3-the-modules), [the runs](#4-the-runs),
[the proofs](#5-the-proofs), [disagreements found](#6-what-the-comments-say-and-the-code-does-not-do),
[what is not modelled](#7-what-is-not-modelled), [the plan](#8-the-plan).

## 1. The system

All applications are OMNeT++ modules: an event handler (a timer, a message from
the transport) runs to completion, and events of one instant run in the order
they were scheduled. Between a handler and QUIC there is always a message, so
what the application asks of QUIC takes effect in a *later* event.

| component | state | operations | correct when |
|---|---|---|---|
| `MoqPublisherApp` | tracks and their timers, `sendBuffer` (priority -> FIFO), `outstanding`, `subgroupStreams`, `resetSubgroups`, `quicBlocked`, `quicBytesThisEvent`, `subscriptionsEnded`, counters | announce, react to SUBSCRIBE_OK, emit a group, flush, timeout check, full/drain indications, terminate | objects are framed intact or their stream is reset; the timeout is enforced by age; QUIC never discards a write; every object is accounted for; nothing follows PUBLISH_DONE |
| QUIC (INET fork, external) | send queue, admission flag, streams | send, resetStream, acknowledge; raises full/drain/rejected | external |
| `MoqRelayApp` | published tracks, subscribers per track, sockets, one send queue per subscriber socket, downstream streams, outstanding, receive state | control frames, forward, flush, end a track, close a socket | a subscriber gets what it subscribed to, in framing order; PUBLISH_DONE reaches everyone; a slow subscriber harms no other |
| reception (relay and subscriber) | `recvPending`, `recvInFlight`, one reassembly buffer per stream | data available, data arrived, stream reset | bytes are appended to the buffer of the stream they came on; no announced data is forgotten; a reset drops what it must |
| `MoqSubscriberApp` | per-track statistics, end of subscription | subscribe, record an object, note PUBLISH_DONE | objects recorded once |
| `MoqFraming` | TCP envelope, UDP fragments and reassembler | encode, parse, add a fragment | decode inverts encode; loss and duplication of datagrams do no harm |
| `MqttPublisherApp` | bounded FIFO `sendQueue`, flush timer, topics, packet ids | CONNACK, burst, flush, stop | what is dropped is counted, and is the oldest; identifiers are not reused early; what waits is written |
| `MqttBrokerApp` | sockets, subscriptions, receive buffers | CONNECT, SUBSCRIBE, PUBLISH, close | every copy is accounted for; every subscriber that stays gets registered |
| `MqttSubscriberApp` | subscribed flag, statistics | CONNACK, PUBLISH | one subscription; PUBACK per message; the gaps it reports are real |

Interactions: publisher -> relay ANNOUNCE, objects, PUBLISH_DONE; relay ->
publisher SUBSCRIBE_OK; subscriber -> relay SUBSCRIBE; relay -> subscriber
objects, PUBLISH_DONE; each pair over one QUIC connection with the control
frames on stream 0 and one stream per *subgroup* of objects. Over TCP every frame
is one envelope on one stream; over UDP a frame is one datagram or several
fragments. In MQTT, publisher -> broker CONNECT, PUBLISH; subscriber -> broker
CONNECT, SUBSCRIBE, PUBACK; the broker answers each and fans every PUBLISH out.

## 2. What is hard

`PROJECT.json` lists the hazards, each at its line. The kinds that shaped the
modules:

- **Stale state.** The occupancy QUIC reports misses everything written at the
  same instant. The application adds its own count of those bytes; the count
  has to survive all the flushes of a burst and start again when the clock
  moves (`flushSendBuffer`).
- **Backpressure and liveness.** QUIC says "full" and "drain" in later events.
  A flag set without a drain to come blocks the sender for ever.
- **Partial writes.** An object is written in chunks. Dropping one that has
  bytes on its stream desynchronises the receiver unless the stream is reset,
  and a reset takes the rest of the subgroup with it.
- **Timeouts against transport state.** The timeout is noticed in three places
  (front of the buffer, sweep, objects already written), each under other
  conditions.
- **Teardown in the middle of a burst**, with the queue at its fullest.
- **Data without a name.** QUIC announces data per stream, but the packet that
  answers a receive carries no stream. It is attributed to the one receive
  outstanding, announcements of that stream are ignored meanwhile, and the
  stream may be reset before the packet comes.
- **Unreliable delivery.** Over UDP datagrams are lost, duplicated and reordered;
  nothing is sent again, and fragments are collected per source and object.
- **Limits of MQTT.** The publisher's queue is bounded and drops its head, the packet
  identifier wraps at 16 bits, and the broker writes without pacing, so that QUIC may
  discard a copy that was counted as forwarded.

## 3. The modules

| module | models |
|---|---|
| `QuicSendQueue` | the sending half of one QUIC connection, as the applications see it (external); a connection is a record and each operator returns the connection after one operation |
| `MoqPublisher` | the QUIC send path of `MoqPublisherApp`, composed with one `QuicSendQueue` |
| `MCPublisher` | the instance TLC checks: two tracks, their sizes and timeouts |
| `QuicSendQueueTheorems` | lemmas about `QuicSendQueue`: its types, sums over its streams and requests, what each operation does to occupancy, admission and indications |
| `MoqPublisherProofs` | theorems about `MoqPublisher`: its objects, teardown, timeouts, streams; then its accounts: the ledger, the pacing, the admission |
| `MoqRelay` | the control plane and the QUIC forwarding of `MoqRelayApp`, composed with one `QuicSendQueue` per subscriber |
| `MoqRelayProofs` | theorems about `MoqRelay` |
| `MCRelay` | the instances TLC checks: one publisher, two tracks, one or two subscribers |
| `FrameStreams` | the abstract promise of reception: whole frames of each stream, in order, once each, until the stream is abandoned |
| `StreamReception` | the receiving half of a QUIC connection of `MoqSubscriberApp` or `MoqRelayApp`; implements `FrameStreams` |
| `MCReception` | the instance TLC checks: the control stream and two object streams |
| `StreamReceptionProofs` | theorems about `StreamReception`, the refinement among them |
| `ByteStreams` | the receive loop that every application has: bytes are appended to a buffer, whole frames leave it; for any parser (operators only) |
| `ByteStreamTheorems` | theorems about `ByteStreams`, for any parser; places in concatenations, induction over numbers |
| `MoqFraming` | the bytes of `MoqFraming.h`: object and control frames, the TCP envelope, UDP fragments and their reassembly (operators only) |
| `MoqDirect` | publisher, relay and subscribers composed, over TCP and over UDP, where frames go straight to the socket |
| `MoqDirectProofs` | theorems about `MoqDirect`, about `MoqFraming`, and about the frames of the one as the bytes of the other |
| `MCDirect` | the instance TLC checks, and the frames of `MoqDirect` as the bytes of `MoqFraming` |
| `MqttPublisher` | `MqttPublisherApp`, composed with one `QuicSendQueue` |
| `MCMqttPublisher` | the instances TLC checks: a small and a bulky topic |
| `MqttPublisherProofs` | theorems about `MqttPublisher` |
| `MqttFraming` | the bytes of `MqttFraming.h`: variable-length integers, packets (operators only) |
| `MqttBroker` | `MqttBrokerApp` and `MqttSubscriberApp` composed, with publishers as the broker sees them |
| `MCMqttBroker` | the instance TLC checks, and the streams of `MqttBroker` as the bytes of `MqttFraming` |
| `MqttBrokerProofs` | theorems about `MqttBroker`, about `MqttFraming`, and about the streams of the one as the bytes of the other |

`QuicSendQueue` is instantiated by both publishers and, once per subscriber, by the
relay. The modules of operators declare no variables and no `RECURSIVE` operator; TLC
evaluates them in the runs of the modules that carry their bytes.

### State and actions of `MoqPublisher`

Variables carry the names of the C++ members. Differences:

- `sendBuffer` is a set of objects; the map of queues is the order `Before`
  (priority, then position `pos` in the queue of that priority).
- A group has a single subgroup and a subgroup a single stream, so a stream *is*
  its subgroup (`<<track, group>>`). Stream ids are injective in the code
  (`nextStreamId += 4`) and are left out.
- Absolute times are ages and remaining times. Ages saturate one step past
  the last test that could tell them apart (`AgeCap`).
- `wire` is a history of the last object written on each stream and of how much
  of it; no action reads it.
- `nextObjectId[t]` stands for `objectsOffered` as well: both are incremented
  once per iteration of the burst loop.

| action | code |
|---|---|
| `SocketEstablished`, `AnnounceTrack`, `SubscribeOk` | `socketEstablished`, timer `PUB_ANNOUNCE`, `handleControlFrame` |
| `StartGroup`, `SendObject`, `EndGroup` | timer `SUB_SUCCESS`: the start, one iteration, and the end of the burst loop; `SendObject` holds `sendObjectFrame`, `enqueuePending` and, past the limit, `terminateSubscriptions` |
| `DropWithSubgroup`, `DropStale`, `WriteChunk`, `EndFlush` | the branches of one iteration of `flushSendBuffer`, and its end |
| `TimeoutCheck` | `TIMER_TIMEOUT_CHECK`: `checkOutstandingTimeouts`, `sweepSendBufferTimeouts`, the flush, and the next check |
| `QuicFullOrRejected`, `QuicDrain` | the callbacks of the QUIC socket |
| `QuicHandleRequest`, `QuicAck` | QUIC |
| `Tick` | the clock |

A handler with a loop is unrolled, one iteration a step; `pc` names the loop that
runs and nothing else of the application or of QUIC steps meanwhile.

### State and actions of `MoqRelay`

Variables carry the names of the C++ members. Differences: a connection is
identified with its peer; the queues of all sockets are one set of objects
(`buffer`, `Queue(s)` being one socket's); `received` counts objects per subgroup
(the code's `recvFromPubByTrack` per track), and `arrived` numbers them, for the order
among objects of one priority; a downstream stream is its subgroup.
`wire`, `offered`, `lostAtClose` and `tooFarBehind` are history. `Erased` is the
`std::remove` of the erasure; publishers and subscribers are different applications and so
different peers (`RelayAssumption`).

| action | code |
|---|---|
| `Announce`, `Subscribe`, `EndTrackDownstream` | `handleControlFrame` |
| `ObjectArrives`, `NextInPacket` | `onObjectFrame`, called in `socketDataArrived`'s parse loop |
| `SkipSubscriber`, `RefuseObject`, `ForwardObject`, `ForwardDone` | one iteration of its loop (`forwardToSubscriber`), and its end |
| `EndTrack`, `EndDone` | the loop of the overflow teardown (`endSubscriberTrack`) |
| `DropWithSubgroup`, `DropStale`, `WriteChunk`, `EndFlush` | `flushSocket` |
| `QuicFullOrRejected`, `QuicDrain`, `CloseSubscriber`, `ClosePublisher` | the callbacks of the sockets |
| `CheckFires` | `timerTimeoutCheck`, which `handleMessageWhenUp` drops |

The forwarding loop is a range-for over a vector its body may erase from, and
`subscriberId` refers to an element of it. `Reached` and `Renamed` say what is
read then, with libstdc++: the element that moved into the place; of the
elements past the new end, the one moved from is empty, and the one only
destroyed still has its text or not (undefined behaviour, a nondeterministic
choice).

Messages the relay receives answer a request that it makes at the end of a
handler, so QUIC has handled the writes before them. Frames of one publisher
may be handled at one instant (`SameInstant`), everything else has an instant of
its own.

### State and actions of `StreamReception`

Variables carry the names of the C++ members; `entries` says for which streams
`streamBuffers` has an entry. A byte is known by its stream and its place in it, so
that a byte in the wrong buffer, twice or out of order shows. `arrived`, `taken`,
`resets`, `requests` and `inds` are QUIC's (external); how QUIC answers a receive on a
stream it holds nothing of is the constant `EmptyReads`.

| action | code |
|---|---|
| `DataComes`, `ResetComes`, `AnswerReceive` | the network and QUIC |
| `SocketDataAvailable` | `socketDataAvailable`, `startNextRecv` |
| `SocketDataArrived`, `HandleFrame`, `ParseDone` | `socketDataArrived`: the packet appended, one turn of the loop of `tryParse` or `tryParseControl`, and its end with the next receive |
| `SocketStreamReset` | `socketStreamReset` |

### State and actions of `MoqDirect`

A TCP connection is two sequences of frames; over UDP the network is a bag of
datagrams. `recorded`, `lost`, `duplicated` and `delivered` are history.

| action | code |
|---|---|
| `Connect`, `Announce`, `Subscribe`, `SendGroup` | the timers of publisher and subscribers, `sendObjectFrame` and the envelope or fragments it writes |
| `RelayReceives`, `PeerReceives` | one frame of the parse loop of a TCP connection, and its handler at the relay, the publisher or a subscriber |
| `DatagramArrives` | `handleUdpFragment` (`udpReasm`) at either end, and the same handlers when the frame is whole |
| `Leave`, `SocketClosed` | a vehicle leaves; the relay is told, over TCP |
| `Lose`, `Duplicate` | the network, `MaxFaults` times |

### State and actions of `MqttPublisher`

`handedOver`, `created` and `cleared` are history. A message is known by the order of its creation (`n`), its
packet identifier and its length.

| action | code |
|---|---|
| `SocketEstablished`, `Connack`, `Puback` | the socket callback and `handleIncoming` |
| `PublishBurst`, `Publish`, `EndBurst` | a topic's timer: the start, one iteration of `publishBurst` with its `sendBytes`, and the end |
| `HandOver`, `EndFlush` | one iteration of `flushSendQueue`, and its end, where the flush timer is armed |
| `TimerFlush`, `StopPublishing` | the flush timer; `stopPublishing` |
| `FullOrRejected`, `Drain` | the callbacks of the QUIC socket |
| `QuicHandleRequest`, `QuicAck` | QUIC |

### State and actions of `MqttBroker`

A connection is two sequences of packets. Broker and subscriber write to QUIC without
pacing: `Written` lets QUIC discard a write unless it holds nothing for that stream.
`forwarded` and `discarded` count per topic what the broker counts in one number and
what QUIC did not take.

| action | code |
|---|---|
| `Connect`, `Leave`, `SocketClosed` | accepting a connection; a vehicle leaves; `socketClosed` |
| `OnConnect`, `OnSubscribe`, `OnPuback`, `OnPublish` | one packet of the broker's `handleIncoming` |
| `Forward` | one iteration of the fan-out loop of `onPublish` |
| `Publish` | the publisher (the rest of it is `MqttPublisher`) |
| `OnConnack`, `OnMessage`, `OnAck` | one packet of the subscriber's `handleIncoming`; `recordMessage` |

The expiry test of the fan-out compares the instant of arrival with itself plus at
least a second, and so has no step.

### Conventions

**Order of events.** OMNeT++ runs events of one instant in the order they were
scheduled. A timer due now was scheduled earlier than anything QUIC raises now,
so it does not run between QUIC raising an indication and the application
receiving it (`TimerMayFire`); network input arrives at an instant of its own, when
nothing is pending between application and QUIC (`NewInstant`). The latter is the
one idealisation about time: simulated delays are real numbers and coincide
with a timer only by construction.

**Bug definitions.** A definition named `Bug...` is the one after it with a
plausible mistake (the counter kept per call, the sweep subject to
backpressure, PUBLISH_DONE before the resets...). Nothing uses it. Put in place of
the original it breaks the property named for it in `PROJECT.json`, which shows
that the property depends on the code being as it is. Some of these
mistakes were once in the code (`findings/ISSUES-AND-LIMITS.md`, A2.1-A2.4).

## 4. The runs

The instance has the shape of the simulation's partial-reliability
configuration: `bbox` is small (1 unit), urgent and alone in its group;
`pcloud` is larger than a chunk (3 units, chunks of 2), less urgent, and has two
objects per group, hence per stream. QUIC's limit is 6 with the drain mark at 4
(3 and 2 in the liveness run). The buffer limit is 3 or 4 objects (2000 in
the code).

| run | asks | result |
|---|---|---|
| `publisher_overload` | `TypeOK`, `Accounting`, `TeardownClean`, `NothingRejected`, `OccupancyBound`, `ReliableLossless`: bulk track with a timeout, urgent track reliable, buffer of 3, and what goes on after the teardown | hold |
| `publisher_timeout` | `FrameIntegrity`, `StreamDiscipline`, `AgeBound`, `NoOrphans`: both tracks with timeouts | hold |
| `publisher_live` | `BufferDrains` under `LiveSpec` | holds |
| `relay_overflow` | `TypeOK`, `Accounting`, `OccupancyBound`, `DataAccepted`, `NothingAfterDone`: two subscribers, one object may wait for each | hold |
| `relay_timeout` | `FrameIntegrity`, `Accounting`, `StreamDiscipline`, and `BackpressureEnds` under `LiveSpec`: bulk track with a timeout, connections close | hold |
| `reception` | `TypeOK`, `RightStream`, `NoLostWakeup`, `NothingAfterReset`, `InOrder` (the refinement of `FrameStreams`), `EveryFrameHandled` under `LiveSpec`: three streams, resets at any moment | hold |
| `direct` | `TypeOK`, `ObjectsWhole`, `RecordedHonestly`, `FramesSurvive`, `Delivered` under `LiveSpec`: TCP and UDP, one datagram lost or duplicated, a subscriber that may leave | hold |
| `mqtt_publisher` | `Accounting`, `FreshestWait`, `IdentifiersFresh`, `QueueDrains` under `LiveSpec`: QUIC and TCP, up to three messages waiting, a stop at any moment | hold |
| `mqtt_broker` | `TypeOK`, `ForwardedAccounted`, `GapsHonest`, `PacketsSurvive`, `Registered` under `LiveSpec`: QUIC and TCP, two subscribers, one of which may leave | hold |
| `relay_overflow_blame`, `relay_stall`, `mqtt_rejected` | what a comment says and the code does not do | violated, see section 6 |

What the properties say:

- `Accounting`: each object offered has been sent, shed and charged to one cause,
  or is in the buffer. The teardown charges all it finds, the object that caused it
  included; after it, what is uncounted is the rest of that burst, less than a group
  of one track.
- `TeardownClean`: after PUBLISH_DONE the buffer is empty, every stream that ever
  carried data has been reset, and PUBLISH_DONE is the last thing QUIC is asked.
- `NothingRejected`, `OccupancyBound`: QUIC discards no write, PUBLISH_DONE
  included; occupancy plus unhandled writes stays within a chunk of the limit.
- `FrameIntegrity`: on a stream that is not reset, a partly written object is still
  in the buffer, at its offset, first of its stream (`PartWaits`); what else is
  buffered for the stream is later and not begun, so nothing written whole is
  written again (`RestNotBegun`).
- `StreamDiscipline`: what is written goes to an open stream that is not reset and
  continues its object or starts a later one after a complete one (`WriteRule`); a
  stream is opened fresh (`OpenRule`), only a reset closes it, and always does
  (`CloseRule`), and a reset and its cause stand (`ResetRule`).
- `AgeBound`: nothing outlives its timeout by more than the time since the last
  check, whatever the transport does.
- `ReliableLossless`: a track without a timeout never loses an object or a stream to a
  timeout, after the teardown either, and nothing at all while the subscriptions last.
- `NoOrphans`: between handlers the buffer holds no object whose stream is gone.
- `BufferDrains`: the buffer is empty infinitely often.

Of the relay (`FrameIntegrity`, `StreamDiscipline` are the publisher's `PartWaits` and
`WriteRule`, per downstream stream; `OccupancyBound` is per connection):

- `Accounting`: every object that reached a subscriber's socket is forwarded,
  charged to one cause, lost with the connection, or queued; and
  `pendingForwardCount` is the number queued. One run checks it over overflows and
  ends of tracks, the other over timeouts and closing connections.
- `NothingAfterDone`: nothing is written for a track the subscriber is no longer
  registered for, also when the overflow ends tracks of the wrong subscriber.
- `DataAccepted`: QUIC discards no slice of an object.
- `BackpressureEnds`: a blocked connection is unblocked.

Of reception:

- `RightStream`: the packet that names no stream is for the one receive outstanding.
- `NoLostWakeup`: of a stream QUIC holds bytes of, the announcement, the pending entry or
  a receive is always there.
- `NothingAfterReset`: no byte of a stream whose reset was handled is buffered again.
- `InOrder`: every step is a step of `FrameStreams` or changes nothing it can see.
- `EveryFrameHandled`: a frame that has arrived whole is handled, unless its stream is reset;
  provided that QUIC answers a receive on an empty stream (`EmptyReads`).

Of publisher, relay and subscribers over TCP and UDP:

- `ObjectsWhole`: an object is recorded only when each of its datagrams has come; it
  stays half collected only if the rest is under way, was lost, or one was duplicated.
- `RecordedHonestly`: over TCP each subscriber records a gapless run; over UDP nothing is
  recorded twice unless one of its own datagrams was duplicated.
- `FramesSurvive`, `PacketsSurvive`: what one application encodes another decodes, at the
  boundaries of the encoding and wherever the bytes are cut.
- `Delivered`: over TCP an object on its way is recorded by every subscriber registered
  that stays, whoever else leaves.

Of MQTT:

- `Accounting`: a message was written, waits, was dropped on overflow, or was cleared by the stop.
- `FreshestWait`: what waits are the newest messages, in order and without a gap; the limit
  always costs the oldest, and what is handed over goes first in, first out.
- `IdentifiersFresh`: an identifier comes back only after the whole range was used.
- `QueueDrains`: what waits is written, or the application stops. A backlog that fills QUIC's
  queue is cut by the flush's byte count, not by "full", so only the timer writes the rest.
- `ForwardedAccounted`: a copy counted as forwarded was recorded, is on its way, or was
  discarded by QUIC; none is for a topic not asked for. What was discarded is a record of
  the model, not a counter of the broker.
- `GapsHonest`: of a topic of which something was received, the gaps a subscriber reports are
  none over TCP and never negative. A topic seeded from the configuration of which nothing
  came is not covered: `SubscriberStats.h:73-75` reports one gap there.
- `Registered`: a subscriber that connects and stays ends up subscribed, whatever QUIC
  discards: the handshake never writes behind another packet. This takes a packet that was
  read for acknowledged, and holds as long as QUIC's limit exceeds a CONNECT.

**Bounds.** `MaxObjects` (a track stops after that many objects), and
`MaxSubscribeOk` (subscribers per track) bound the runs; deadlock is checked, the clock never
stops. With 4 objects per track the bulk track emits two groups, so two
streams are open, one stale while the other is fresh; a group is
larger than QUIC's limit together with the other track, so `full`, `drain`,
partial writes, sweeps, resets of written objects and the overflow all
happen, at every relative order of acknowledgements and timers. The liveness run
has 2 objects per track and two SUBSCRIBE_OKs, which restart the timers.

For the relay, `MaxGroups` groups arrive per track and `MayClose` names the peers
whose connection may close; a track is announced, ended and subscribed to (by
each subscriber) at most once, which is what the applications do. With two
subscribers each track has one object, QUIC's limit is 2 and one object may wait:
either subscriber, or both, overflows in the middle of the forwarding loop, on
either track, and the vector's elements move under it. The runs with one
subscriber have two objects on the bulk stream and QUIC's limit at 4, the drain mark
at 3 (the configuration's ratio is 0.8), so that a stream is reset under queued
objects. The two subscribers are interchangeable and the overflow run uses that
symmetry (no liveness is checked there).

For reception, the control stream carries two frames, one object stream two objects
of different length and the other one; bytes come in any portions, so frames are cut
and joined in every way, and either object stream may be reset at every moment. With
`EmptyReads` a receive issued for a stream an earlier one has drained is answered;
without it liveness fails (section 6), the safety properties hold and are proved for both.

`direct` has an object of one datagram and one of two, a subscriber of both tracks and
one, which may leave, of the bulk track; one fault (`MaxFaults`) suffices to lose
or duplicate any datagram of any frame, and reordering needs none. `mqtt_publisher` has three
identifiers, so that the range wraps; three messages may wait, and QUIC takes 4 units with
the drain mark at 3. A burst has four small or three bulky messages, so that the queue
overflows within one burst, a flush starts with several messages waiting, and a backlog of
more bytes than QUIC takes is left to the timer. `mqtt_broker` has
one message of one topic and two of the other, three identifiers, and overlapping
filters. The encodings are checked at each boundary of the variable-length integer, with
empty and non-empty strings, and with every cut of a stream of several packets into two.
These applications may stop, and so their runs do not check for deadlock.

**Fairness** (`LiveSpec`). Weak fairness of the application's handlers, of QUIC
and of the clock: the simulator executes every scheduled event. Strong
fairness of each stream's acknowledgement: the peer keeps reading, and a handler
that runs at this instant does not stop the network. Without acknowledgements the buffer
cannot drain, and the code does not claim it. Reception assumes weak fairness of QUIC's
answers and of the application's handlers, and nothing of network or peer.
`MqttPublisher` assumes weak fairness of a running loop and strong fairness of the flush timer, the
indications, QUIC and its acknowledgements: each of these waits while a loop runs. `MqttBroker`
assumes weak fairness of the fan-out and strong fairness of the handlers at both ends
of a subscriber's connection, which wait for the fan-out in the same way; nobody has to connect,
publish or leave. `MoqDirect` assumes that TCP delivers and that a track's timer fires;
nothing of datagrams.

## 5. The proofs

`MoqPublisherProofs` proves, for every set of tracks, sizes, timeouts, limits and
bounds admitted by `TracksAssumption` and `LimitsAssumption`:

| theorem | property |
|---|---|
| `TypeCorrect` | `Spec => []TypeOK` |
| `TeardownCorrect` | `Spec => []TeardownClean` |
| `AgeBounded` | `Spec => []AgeBound` |
| `ReliableTracksLossless` | `Spec => []ReliableLossless` |
| `NoOrphansLeft` | `Spec => []NoOrphans` |
| `FramesIntact` | `Spec => []FrameIntegrity` |
| `StreamsDisciplined` | `Spec => StreamDiscipline` |
| `LedgerBalances` | `Spec => []Accounting` |
| `OccupancyBounded` | `Spec => []OccupancyBound` |
| `NothingIsRejected` | `Spec => []NothingRejected` |

Arguments:

- `TypeOK` is strengthened to `TypeInv`: the buffer and `outstanding` are finite
  (their cardinalities are counted into the counters), QUIC's bytes per stream
  are what its requests say, and a running burst fits below `MaxObjects`.
- `TeardownClean` is not inductive. That every stream which carried data ends up
  reset needs `CarriedInv`: until the teardown, a stream with data on it is open or
  has been reset already; and the last clause needs that after the teardown no handler issues a
  request.
- `AgeBound` is inductive with the type invariant: the age grows with the clock
  and so does the time since the check, and the check removes all that is over age.
- `ReliableLossless` needs that a stream with timeout 0 never enters the sets the
  handlers reset for the timeout (nothing on such a track is stale, nothing is
  outstanding); after the teardown there is nothing left to reset.
- `NoOrphans` needs what a burst leaves in the buffer (`ObjectsInv`): a group is emitted by
  one burst, its objects are of one age and stand together in their level. So when the
  sweep finds one of them stale it finds all, and objects whose stream is gone are ahead
  of all others (`OrphansInv`): the flush that follows drops them before it writes.
- `FrameIntegrity` is inductive with `WireInv`: what is buffered continues what its stream
  carries, at that offset, or comes after it. `StreamDiscipline` follows from these, from
  no open stream having been reset (`OpenInv`), and from `CarriedInv` and
  `OrphansInv`, with one lemma for each action that opens, closes or writes.
- `Accounting` counts per track. Until the teardown every track balances (`Balanced`), which
  is proved action by action, from what taking one object out of a finite set, or a part of
  it, does to a cardinality. After it, only the burst that caused the teardown still offers
  objects (`LastBurst`, `EndedInv`), and it has fewer than a group left.
- `OccupancyBound` and `NothingRejected` are about QUIC's queue, which a handler sees only
  as it was before the current instant. `PacingInv`: of what has been handed to QUIC nothing
  is older than this instant, so the count `quicBytesThisEvent` covers it. `AdmissionInv`: a
  connection that refuses has said "full" and the application is blocked or about to hear it
  (`Blocks`); a "drain" under way was raised at this instant, so what was written since is
  known (`Signals`); data under way finds the connection open (`Admits`). The flush after a
  "drain" is the delicate case: QUIC may have closed again behind it, and then enough was
  written at this instant that the flush writes nothing. PUBLISH_DONE is the last request
  (`ControlInv`), behind a reset of every stream that holds bytes (`OwedOpen`), so it meets
  an empty queue.

`QuicSendQueueTheorems` has what both senders need. The occupancy is a sum over the
streams, defined by recursion over a set. Its laws (one term taken out, one changed, order
irrelevant) are proved from the existence of the recursive function, by induction over the
subsets of a finite set; that induction is stated for the members of a set and follows
from the least element of a set of numbers.

`MoqRelayProofs`, for every set of subscribers, publishers and tracks, every size and limit
(`RelayAssumption`):

| theorem | property |
|---|---|
| `TypeCorrect` | `Spec => []TypeOK` |
| `LedgerBalances` | `Spec => []Accounting` |
| `QuietAfterDone` | `Spec => NothingAfterDone` |
| `OccupancyBounded` | `Spec => []OccupancyBound` |
| `NoDataRejected` | `Spec => []DataAccepted` |
| `FramesIntact` | `Spec => []FrameIntegrity` |
| `StreamsDisciplined` | `Spec => StreamDiscipline` |

- `TypeOK` says that `pendingForwardCount` is a natural number, which the code counts down
  at every removal. That is so only because it counts the queued objects, so the type
  splits: `ShapeInv` is all the rest and is proved first, `TypeOK` follows from it and the
  ledger.
- `RegisteredInv`: a vector names no subscriber twice, and what is queued is for a
  subscriber that has a socket and is in the vector of the track. It survives the teardown
  of the wrong subscriber (section 6), since whoever is erased loses the queued objects of
  that track at once. `NothingAfterDone` follows.
- `OrderInv`: in a queue, the order of arrival is the order of the objects of a subgroup,
  and what is being forwarded is newer than all that a subscriber still `Waiting` has. The
  loop walks a vector that shrinks under it; that no place is visited twice, although
  elements move, is that `Erased` moves none to a later place (`ErasedFacts`, by induction
  over the vector). Without it one object could be queued twice, and the ledger break.
- `PacingInv` and `AdmissionInv` are the publisher's, per connection. The one difference is
  the forwarding loop, which may flush a connection several times at one instant; it runs
  only when no indication is under way (`Looping => conn[s].inds = <<>>`).
- `FrameIntegrity` needs `WireInv`: an object not begun is newer than what its stream
  carries, one begun is what it carries, at its offset. At the front of a queue is the
  oldest of its subgroup (`FrontFirst`), so nothing behind it has begun (`BehindFront`).

`StreamReceptionProofs`, for every set of streams, every division into frames and either
behaviour of an empty receive (`ReceptionAssumption`):

| theorem | property |
|---|---|
| `TypeCorrect` | `Spec => []TypeOK` |
| `RightStreamAlways` | `Spec => []RightStream` |
| `WakeupNeverLost` | `Spec => []NoLostWakeup` |
| `NothingComesBack` | `Spec => []NothingAfterReset` |
| `InOrderAlways` | `Spec => InOrder`: reception implements `FrameStreams` |

- None of the properties is inductive. `ReceptionInv` adds to the type that of receives and
  data packets there is at most one in all, and of the stream in flight (`OneReceive`);
  and that per stream the frames handled, the bytes buffered and the bytes in the packet
  under way are, in this order, the stream's bytes up to what QUIC has handed out
  (`Contiguous`, `DataContiguous`).
- `NoLostWakeup` needs more (`Wakeup`): an announcement of the stream being received is
  ignored, so one only counts that the application will handle after the packet.
- The refinement maps a parsed frame to `HandleNext` and a handled reset to `Abandon`; that
  the frame is the next one and whole is `Contiguous`.

`MqttPublisherProofs`, for every set of topics, sizes, limits and either quality of service:

| theorem | property |
|---|---|
| `TypeCorrect` | `Spec => []TypeOK` |
| `AccountingAlways` | `Spec => []Accounting` |
| `FreshestWaitAlways` | `Spec => []FreshestWait` |
| `IdentifiersFreshAlways` | `Spec => []IdentifiersFresh` |

- `TypeOK` is checked by no run of its own; the proof of `TypeCorrect` is what shows it.
- `PublisherInv` states the order for queue and socket together (`Ordered`): what was
  created last is at the end of the queue, without a gap, and what was written is older.
- Identifiers: of a message created less than a range ago, the next identifier is its own
  advanced by the messages created since, around the range at most once (`Fresh`). So a
  new message cannot meet its own identifier within a range. The messages dropped do not disturb it.

`MqttBrokerProofs`, for every set of clients, topics and filters, over TCP and QUIC:

| theorem | property |
|---|---|
| `TypeCorrect` | `Spec => []TypeOK` |
| `ForwardedAlwaysAccounted` | `Spec => []ForwardedAccounted` |
| `GapsAlwaysHonest` | `Spec => []GapsHonest` |

- `BrokerInv` adds that a subscriber is registered, and in the fan-out, only for topics it
  asked for, that SUBSCRIBE comes from subscribers, and that a message is on its way only to a
  subscriber of its topic (`Wanted`): without that, a copy could reach a statistic that
  does not exist. The counting rests on what one write or one packet taken does to the
  number of copies in a stream (`PlacesAppend`, `PlacesTail`).
- `GapsHonest` needs `GapsInv`, which follows the numbers of a topic from the publisher to the
  statistics. `OrderInv`: they ascend along every stream, and what a subscriber has recorded
  is below what its stream holds, that below the fan-out, that below what comes to the
  broker, that below the next number. So gaps are never negative. `WholeInv`, over TCP: of
  what follows a message that a subscriber has or waits for, nothing is missing, except a
  tail that was lost when the publisher's connection closed (`Cut`), and then nothing
  numbered higher is left behind it. `JoinedInv`: a subscriber that has a message is
  registered until its connection closes; were it registered a second time, later, it
  would miss what was forwarded meanwhile. `RegistryInv`: only clients with a socket are
  registered, and a stream carries messages only of its own publisher.

`ByteStreamTheorems`, for every parser that takes only what is whole, takes at least a byte
of it, and does not change its mind when more bytes come (`Parsers`):

| theorem | states |
|---|---|
| `StreamRead` | a stream of frames is read back as the frames written, each once and in order, with nothing left |
| `ArrivalsCut` | bytes arriving in two parts, behind any buffer, are read as if they had come at once |
| `StreamCut` | a stream that is read whole is read whole wherever it is cut |

- The loop is a recursive function of the place in the buffer. That a function with these
  equations exists is proved first, for every buffer, by induction on what is left of it: a
  frame that is taken is not empty, so the loop gets shorter. `Parsed` is that function as an
  operator, with one law for a frame that is there (`ParsedStep`). The law of cuts follows by
  induction over the length of the first part, for bytes that need not be frames at all.
- Induction over numbers is stated for the members of a set (`NatInductionOn`) and follows
  from the least element of a set, since the library's induction theorem takes an operator.

`MqttBrokerProofs`, of the encoding, for every packet, string, number and sequence of bytes:

| theorem | states |
|---|---|
| `ReceivedCut` | bytes arriving in two parts are read as if they had come at once |
| `FramesRead`, `FramesCut` | a stream of frames is read back as the packets that were framed, in order, nothing left, wherever it is cut |
| `PublishRead`, `SubscribeRead` | `parsePublish` inverts `encodePublish`, `parseSubscribe` inverts `encodeSubscribe` |
| `PacketsAlwaysSurvive` | `Spec => []PacketsSurvive`, `Spec` being `MqttBroker`'s |

- A variable byte integer below 2^28 is read back with whatever bytes behind it
  (`VarIntRead`), and a proper prefix of it never (`VarIntUnread`). So a frame is taken when
  it is whole and not before, also out of the middle of a stream (`FrameOf`, `FrameRead`),
  and a packet that is there whole is the same whatever comes behind it (`TryParseStays`):
  what `ByteStreamTheorems` asks of a parser.
- The bodies are a concatenation of parts, each read at its place; a part is found
  behind those before it whatever follows (`Between`, `BetweenBack`).
- `PacketsAlwaysSurvive` needs from the state only its type: every packet of a typed stream
  encodes to one whose length fits the field (`EncodedIs`). The lengths and messages at the
  boundaries that TLC evaluates are then instances of the general theorems.

`MoqDirectProofs`, for every set of subscribers and tracks, every number of fragments of an
object and of objects in a group, and any number of datagrams lost or duplicated
(`DirectAssumption`):

| theorem | property |
|---|---|
| `TypeCorrect` | `Spec => []TypeOK` |
| `RecordedWhenWhole` | `Spec => []ObjectsWhole` |
| `RecordsTrack` | `Spec => []RecordedHonestly` |

- `ShapeInv` adds to the type where frames travel (`Routed`), that nothing is in the channels
  of the other transport, and that the counter of a reassembly is the number of distinct
  fragments it has, all of them delivered. Without that a duplicated fragment could
  complete an object.
- `RegisteredInv`: over either transport a subscriber is registered for a track once. UDP
  guards against a second registration; TCP does not, and relies on the subscriber's timer:
  one SUBSCRIBE is sent, and it is in the stream, or handled, or dropped with the
  connection (`SubscribesOnce`). Registered twice, a subscriber would get each object twice.
- TCP (`StreamsInv`): the objects of a track in the publisher's stream are a `Line` from what
  the relay has counted to what the publisher has numbered; those in a subscriber's stream
  go on from what it has recorded, and, while it is registered, end where the relay is
  (`Continues`). A subscriber whose socket is closed keeps its registration and gets nothing
  more, so its line may end earlier, for good.
- UDP, `ObjectsWhole` (`CausesInv`): no datagram of a frame is sent without the others, the
  relay forwards an object only when all of it has come, and the publisher's objects have
  numbers it has passed. What is missing from a half-collected object was therefore sent,
  and is under way or lost, or came already.
- That last case is what `OnceInv` is for, and with it the second half of
  `RecordedHonestly`: unless a datagram of the object was duplicated, each one under way is
  the only one of its kind and has not come before, each that came is collected or its
  object whole, and no object that is whole is being collected. The code forgets an object
  once it is whole, so a late duplicate starts collecting it anew; the invariant says that
  nothing else does.

`MoqDirectProofs`, of the encoding. A message is one whose fields an `int64_t` holds and
whose strings and frame have lengths that a `uint32_t` holds:

| theorem | states |
|---|---|
| `EnvelopesReceivedCut` | bytes arriving in two parts are read as if they had come at once, whatever they are |
| `EnvelopesRead`, `EnvelopesCut` | a TCP stream of objects and control messages is read back as those messages, in order, nothing left, wherever it is cut |
| `FragmentsReassemble` | whatever the frame, the size of the datagrams, their order and how often each comes: the reassembler is complete just when every fragment has come, and then holds the frame |
| `FramesAlwaysSurvive` | `Spec => []FramesSurvive`, `Spec` being `MoqDirect`'s |

- Numbers are written a byte at a time (`Up` is the shift), so that the provers take one
  byte off a number per step: every number below 2^32, and every one from -2^63 up to 2^63,
  is read back (`Words`, `Longs`). The parts of a body are found at their places (`Has`).
- Fragments: `Pieces` says how many pieces a length has and where they lie; every byte of the
  frame is in exactly one. `Holds` is the invariant of the reassembler: after the fragments
  `H` have come, it has just those, every byte of them is in place, and it is complete if and
  only if `H` is all of them. Fragments that come twice change nothing. The theorem then goes
  by induction over the datagrams that have come.
- `FramesAlwaysSurvive` needs, beyond the type, that an object under way has a number the
  instance allows (`NumberedInv`), and of the constants that an object's bytes and its number
  fit their fields (`FieldsHold` in `MCDirect`): 200 bytes a datagram here. The code's fields
  bound both, and nothing in it checks them; larger objects are outside what is proved.

Every safety property and every action property that says what a step may do is so proved.
Liveness under fairness is model-checked only, being out of the prover's reach.

## 6. What the comments say and the code does not do

1. `relay_overflow_blame`: the overflow of one subscriber ends tracks of another:
   the id is read through a reference into a vector that has changed.
2. `relay_stall`: bytes counted both by QUIC and by the relay stop a flush below the
   drain mark, and the periodic flush that would resume it never runs. It needs a
   drain mark above half the limit.
3. `mqtt_rejected`: the byte count that caps a flush is local to it, and a burst flushes
   once per message: a burst larger than QUIC's queue is handed over whole and
   discarded in part, which the scalar that "must be 0" then counts.

Seen while modelling, without a run of their own:

MoQ publisher and relay
- `checkOutstandingTimeouts` takes an empty QUIC queue as proof that nothing is in
  flight; a group written earlier at the same instant is in no queue yet, and its timeout
  is no longer enforced (`MoqPublisherApp.cc:498`).
- The sweep resets a stream that the outstanding check has just reset, and
  `subgroupResets` counts it twice; the burst loop goes on counting offered objects after
  the teardown it caused; the peak occupancy may pass the limit, since the check
  precedes the write; the publisher's header and both NED files still describe an
  eviction of the lowest-priority, oldest object, where the code ends every subscription.
- Ending a subscription at the relay resets only the streams of objects queued and
  written in part, although PUBLISH_DONE is to come after every stream has been closed
  (`MoqRelayApp.cc:294`); PUBLISH_DONE is not paced and is discarded at a full QUIC
  queue (`:276`); the erasure behind finding 1 also makes the forwarding loop pass over
  the next subscriber (`:546`); the delivery-timeout check never runs (`:911`).
- A SUBSCRIBE that comes before the ANNOUNCE of its track never starts the track; a second
  SUBSCRIBE_OK restarts the track's timer at once, which emits a group more.

Reception
- `objectsResetByPeer` counts the reset of a stream whose object was already complete.
- If QUIC does not answer a receive on a stream it holds nothing of, reception
  stops for good: `EveryFrameHandled` fails with `EmptyReads = FALSE`.

TCP and UDP
- A datagram that is duplicated after its object was completed opens an entry that nothing
  removes; an object of one datagram is counted and forwarded again (the reassembler's
  comment: "Returns true exactly once"), and the loss ratio in `finish` can go below zero.
- A lost ANNOUNCE, SUBSCRIBE or SUBSCRIBE_OK is never sent again. Closing a TCP connection
  leaves the subscriber's registrations.

MQTT
- `MqttPublisherApp.cc:168` says that MQTT has no sender-side drop; `droppedOnOverflow` counts one.
- Quality of service 1 is described as "at least once" (`MqttPublisherApp.ned:15`); nothing is
  retransmitted, and the broker's unpaced writes may be discarded by QUIC.
- A track seeded from the configuration of which nothing was received reports one gap.

## 7. What is not modelled

- QUIC and the radio, which are outside the repository.
- Veins (`veins-veins-5.3.1`), a vendored framework with its own test programs: most of the
  code under `src/` and none of the program's own logic. What the applications see of it, a
  vehicle that leaves, is an action (`Leave`, and the closing of connections).
- Latency, jitter and deadline statistics of both subscribers, and the seeding of tracks
  from the configuration: sums over real-valued times that nothing in the code reads back.
- A SUBSCRIBE for a track whose publisher's connection has closed writes to a deleted
  socket; what that does is left out. `MoqRelay` starts from complete frames
  (`StreamReception` delivers them), whose objects arrive in order within a stream.
- `handleStopOperation` and `handleCrashOperation` of the MoQ applications: they cancel two timers (one
  of them never scheduled); `finish`: writes the counters. Generated message classes,
  string helpers, NED files, ini files and scripts have no behaviour of their own.
- MQTT's 64-bit fields are taken below 2^31 (`MqttFraming`); MoQ's have all their values.
  Payloads are lengths.

## 8. The plan

In order of importance; each module has its MC module, runs and, where named,
proofs.

1. `QuicSendQueue`, `MoqPublisher` and the proofs of every safety property: done.
2. `MoqRelay` and the proofs of every safety property: done.
3. `StreamReception`, `FrameStreams`, `StreamReceptionProofs`: done, refinement included.
4. `MoqDirect`, `ByteStreams`, `MoqFraming` and the proofs of every safety property: done.
5. `MqttPublisher`, `MqttBroker`, `MqttFraming` and the proofs of every safety property: done.
6. Publisher, relay and subscriber over QUIC in one module, implementing an abstract
   partially reliable publish/subscribe service.
