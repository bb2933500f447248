---------------------------- MODULE MoqPublisher ----------------------------
(***************************************************************************)
(* The QUIC send path of MoqPublisherApp: tracks that emit groups of       *)
(* objects, the priority-ordered send buffer, the pacing against QUIC's    *)
(* send queue, the delivery timeout with its stream resets, and the        *)
(* teardown of every subscription when the buffer outgrows its limit.      *)
(*                                                                         *)
(* OMNeT++ runs one event handler to completion before the next.  Handlers *)
(* whose body is a loop (the burst that emits a group, flushSendBuffer)    *)
(* are unrolled, one iteration per step; pc says which loop is running, and *)
(* nothing but that loop can step until pc is "idle" again.                *)
(*                                                                         *)
(* Simulated time is discrete and relative: an object carries its age, a   *)
(* timer its remaining time.  Tick advances the clock, and only when       *)
(* nothing is left to do at the current instant.                           *)
(*                                                                         *)
(* A definition named Bug... is the definition after it with a mistake the *)
(* code could have made (some it once made).  No action uses it: put in    *)
(* its place, it breaks the property PROJECT.json names.                   *)
(***************************************************************************)
EXTENDS Integers, Sequences, FiniteSets

CONSTANTS
  Tracks,           \* the tracks of this publisher
  Priority,         \* Priority[t]: publisher priority, a lower number goes first
  ObjectsPerGroup,  \* ObjectsPerGroup[t]: objects of one group, i.e. of one stream
  ObjectBytes,      \* ObjectBytes[t]: size of one encoded object
  DeliveryTimeout,  \* DeliveryTimeout[t]: 0 when the track has none
  SendInterval,     \* SendInterval[t]: time between two groups
  CheckInterval,    \* deliveryTimeoutCheckInterval
  SendBufferLimit,  \* sendBufferLimit: objects the send buffer may hold
  ChunkBytes,       \* quicChunkBytes: largest single write
  SendQueueLimit,   \* quic.sendQueueLimit
  LowWaterMark,     \* QUIC's drain threshold
  MaxObjects,       \* bound: a track stops after this many objects
  MaxSubscribeOk    \* bound: SUBSCRIBE_OKs the relay sends per track

ASSUME TracksAssumption ==
  /\ Tracks # {} /\ IsFiniteSet(Tracks)
  /\ Priority \in [Tracks -> Nat]
  /\ ObjectsPerGroup \in [Tracks -> Nat \ {0}]
  /\ ObjectBytes \in [Tracks -> Nat \ {0}]
  /\ DeliveryTimeout \in [Tracks -> Nat]
  /\ SendInterval \in [Tracks -> Nat \ {0}]

ASSUME LimitsAssumption ==
  /\ CheckInterval \in Nat \ {0}
  /\ SendBufferLimit \in Nat
  /\ ChunkBytes \in Nat \ {0}
  /\ SendQueueLimit \in Nat \ {0}
  /\ LowWaterMark \in 1 .. SendQueueLimit
  /\ MaxObjects \in Nat \ {0}
  /\ MaxSubscribeOk \in Nat \ {0}

\* A group has a single subgroup, and a subgroup is carried by one stream: the
\* stream is identified with its subgroup.
Subgroups == Tracks \X (0 .. MaxObjects - 1)

Levels == {Priority[t] : t \in Tracks}   \* the keys of the sendBuffer map

\* QuicSendQueue, with the lemmas about it.
Quic == INSTANCE QuicSendQueueTheorems WITH Streams <- Subgroups

Off == -1            \* a timer that is not scheduled
NotYet == -1         \* quicBytesThisEvent when quicWriteEvent is not now

VARIABLES
  connected,           \* sendingAllowed
  timer,               \* timer[t]: time left on the track's timer, or Off
  timerKind,           \* timerKind[t]: what the timer does when it fires
  checkTimer,          \* time left on timerTimeoutCheck
  subscribeOks,        \* subscribeOks[t]: SUBSCRIBE_OKs received
  nextObjectId,        \* nextObjectId[t]; also objectsOffered of the track
  nextPos,             \* nextPos[l]: objects pushed so far at priority level l
  sendBuffer,          \* buffered objects, ordered by Before
  outstanding,         \* objects written in full, still subject to their timeout
  subgroupStreams,     \* subgroups whose stream is open
  resetSubgroups,      \* resetSubgroups[s]: why s's stream was reset, or "none"
  quicBlocked,         \* set by "full", cleared by "drain"
  quicBytesThisEvent,  \* bytes written at this instant, or NotYet
  subscriptionsEnded,  \* PUBLISH_DONE has been sent
  objectsSent,         \* objectsSent[t]: objects handed to QUIC in full
  quicShedStale,       \* quicShedStale[t]: objects charged to the delivery timeout
  quicShedOverflow,    \* quicShedOverflow[t]: objects charged to the buffer limit
  resetAfterSend,      \* resetAfterSend[t]: objects abandoned after they were sent
  subgroupResets,      \* RESET_STREAMs issued
  pc,                  \* the loop that is running
  burst,               \* the group being emitted: track, group, objects left
  conn,                \* the QUIC connection
  wire                 \* wire[s]: last object written on stream s, bytes of it written

clocks   == <<timer, timerKind, checkTimer, subscribeOks, connected>>
counters == <<objectsSent, quicShedStale, quicShedOverflow, resetAfterSend,
              subgroupResets>>
streams  == <<subgroupStreams, resetSubgroups>>
vars == <<clocks, nextObjectId, nextPos, sendBuffer, outstanding, streams,
          quicBlocked, quicBytesThisEvent, subscriptionsEnded, counters, pc,
          burst, conn, wire>>

-----------------------------------------------------------------------------
\* Objects.

Pending == [track : Tracks, group : 0 .. MaxObjects - 1, obj : 0 .. MaxObjects - 1,
            pos : Nat, sentOffset : Nat, age : Nat]

OutstandingObj == [track : Tracks, group : 0 .. MaxObjects - 1,
                   obj : 0 .. MaxObjects - 1, age : Nat]

Subgroup(o) == <<o.track, o.group>>

\* The newest object of a level first.
BugBefore(p, q) ==
  \/ Priority[p.track] < Priority[q.track]
  \/ Priority[p.track] = Priority[q.track] /\ p.pos > q.pos

\* The order flushSendBuffer serves the buffer in: by priority, then FIFO.
Before(p, q) ==
  \/ Priority[p.track] < Priority[q.track]
  \/ Priority[p.track] = Priority[q.track] /\ p.pos < q.pos

IsFront(p) == \A q \in sendBuffer \ {p} : Before(p, q)

\* The test for "no timeout" forgotten.
BugStale(o) == o.age > DeliveryTimeout[o.track]

\* A timeout of 0 means that the track has none.
Stale(o) == DeliveryTimeout[o.track] > 0 /\ o.age > DeliveryTimeout[o.track]

\* Ages saturate where no test can tell them apart any more.
AgeCap(t) == IF DeliveryTimeout[t] = 0 THEN 1
             ELSE DeliveryTimeout[t] + CheckInterval + 1
Older(o) == [o EXCEPT !.age = IF @ < AgeCap(o.track) THEN @ + 1 ELSE @]

Of(t, S) == {o \in S : o.track = t}

IdleBurst == [track |-> CHOOSE t \in Tracks : TRUE, group |-> 0, left |-> 0]

Init ==
  /\ connected = FALSE
  /\ timer = [t \in Tracks |-> Off]
  /\ timerKind = [t \in Tracks |-> "PUB_ANNOUNCE"]
  /\ checkTimer = CheckInterval
  /\ subscribeOks = [t \in Tracks |-> 0]
  /\ nextObjectId = [t \in Tracks |-> 0]
  /\ nextPos = [l \in Levels |-> 0]
  /\ sendBuffer = {}
  /\ outstanding = {}
  /\ subgroupStreams = {}
  /\ resetSubgroups = [s \in Subgroups |-> "none"]
  /\ quicBlocked = FALSE
  /\ quicBytesThisEvent = NotYet
  /\ subscriptionsEnded = FALSE
  /\ objectsSent = [t \in Tracks |-> 0]
  /\ quicShedStale = [t \in Tracks |-> 0]
  /\ quicShedOverflow = [t \in Tracks |-> 0]
  /\ resetAfterSend = [t \in Tracks |-> 0]
  /\ subgroupResets = 0
  /\ pc = "idle"
  /\ burst = IdleBurst
  /\ conn = Quic!FreshConnection
  /\ wire = [s \in Subgroups |-> [obj |-> -1, off |-> 0]]

-----------------------------------------------------------------------------
\* The order of events.  Events of one instant run in the order they were
\* scheduled.  A timer that is due was set earlier than anything QUIC raises at
\* this instant, so it never runs between QUIC raising an indication and the
\* application taking it.  What arrives from the network does so at an instant of
\* its own, not between a request of the application and QUIC's answer to it.
TimerMayFire == pc = "idle" /\ conn.inds = <<>>
NewInstant ==
  /\ pc = "idle" /\ conn.requests = <<>> /\ conn.inds = <<>>
  /\ quicBytesThisEvent' = NotYet

-----------------------------------------------------------------------------
\* Connecting and subscribing.

\* socketEstablished: every track's announcement is scheduled at once.
SocketEstablished ==
  /\ pc = "idle"
  /\ ~connected
  /\ connected' = TRUE
  /\ timer' = [t \in Tracks |-> 0]
  /\ UNCHANGED <<timerKind, checkTimer, subscribeOks, nextObjectId, nextPos,
                 sendBuffer, outstanding, streams, quicBlocked,
                 quicBytesThisEvent, subscriptionsEnded, counters, pc, burst,
                 conn, wire>>

\* A track timer of kind PUB_ANNOUNCE: one ANNOUNCE on the control stream.
AnnounceTrack(t) ==
  /\ TimerMayFire
  /\ timer[t] = 0
  /\ timerKind[t] = "PUB_ANNOUNCE"
  /\ timer' = [timer EXCEPT ![t] = Off]
  /\ conn' = Quic!SendControl(conn)
  /\ UNCHANGED <<connected, timerKind, checkTimer, subscribeOks, nextObjectId,
                 nextPos, sendBuffer, outstanding, streams, quicBlocked,
                 quicBytesThisEvent, subscriptionsEnded, counters, pc, burst,
                 wire>>

\* The relay's SUBSCRIBE_OK for an announced track (one per subscriber): the
\* track's timer is cancelled and set to emit a group now, after any check that
\* is due already.  All tracks are announced at one instant and an answer takes a
\* round trip, so the first SUBSCRIBE_OK finds every track announced.
SubscribeOk(t) ==
  /\ NewInstant
  /\ checkTimer > 0
  /\ connected
  /\ \A u \in Tracks : timerKind[u] = "SUB_SUCCESS" \/ timer[u] = Off
  /\ subscribeOks[t] < MaxSubscribeOk
  /\ subscribeOks' = [subscribeOks EXCEPT ![t] = @ + 1]
  /\ timerKind' = [timerKind EXCEPT ![t] = "SUB_SUCCESS"]
  /\ timer' = [timer EXCEPT ![t] = 0]
  /\ UNCHANGED <<connected, checkTimer, nextObjectId, nextPos, sendBuffer,
                 outstanding, streams, quicBlocked, subscriptionsEnded, counters,
                 pc, burst, conn, wire>>
-----------------------------------------------------------------------------
\* Emitting a group.

\* The counter kept per call instead of per instant: one burst flushes many times.
BugBytesAtFlush == 0

\* quicBytesThisEvent as flushSendBuffer finds it: it starts again from zero when
\* the clock has moved since the last write, and only then.
BytesAtFlush == IF quicBytesThisEvent = NotYet THEN 0 ELSE quicBytesThisEvent

\* The group number taken for a position.
BugGroupBurst(t) == [track |-> t,
                     group |-> nextObjectId[t] * ObjectsPerGroup[t],
                     left  |-> ObjectsPerGroup[t]]

\* The loop that emits the next group of a track.
GroupBurst(t) == [track |-> t,
                  group |-> nextObjectId[t] \div ObjectsPerGroup[t],
                  left  |-> ObjectsPerGroup[t]]

\* A track timer of kind SUB_SUCCESS opens the burst that emits one group.
StartGroup(t) ==
  /\ TimerMayFire
  /\ timer[t] = 0
  /\ timerKind[t] = "SUB_SUCCESS"
  /\ timer' = [timer EXCEPT ![t] = Off]
  /\ IF subscriptionsEnded \/ nextObjectId[t] + ObjectsPerGroup[t] > MaxObjects
     THEN UNCHANGED <<pc, burst>>
     ELSE /\ pc' = "send"
          /\ burst' = GroupBurst(t)
  /\ UNCHANGED <<connected, timerKind, checkTimer, subscribeOks, nextObjectId,
                 nextPos, sendBuffer, outstanding, streams, quicBlocked,
                 quicBytesThisEvent, subscriptionsEnded, counters, conn, wire>>

\* PUBLISH_DONE before the streams are closed.
BugTeardownFrames(open) == Quic!ResetStreams(Quic!SendControl(conn), open)

\* What the teardown hands to QUIC: the resets, then the PUBLISH_DONEs (one per
\* track, here a single request).
TeardownFrames(open) == Quic!SendControl(Quic!ResetStreams(conn, open))

\* The object that made the buffer exceed its limit is forgotten.
BugDiscarded(p) == sendBuffer

\* What the teardown discards, and charges to the overflow.
Discarded(p) == sendBuffer \cup {p}

\* terminateSubscriptions, when object p made the buffer exceed its limit: reset
\* every open stream, discard the buffer, then send PUBLISH_DONE, then stop the
\* track timers.
TerminateSubscriptions(p) ==
  LET open == subgroupStreams \cup {Subgroup(p)}
  IN  /\ subscriptionsEnded' = TRUE
      /\ resetSubgroups' = [s \in Subgroups |->
                              IF s \in open THEN "OVERFLOW" ELSE resetSubgroups[s]]
      /\ subgroupStreams' = {}
      /\ subgroupResets' = subgroupResets + Cardinality(open)
      /\ quicShedOverflow' = [t \in Tracks |->
                                quicShedOverflow[t] + Cardinality(Of(t, Discarded(p)))]
      /\ sendBuffer' = {}
      /\ outstanding' = {}
      /\ conn' = TeardownFrames(open)
      /\ timer' = [t \in Tracks |-> Off]

\* enqueuePending within the limit; the subgroup's first object opens its stream.
Enqueue(p) ==
  /\ sendBuffer' = sendBuffer \cup {p}
  /\ subgroupStreams' = subgroupStreams \cup {Subgroup(p)}
  /\ UNCHANGED <<resetSubgroups, subgroupResets, quicShedOverflow, outstanding,
                 conn, timer, subscriptionsEnded>>

\* One object of subgroup s is lost with its stream: charged to what reset it.
ChargeToCause(s) ==
  /\ quicShedOverflow' = [quicShedOverflow EXCEPT ![s[1]] =
       IF resetSubgroups[s] = "OVERFLOW" THEN @ + 1 ELSE @]
  /\ quicShedStale' = [quicShedStale EXCEPT ![s[1]] =
       IF resetSubgroups[s] = "OVERFLOW" THEN @ ELSE @ + 1]

\* sendObjectFrame for an object whose stream is gone; after the teardown it is
\* not even charged.
Refuse(s) ==
  /\ IF subscriptionsEnded THEN UNCHANGED <<quicShedOverflow, quicShedStale>>
                           ELSE ChargeToCause(s)
  /\ UNCHANGED <<sendBuffer, streams, subgroupResets, outstanding, conn, timer,
                 subscriptionsEnded, pc, quicBytesThisEvent, nextPos>>

\* One object of the burst, up to the flush sendObjectFrame ends with.
SendObject ==
  LET t == burst.track
      p == [track |-> t, group |-> burst.group, obj |-> nextObjectId[t],
            pos |-> nextPos[Priority[t]], sentOffset |-> 0, age |-> 0]
  IN  /\ pc = "send"
      /\ burst.left > 0
      /\ burst' = [burst EXCEPT !.left = @ - 1]
      /\ nextObjectId' = [nextObjectId EXCEPT ![t] = @ + 1]
      /\ IF subscriptionsEnded \/ resetSubgroups[Subgroup(p)] # "none"
         THEN Refuse(Subgroup(p))
         ELSE /\ IF Cardinality(sendBuffer \cup {p}) > SendBufferLimit
                 THEN TerminateSubscriptions(p)
                 ELSE Enqueue(p)
              /\ nextPos' = [nextPos EXCEPT ![Priority[t]] = @ + 1]
              /\ pc' = "flushObject"
              /\ quicBytesThisEvent' = BytesAtFlush
              /\ UNCHANGED quicShedStale
      /\ UNCHANGED <<connected, timerKind, checkTimer, subscribeOks, quicBlocked,
                     objectsSent, resetAfterSend, wire>>

\* sendTrackData, after the last object of the group: schedule the next group.
EndGroup ==
  /\ pc = "send"
  /\ burst.left = 0
  /\ timer' = [timer EXCEPT ![burst.track] =
                  IF subscriptionsEnded \/ nextObjectId[burst.track] >= MaxObjects
                  THEN Off ELSE SendInterval[burst.track]]
  /\ pc' = "idle"
  /\ burst' = IdleBurst
  /\ UNCHANGED <<connected, timerKind, checkTimer, subscribeOks, nextObjectId,
                 nextPos, sendBuffer, outstanding, streams, quicBlocked,
                 quicBytesThisEvent, subscriptionsEnded, counters, conn, wire>>

-----------------------------------------------------------------------------
\* flushSendBuffer: write to QUIC in priority order while QUIC has room.

Flushing == pc \in {"flush", "flushObject"}

\* QUIC's report trusted, although it misses what was written at this instant.
BugMayWrite ==
  /\ ~quicBlocked
  /\ Quic!Occupancy(conn) < SendQueueLimit

\* The loop's conditions: not blocked, and what QUIC reports plus what was
\* written at this instant is below the limit.
MayWrite ==
  /\ ~quicBlocked
  /\ Quic!Occupancy(conn) + quicBytesThisEvent < SendQueueLimit

\* The stream of the front object was reset: the object went with it.
DropWithSubgroup(p) ==
  /\ Flushing /\ MayWrite /\ IsFront(p)
  /\ resetSubgroups[Subgroup(p)] # "none"
  /\ sendBuffer' = sendBuffer \ {p}
  /\ ChargeToCause(Subgroup(p))
  /\ UNCHANGED <<clocks, nextObjectId, nextPos, outstanding, streams, quicBlocked,
                 quicBytesThisEvent, subscriptionsEnded, objectsSent,
                 resetAfterSend, subgroupResets, pc, burst, conn, wire>>

\* resetSubgroupStream for the subgroups in S, because of the delivery timeout.
ResetForTimeout(S) ==
  /\ resetSubgroups' = [s \in Subgroups |->
                          IF s \in S THEN "TIMEOUT" ELSE resetSubgroups[s]]
  /\ subgroupStreams' = subgroupStreams \ S

\* A stale object dropped without a look at what is already on the stream.
BugTornBy(p) == {}

\* A buffered object that is dropped tears its stream if some of it is on it.
TornBy(p) == IF p.sentOffset > 0 THEN {Subgroup(p)} ELSE {}

\* The front object is past its delivery timeout.
DropStale(p) ==
  LET torn == TornBy(p)
  IN  /\ Flushing /\ MayWrite /\ IsFront(p)
      /\ resetSubgroups[Subgroup(p)] = "none"
      /\ Stale(p)
      /\ sendBuffer' = sendBuffer \ {p}
      /\ ResetForTimeout(torn)
      /\ conn' = Quic!ResetStreams(conn, torn)
      /\ subgroupResets' = subgroupResets + Cardinality(torn)
      /\ quicShedStale' = [quicShedStale EXCEPT ![p.track] = @ + 1]
      /\ UNCHANGED <<clocks, nextObjectId, nextPos, outstanding, quicBlocked,
                     quicBytesThisEvent, subscriptionsEnded, objectsSent,
                     quicShedOverflow, resetAfterSend, pc, burst, wire>>

\* doSendQuicChunk: the next slice of the front object goes to QUIC.  A finished
\* object leaves the buffer, and stays outstanding if it has a timeout.
WriteChunk(p) ==
  LET rest == ObjectBytes[p.track] - p.sentOffset
      n    == IF rest < ChunkBytes THEN rest ELSE ChunkBytes
      o    == [track |-> p.track, group |-> p.group, obj |-> p.obj, age |-> p.age]
  IN  /\ Flushing /\ MayWrite /\ IsFront(p)
      /\ resetSubgroups[Subgroup(p)] = "none"
      /\ ~Stale(p)
      /\ conn' = Quic!SendData(conn, Subgroup(p), n)
      /\ wire' = [wire EXCEPT ![Subgroup(p)] =
                     [obj |-> p.obj, off |-> p.sentOffset + n]]
      /\ quicBytesThisEvent' = quicBytesThisEvent + n
      /\ IF n = rest
         THEN /\ sendBuffer' = sendBuffer \ {p}
              /\ objectsSent' = [objectsSent EXCEPT ![p.track] = @ + 1]
              /\ outstanding' = IF DeliveryTimeout[p.track] > 0
                                THEN outstanding \cup {o} ELSE outstanding
         ELSE /\ sendBuffer' = (sendBuffer \ {p})
                                \cup {[p EXCEPT !.sentOffset = @ + n]}
              /\ UNCHANGED <<objectsSent, outstanding>>
      /\ UNCHANGED <<clocks, nextObjectId, nextPos, streams, quicBlocked,
                     subscriptionsEnded, quicShedStale, quicShedOverflow,
                     resetAfterSend, subgroupResets, pc, burst>>

\* The loop ends; its caller is the burst, or an event handler that is done.
EndFlush ==
  /\ Flushing
  /\ ~MayWrite \/ sendBuffer = {}
  /\ pc' = IF pc = "flushObject" THEN "send" ELSE "idle"
  /\ UNCHANGED <<clocks, nextObjectId, nextPos, sendBuffer, outstanding, streams,
                 quicBlocked, quicBytesThisEvent, subscriptionsEnded, counters,
                 burst, conn, wire>>

-----------------------------------------------------------------------------
\* The delivery-timeout timer.

\* checkOutstandingTimeouts: nothing when QUIC reports an empty queue, otherwise
\* the subgroups that carry an outstanding object past its timeout.
ExpiredSubgroups ==
  IF Quic!Occupancy(conn) = 0 THEN {}
  ELSE {Subgroup(o) : o \in {x \in outstanding :
                               Stale(x) /\ resetSubgroups[Subgroup(x)] = "none"}}

StillOutstanding ==
  IF Quic!Occupancy(conn) = 0 THEN {}
  ELSE {o \in outstanding : /\ resetSubgroups[Subgroup(o)] = "none"
                            /\ Subgroup(o) \notin ExpiredSubgroups}

\* The sweep subject to backpressure, like the flush loop.
BugSweptObjects ==
  IF subscriptionsEnded \/ quicBlocked THEN {} ELSE {p \in sendBuffer : Stale(p)}

\* The sweep limited to the objects that hold a stream.
BugSweepOnlyTorn ==
  IF subscriptionsEnded THEN {}
  ELSE {p \in sendBuffer : Stale(p) /\ p.sentOffset > 0}

\* sweepSendBufferTimeouts: every buffered object past its timeout goes.
SweptObjects ==
  IF subscriptionsEnded THEN {} ELSE {p \in sendBuffer : Stale(p)}

\* TIMER_TIMEOUT_CHECK: reset the streams of expired outstanding objects, sweep
\* the buffer (resetting the stream of each partly written object it drops),
\* flush, and schedule the next check.
TimeoutCheck ==
  LET expired == ExpiredSubgroups
      swept   == SweptObjects
      cut     == {p \in swept : TornBy(p) # {}}
      torn    == UNION {TornBy(p) : p \in swept}
  IN  /\ TimerMayFire
      /\ checkTimer = 0
      /\ outstanding' = StillOutstanding
      /\ resetAfterSend' = [t \in Tracks |-> resetAfterSend[t]
                              + Cardinality({s \in expired : s[1] = t})]
      /\ sendBuffer' = sendBuffer \ swept
      /\ quicShedStale' = [t \in Tracks |->
                             quicShedStale[t] + Cardinality(Of(t, swept))]
      /\ ResetForTimeout(expired \cup torn)
      /\ subgroupResets' = subgroupResets + Cardinality(expired) + Cardinality(cut)
      /\ conn' = Quic!ResetStreams(Quic!ResetStreams(conn, expired), torn)
      /\ quicBytesThisEvent' = BytesAtFlush
      /\ pc' = "flush"
      /\ checkTimer' = CheckInterval
      /\ UNCHANGED <<connected, timer, timerKind, subscribeOks, nextObjectId,
                     nextPos, quicBlocked, subscriptionsEnded, objectsSent,
                     quicShedOverflow, burst, wire>>

-----------------------------------------------------------------------------
\* QUIC's indications, QUIC itself, and the clock.

\* socketSendQueueFull and socketMsgRejected (which only counts).
QuicFullOrRejected ==
  /\ pc = "idle"
  /\ conn.inds # <<>>
  /\ Head(conn.inds) # "drain"
  /\ quicBlocked' = (quicBlocked \/ Head(conn.inds) = "full")
  /\ conn' = Quic!TakeIndication(conn)
  /\ UNCHANGED <<clocks, nextObjectId, nextPos, sendBuffer, outstanding, streams,
                 quicBytesThisEvent, subscriptionsEnded, counters, pc, burst,
                 wire>>

\* The flush without the unblocking.
BugQuicDrain ==
  /\ pc = "idle"
  /\ conn.inds # <<>>
  /\ Head(conn.inds) = "drain"
  /\ quicBytesThisEvent' = BytesAtFlush
  /\ pc' = "flush"
  /\ conn' = Quic!TakeIndication(conn)
  /\ UNCHANGED <<clocks, nextObjectId, nextPos, sendBuffer, outstanding, streams,
                 quicBlocked, subscriptionsEnded, counters, burst, wire>>

\* socketSendQueueDrain: unblock and flush.
QuicDrain ==
  /\ pc = "idle"
  /\ conn.inds # <<>>
  /\ Head(conn.inds) = "drain"
  /\ quicBlocked' = FALSE
  /\ quicBytesThisEvent' = BytesAtFlush
  /\ pc' = "flush"
  /\ conn' = Quic!TakeIndication(conn)
  /\ UNCHANGED <<clocks, nextObjectId, nextPos, sendBuffer, outstanding, streams,
                 subscriptionsEnded, counters, burst, wire>>

QuicHandleRequest ==
  /\ pc = "idle"
  /\ conn.requests # <<>>
  /\ conn' = Quic!HandleRequest(conn)
  /\ UNCHANGED <<clocks, nextObjectId, nextPos, sendBuffer, outstanding, streams,
                 quicBlocked, quicBytesThisEvent, subscriptionsEnded, counters,
                 pc, burst, wire>>

QuicAck(s) ==
  /\ NewInstant
  /\ conn.held[s] > 0
  /\ conn' = Quic!Acknowledge(conn, s)
  /\ UNCHANGED <<clocks, nextObjectId, nextPos, sendBuffer, outstanding, streams,
                 quicBlocked, subscriptionsEnded, counters, pc, burst, wire>>

\* Time passes once nothing is due at this instant: messages between the
\* application and QUIC take no simulated time.
Tick ==
  /\ NewInstant
  /\ checkTimer > 0
  /\ \A t \in Tracks : timer[t] # 0
  /\ checkTimer' = checkTimer - 1
  /\ timer' = [t \in Tracks |-> IF timer[t] = Off THEN Off ELSE timer[t] - 1]
  /\ sendBuffer' = {Older(p) : p \in sendBuffer}
  /\ outstanding' = {Older(o) : o \in outstanding}
  /\ UNCHANGED <<connected, timerKind, subscribeOks, nextObjectId, nextPos, streams,
                 quicBlocked, subscriptionsEnded, counters, pc, burst, conn, wire>>

FlushStep ==
  \/ \E p \in sendBuffer : DropWithSubgroup(p) \/ DropStale(p) \/ WriteChunk(p)
  \/ EndFlush

\* What the application's event handlers do.
Application ==
  \/ SocketEstablished
  \/ \E t \in Tracks : AnnounceTrack(t) \/ StartGroup(t)
  \/ SendObject
  \/ EndGroup
  \/ FlushStep
  \/ TimeoutCheck
  \/ QuicFullOrRejected
  \/ QuicDrain

Next ==
  \/ Application
  \/ \E t \in Tracks : SubscribeOk(t)
  \/ QuicHandleRequest
  \/ \E s \in Subgroups : QuicAck(s)
  \/ Tick

Spec == Init /\ [][Next]_vars

-----------------------------------------------------------------------------
\* Properties.

TimersOK ==
  /\ connected \in BOOLEAN
  /\ timer \in [Tracks -> Int]
  /\ timerKind \in [Tracks -> {"PUB_ANNOUNCE", "SUB_SUCCESS"}]
  /\ checkTimer \in 0 .. CheckInterval
  /\ subscribeOks \in [Tracks -> 0 .. MaxSubscribeOk]

BurstOK ==
  /\ nextObjectId \in [Tracks -> 0 .. MaxObjects]
  /\ nextPos \in [Levels -> Nat]
  /\ subscriptionsEnded \in BOOLEAN
  /\ pc \in {"idle", "send", "flush", "flushObject"}
  /\ burst \in [track : Tracks, group : 0 .. MaxObjects - 1, left : Nat]

ObjectsOK ==
  /\ sendBuffer \subseteq Pending
  /\ outstanding \subseteq OutstandingObj

StreamsOK ==
  /\ subgroupStreams \subseteq Subgroups
  /\ resetSubgroups \in [Subgroups -> {"none", "TIMEOUT", "OVERFLOW"}]
  /\ wire \in [Subgroups -> [obj : -1 .. MaxObjects - 1, off : Nat]]

CountersOK ==
  /\ objectsSent \in [Tracks -> Nat]
  /\ quicShedStale \in [Tracks -> Nat]
  /\ quicShedOverflow \in [Tracks -> Nat]
  /\ resetAfterSend \in [Tracks -> Nat]
  /\ subgroupResets \in Nat

QuicOK ==
  /\ quicBlocked \in BOOLEAN
  /\ quicBytesThisEvent \in Nat \cup {NotYet}
  /\ conn \in Quic!Connections

\* Every variable has its type.
TypeOK == TimersOK /\ BurstOK /\ ObjectsOK /\ StreamsOK /\ CountersOK /\ QuicOK

Complete(s) == wire[s].off = ObjectBytes[s[1]]
Untouched(s) == wire[s].obj = -1

\* A buffered object that goes on where its stream stands, and one not begun.
Continues(p) == LET w == wire[Subgroup(p)] IN p.obj = w.obj /\ p.sentOffset = w.off
Begins(p)    == p.obj > wire[Subgroup(p)].obj /\ p.sentOffset = 0

\* An object written in part is still in the buffer, at exactly the offset reached, and
\* ahead of every other object of its subgroup.
PartWaits ==
  \A s \in Subgroups :
    resetSubgroups[s] = "none" /\ ~Complete(s) /\ ~Untouched(s) =>
      \E p \in sendBuffer :
        /\ Subgroup(p) = s /\ Continues(p)
        /\ \A q \in sendBuffer \ {p} : Subgroup(q) = s => q.obj > p.obj

\* What else the buffer holds for the stream is later and not begun; an object written in
\* full is not in the buffer.
RestNotBegun ==
  \A p \in sendBuffer : resetSubgroups[Subgroup(p)] = "none" =>
    (Continues(p) /\ ~Complete(Subgroup(p))) \/ Begins(p)

\* The receiver frames objects by a length prefix alone.  So on a stream that has not been
\* reset, the buffer holds the rest of the object written in part, at the offset reached
\* and first, and otherwise only later objects of which nothing has been written: no part
\* of an object is lost, or on the stream twice (DropStale, TimeoutCheck, WriteChunk).
FrameIntegrity == PartWaits /\ RestNotBegun

\* What is written on a stream continues the object it carries, or starts a later object of
\* the subgroup after a complete one.
WriteRule(s) ==
  wire'[s] # wire[s] =>
    /\ s \in subgroupStreams /\ resetSubgroups[s] = "none"
    /\ \/ wire'[s].obj = wire[s].obj /\ wire'[s].off > wire[s].off
       \/ /\ wire'[s].obj > wire[s].obj /\ wire'[s].off <= ChunkBytes
          /\ Complete(s) \/ Untouched(s)

\* A stream is opened once, before anything is written on it.
OpenRule(s) ==
  s \in subgroupStreams' \ subgroupStreams =>
    resetSubgroups[s] = "none" /\ resetSubgroups'[s] = "none" /\ Untouched(s)

\* Only a reset closes a stream, and it does.
CloseRule(s) ==
  /\ s \in subgroupStreams \ subgroupStreams' => resetSubgroups'[s] # "none"
  /\ resetSubgroups'[s] # "none" => s \notin subgroupStreams'

\* A reset is never taken back, nor blamed on another cause.
ResetRule(s) == resetSubgroups[s] # "none" => resetSubgroups'[s] = resetSubgroups[s]

\* The life of a stream under bursts, flushes, sweeps and the teardown: opened once and
\* fresh, written in order while it is open, closed by one reset that stands, for the cause
\* that objects lost later are charged to (sendObjectFrame, flushSendBuffer,
\* resetSubgroupStream, terminateSubscriptions).
StreamDiscipline ==
  [][\A s \in Subgroups : WriteRule(s) /\ OpenRule(s) /\ CloseRule(s) /\ ResetRule(s)]_vars

\* Objects offered that no counter of finish() has, nor the buffer.
Ledger(t) == objectsSent[t] + quicShedStale[t] + quicShedOverflow[t]
               + Cardinality(Of(t, sendBuffer))
Uncounted(t) == nextObjectId[t] - Ledger(t)

\* The ledger of finish(): every object offered has been sent, or shed and charged to one
\* cause, or is in the buffer.  The teardown charges each object it finds once, the one that
\* caused it included; all that escapes the ledger is what its own burst still offers, less
\* than a group of one track (sendObjectFrame, terminateSubscriptions).
Accounting ==
  \E t \in Tracks :
    /\ \A u \in Tracks \ {t} : Uncounted(u) = 0
    /\ Uncounted(t) \in 0 .. (IF subscriptionsEnded THEN ObjectsPerGroup[t] - 1 ELSE 0)

\* Section 9.12, quoted in terminateSubscriptions: PUBLISH_DONE comes after every
\* stream has been closed, and nothing follows it.
TeardownClean ==
  subscriptionsEnded =>
    /\ sendBuffer = {} /\ subgroupStreams = {}
    /\ \A s \in Subgroups : ~Untouched(s) => resetSubgroups[s] # "none"
    /\ conn.requests # <<>> => conn.requests[Len(conn.requests)].op = "control"

\* quicSendRejected must stay 0: QUIC discards no write, and that includes
\* PUBLISH_DONE, which is sent when the queue is at its fullest.
NothingRejected == conn.rejected = {}

\* The pacing: what QUIC holds together with what it has been handed and has not
\* seen yet exceeds the last permitted occupancy by less than one chunk.
PendingBytes ==
  LET data == {i \in DOMAIN conn.requests : conn.requests[i].op = "data"}
  IN  Quic!SumFunction([i \in data |-> conn.requests[i].len])
OccupancyBound ==
  Quic!Occupancy(conn) + PendingBytes < SendQueueLimit + ChunkBytes

\* The delivery timeout is enforced by age, whatever the transport does: nothing
\* in the buffer, or outstanding, is older than its timeout by more than the time
\* since the last check.
AgeBound ==
  \A o \in sendBuffer \cup outstanding :
    DeliveryTimeout[o.track] > 0 =>
      o.age <= DeliveryTimeout[o.track] + (CheckInterval - checkTimer)

\* A track without a delivery timeout never loses an object, or a stream, to a timeout, not
\* even to the checks after the teardown; and as long as the subscriptions last it loses
\* nothing at all.
ReliableLossless ==
  \A t \in Tracks : DeliveryTimeout[t] = 0 =>
    /\ quicShedStale[t] = 0 /\ resetAfterSend[t] = 0
    /\ \A s \in Subgroups : s[1] = t => resetSubgroups[s] # "TIMEOUT"
    /\ ~subscriptionsEnded =>
         /\ quicShedOverflow[t] = 0
         /\ \A s \in Subgroups : s[1] = t => resetSubgroups[s] = "none"

\* When a handler is done, the objects a stream reset takes with it have left the
\* buffer and been charged to the delivery timeout, so the teardown can charge
\* what it finds in the buffer to the overflow.
NoOrphans ==
  pc \in {"idle", "send"} =>
    \A p \in sendBuffer : resetSubgroups[Subgroup(p)] = "none"

-----------------------------------------------------------------------------
\* Liveness.  The simulator runs every event it has scheduled and then moves the
\* clock; a peer that keeps reading acknowledges every byte (strong fairness: a
\* handler that is running does not stop the network).
Fairness ==
  /\ WF_vars(Application)
  /\ WF_vars(QuicHandleRequest)
  /\ WF_vars(Tick)
  /\ \A s \in Subgroups : SF_vars(QuicAck(s))

LiveSpec == Spec /\ Fairness

\* Backpressure never becomes permanent: the buffer empties again and again.
BufferDrains == []<>(sendBuffer = {})

=============================================================================
