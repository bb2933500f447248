------------------------------ MODULE MoqRelay ------------------------------
(***************************************************************************)
(* MoqRelayApp over QUIC: which tracks are announced and who subscribes to *)
(* them, the forwarding of each object to every subscriber of its track,   *)
(* one send queue per subscriber connection, the teardown of a subscriber  *)
(* that falls too far behind, the end of a track, and connections closing. *)
(*                                                                         *)
(* What arrives from the network (control frames, complete objects,        *)
(* acknowledgements, closed connections) is the environment's choice.      *)
(* Handlers with loops are unrolled, one iteration per step: onObjectFrame *)
(* ("forward"), the end of all the tracks of one subscriber ("end") and    *)
(* flushSocket ("flush", or "flushForward" inside the forwarding loop).    *)
(*                                                                         *)
(* The forwarding loop runs over the vector of subscribers itself, and its *)
(* body may erase from that vector; subscriberId is a reference to an      *)
(* element of it.  Reached and Renamed say what the loop and the reference *)
(* see then.                                                               *)
(*                                                                         *)
(* A definition named Bug... is the definition after it with a mistake; no *)
(* action uses it (see PROJECT.json).                                      *)
(***************************************************************************)
EXTENDS Integers, Sequences, FiniteSets, Functions

CONSTANTS
  Subscribers,      \* subscriber ids; each has one connection
  Publishers,       \* publishers; each has one connection
  Nobody,           \* what a destroyed string reads as: the id of no subscriber
  Tracks,
  PublisherOf,      \* PublisherOf[t]
  Priority,         \* Priority[t]: a lower number goes first
  ObjectsPerGroup,  \* ObjectsPerGroup[t]: objects of one group, i.e. of one stream
  ObjectBytes,      \* ObjectBytes[t]
  DeliveryTimeout,  \* DeliveryTimeout[t]: 0 when the track has none
  CheckInterval,    \* deliveryTimeoutCheckInterval
  ForwardLimit,     \* quicForwardBufferPerSubscriberLimit
  ChunkBytes,       \* quicChunkBytes
  SendQueueLimit,   \* quic.sendQueueLimit
  LowWaterMark,     \* QUIC's drain threshold
  MaxGroups,        \* bound: groups that arrive per track
  MayClose          \* bound: peers whose connection may close

\* A peer is an application with a connection of its own, in one of the two roles.
ASSUME RelayAssumption ==
  /\ IsFiniteSet(Subscribers) /\ Nobody \notin Subscribers
  /\ Subscribers \cap Publishers = {}
  /\ Tracks # {} /\ IsFiniteSet(Tracks)
  /\ PublisherOf \in [Tracks -> Publishers]
  /\ Priority \in [Tracks -> Nat]
  /\ ObjectsPerGroup \in [Tracks -> Nat \ {0}]
  /\ ObjectBytes \in [Tracks -> Nat \ {0}]
  /\ DeliveryTimeout \in [Tracks -> Nat]
  /\ CheckInterval \in Nat \ {0} /\ ForwardLimit \in Nat
  /\ ChunkBytes \in Nat \ {0} /\ MaxGroups \in Nat \ {0}
  /\ SendQueueLimit \in Nat \ {0} /\ LowWaterMark \in 1 .. SendQueueLimit
  /\ MayClose \subseteq Subscribers \cup Publishers

Subgroups == Tracks \X (0 .. MaxGroups - 1)   \* of one connection: its streams
DownSubgroups == Subscribers \X Subgroups

\* QuicSendQueue, with the lemmas about it.
Quic == INSTANCE QuicSendQueueTheorems WITH Streams <- Subgroups

Off == -1          \* timerTimeoutCheck is not scheduled

VARIABLES
  publishedTracks,      \* announced; publisherSocketsByTrackKey has the same keys
  startedTracks,        \* a SUBSCRIBE_OK has gone to the track's publisher
  finishedTracks,       \* the publisher's PUBLISH_DONE has come
  openPeers,            \* peers whose connection is open
  subscriberSockets,    \* subscribers the relay has a socket for
  subscriberByTrack,    \* subscriberByTrack[t]: a vector of subscriber ids
  subscribed,           \* bound: SUBSCRIBEs that have come
  received,             \* received[sg]: objects of subgroup sg (recvFromPubByTrack sums them)
  arrived,              \* objects received so far, which orders those of one priority
  buffer,               \* the queued objects of all sockets, ordered by Before
  outstanding,          \* written in full, still subject to their timeout
  downstreamStreams,    \* open downstream streams
  resetDownstream,      \* resetDownstream[d]: why d's stream was reset, or "none"
  blocked,              \* blocked[s]: set by "full", cleared by "drain"
  quicBytesThisEvent,   \* quicBytesThisEvent[s]: bytes written at this instant
  checkTimer,           \* time left on timerTimeoutCheck, or Off
  pendingForwardCount,  \* objects queued, over all sockets
  forward_count,        \* forward_count[s]: objects written in full
  relayShedStale, relayShedOverflow,  \* per track: objects charged to either cause
  publishDone,          \* <<s, t, status>> of each PUBLISH_DONE sent
  tooFarBehind,         \* subscribers whose queue exceeded the limit
  pc,                   \* the loop that is running
  fwd,                  \* the object being forwarded, and where the loop is
  ending,               \* the teardown: whom subscriberId names, tracks left
  at,                   \* the subscriber whose socket is being flushed
  conn,                 \* conn[s]: the QUIC connection
  wire,                 \* wire[d]: last object written on d, bytes of it written
  offered,              \* objects that reached a subscriber's socket
  lostAtClose           \* objects queued on sockets that closed

control == <<publishedTracks, startedTracks, finishedTracks, openPeers,
             subscriberSockets, subscribed>>
queues  == <<buffer, outstanding, downstreamStreams, resetDownstream,
             pendingForwardCount>>
charges == <<relayShedStale, relayShedOverflow>>
ends    == <<publishDone, tooFarBehind, ending>>
history == <<offered, lostAtClose>>
arrivals == <<received, arrived>>
vars == <<control, subscriberByTrack, arrivals, queues, blocked,
          quicBytesThisEvent, checkTimer, forward_count, charges, ends, pc, fwd,
          at, conn, wire, history>>

-----------------------------------------------------------------------------
\* Queued objects.

Items == [sub : Subscribers, track : Tracks, group : 0 .. MaxGroups - 1, obj : Nat,
          pos : Nat, sentOffset : Nat, age : Nat]
OutstandingFwd == [sub : Subscribers, track : Tracks, group : 0 .. MaxGroups - 1,
                   obj : Nat, age : Nat]

Subgroup(p) == <<p.track, p.group>>
Down(p) == <<p.sub, Subgroup(p)>>
Queue(s) == {p \in buffer : p.sub = s}

\* The newest object of a priority first.
BugBefore(p, q) ==
  \/ Priority[p.track] < Priority[q.track]
  \/ Priority[p.track] = Priority[q.track] /\ p.pos > q.pos

\* The order flushSocket serves a queue in: by priority, then by arrival.
Before(p, q) ==
  \/ Priority[p.track] < Priority[q.track]
  \/ Priority[p.track] = Priority[q.track] /\ p.pos < q.pos

Stale(o) == DeliveryTimeout[o.track] > 0 /\ o.age > DeliveryTimeout[o.track]

\* Ages saturate where no test can tell them apart any more.
AgeCap(t) == IF DeliveryTimeout[t] = 0 THEN 0
             ELSE DeliveryTimeout[t] + CheckInterval + 1
Older(o) == [o EXCEPT !.age = IF @ < AgeCap(o.track) THEN @ + 1 ELSE @]

NoObject == [track |-> CHOOSE t \in Tracks : TRUE, group |-> 0, obj |-> 0,
             pos |-> 0, age |-> 0, i |-> 1, n |-> 0]
NoEnding == [who |-> Nobody, keys |-> {}]

Init ==
  /\ publishedTracks = {} /\ startedTracks = {} /\ finishedTracks = {}
  /\ openPeers = Subscribers \cup Publishers
  /\ subscriberSockets = {}
  /\ subscriberByTrack = [t \in Tracks |-> <<>>]
  /\ subscribed = {}
  /\ received = [g \in Subgroups |-> 0] /\ arrived = 0
  /\ buffer = {} /\ outstanding = {} /\ pendingForwardCount = 0
  /\ downstreamStreams = {}
  /\ resetDownstream = [d \in DownSubgroups |-> "none"]
  /\ blocked = [s \in Subscribers |-> FALSE]
  /\ quicBytesThisEvent = [s \in Subscribers |-> 0]
  /\ checkTimer = CheckInterval
  /\ forward_count = [s \in Subscribers |-> 0]
  /\ relayShedStale = [t \in Tracks |-> 0]
  /\ relayShedOverflow = [t \in Tracks |-> 0]
  /\ publishDone = {} /\ tooFarBehind = {}
  /\ pc = "idle" /\ fwd = NoObject /\ ending = NoEnding
  /\ at = Nobody
  /\ conn = [s \in Subscribers |-> Quic!FreshConnection]
  /\ wire = [d \in DownSubgroups |-> [obj |-> -1, off |-> 0]]
  /\ offered = 0 /\ lostAtClose = 0

-----------------------------------------------------------------------------
\* The order of events.  What the relay receives answers a request it makes at the
\* end of a handler, after the handler's writes: QUIC has handled those, and the
\* relay what they raised.  Frames of one publisher may come at one instant (in one
\* datagram); whatever else arrives does so at an instant of its own.
Settled == \A s \in Subscribers : conn[s].requests = <<>> /\ conn[s].inds = <<>>
SameInstant == pc = "idle" /\ Settled /\ UNCHANGED quicBytesThisEvent
NewInstant ==
  /\ pc = "idle" /\ Settled
  /\ quicBytesThisEvent' = [s \in Subscribers |-> 0]

-----------------------------------------------------------------------------
\* Control frames.

\* CTRL_ANNOUNCE: the track and its publisher's socket are registered.  Who has
\* subscribed already is not looked at.
Announce(t) ==
  /\ NewInstant
  /\ PublisherOf[t] \in openPeers
  /\ t \notin publishedTracks
  /\ publishedTracks' = publishedTracks \cup {t}
  /\ UNCHANGED <<startedTracks, finishedTracks, openPeers, subscriberSockets,
                 subscribed, subscriberByTrack, arrivals, queues, blocked,
                 checkTimer, forward_count, charges, ends, pc, fwd, at, conn, wire,
                 history>>

\* CTRL_SUBSCRIBE: the subscriber is registered, and the publisher is told to start
\* if the track is known.
Subscribe(s, t) ==
  /\ NewInstant
  /\ s \in openPeers
  /\ <<s, t>> \notin subscribed
  /\ subscribed' = subscribed \cup {<<s, t>>}
  /\ subscriberSockets' = subscriberSockets \cup {s}
  /\ subscriberByTrack' = [subscriberByTrack EXCEPT ![t] = Append(@, s)]
  /\ startedTracks' = IF t \in publishedTracks THEN startedTracks \cup {t}
                      ELSE startedTracks
  /\ UNCHANGED <<publishedTracks, finishedTracks, openPeers, arrivals,
                 queues, blocked, checkTimer, forward_count, charges, ends, pc, fwd,
                 at, conn, wire, history>>

\* Only what has bytes on a stream is abandoned.
BugAbandoned(S, t) ==
  {p \in buffer : p.sub \in S /\ p.track = t /\ p.sentOffset > 0}

\* The queued objects of track t for the subscribers in S.
Abandoned(S, t) == {p \in buffer : p.sub \in S /\ p.track = t}

\* The charge made only where a stream is reset.
BugCharged(gone) == Cardinality({p \in gone : p.sentOffset > 0})

\* Every abandoned object is charged, begun or not.
Charged(gone) == Cardinality(gone)

\* v without the subscribers in S, the others in their order.
Erased(v, S) ==
  LET kept[i \in 0 .. Len(v)] == IF i = 0 THEN <<>>
                                ELSE IF v[i] \in S THEN kept[i - 1]
                                ELSE Append(kept[i - 1], v[i])
  IN  kept[Len(v)]

\* endSubscriberTrack for the subscribers in S that have a socket: abandon what is
\* queued, reset the stream of what is written in part, send PUBLISH_DONE, forget
\* the subscription.
EndSubscriberTrack(S, t, status) ==
  LET live    == S \cap subscriberSockets
      gone    == Abandoned(live, t)
      torn    == {Down(p) : p \in {q \in gone : q.sentOffset > 0}}
      tornOf(s) == {d[2] : d \in {e \in torn : e[1] = s}}
  IN  /\ buffer' = buffer \ gone
      /\ pendingForwardCount' = pendingForwardCount - Cardinality(gone)
      /\ relayShedOverflow' =
           [relayShedOverflow EXCEPT ![t] = @ + Charged(gone)]
      /\ resetDownstream' = [d \in DownSubgroups |->
                               IF d \in torn THEN "OVERFLOW" ELSE resetDownstream[d]]
      /\ downstreamStreams' = downstreamStreams \ torn
      /\ conn' = [s \in Subscribers |->
                    IF s \in live
                    THEN Quic!SendControl(Quic!ResetStreams(conn[s], tornOf(s)))
                    ELSE conn[s]]
      /\ publishDone' = publishDone \cup {<<s, t, status>> : s \in live}
      /\ subscriberByTrack' =
           [subscriberByTrack EXCEPT ![t] = Erased(@, live)]
      /\ UNCHANGED <<outstanding, relayShedStale>>

\* CTRL_PUBLISH_DONE: the track ends for every subscriber of it.
EndTrackDownstream(t) ==
  /\ SameInstant \/ NewInstant
  /\ PublisherOf[t] \in openPeers
  /\ t \in publishedTracks \ finishedTracks
  /\ finishedTracks' = finishedTracks \cup {t}
  /\ EndSubscriberTrack(Range(subscriberByTrack[t]), t, "TRACK_ENDED")
  /\ UNCHANGED <<publishedTracks, startedTracks, openPeers, subscriberSockets,
                 subscribed, arrivals, blocked, checkTimer, forward_count,
                 tooFarBehind, ending, pc, fwd, at, wire, history>>

-----------------------------------------------------------------------------
\* Forwarding an object.

\* onObjectFrame: the next object of a subgroup is complete.  It is counted, and
\* forwarded to the subscribers the track has.  It comes fresh or past its timeout.
OnObjectFrame(t, g, a) ==
  LET v == subscriberByTrack[t]
  IN  /\ received[<<t, g>>] < ObjectsPerGroup[t]
      /\ received' = [received EXCEPT ![<<t, g>>] = @ + 1]
      /\ arrived' = arrived + 1
      /\ pc' = "forward"
      /\ fwd' = [track |-> t, group |-> g, obj |-> received[<<t, g>>],
                 pos |-> arrived, age |-> a, i |-> 1, n |-> Len(v)]
      /\ UNCHANGED <<control, subscriberByTrack, queues, blocked, checkTimer,
                     forward_count, charges, ends, at, conn, wire, history>>

ObjectArrives(t, g, a) ==
  /\ SameInstant \/ NewInstant
  /\ PublisherOf[t] \in openPeers /\ t \in startedTracks
  /\ OnObjectFrame(t, g, a)

\* socketDataArrived parses what it received in a loop: the next object of the same
\* stream may follow in the same handler.
NextInPacket(a) ==
  /\ pc = "forward" /\ fwd.i > fwd.n
  /\ OnObjectFrame(fwd.track, fwd.group, a)
  /\ UNCHANGED quicBytesThisEvent

\* The element the loop has reached.  The loop's end was fixed when it began; an
\* element beyond the vector's end now has been moved from and destroyed.
Reached == LET v == subscriberByTrack[fwd.track]
           IN  IF fwd.i <= Len(v) THEN v[fwd.i] ELSE Nobody

Forwarding(s) == pc = "forward" /\ fwd.i <= fwd.n /\ s = Reached

NextSubscriber == fwd' = [fwd EXCEPT !.i = @ + 1]

\* forwardToSubscriber: the subscriber has no socket.
SkipSubscriber ==
  /\ pc = "forward" /\ fwd.i <= fwd.n
  /\ Reached \notin subscriberSockets
  /\ NextSubscriber
  /\ UNCHANGED <<control, subscriberByTrack, arrivals, queues, blocked,
                 quicBytesThisEvent, checkTimer, forward_count, charges, ends, pc,
                 at, conn, wire, history>>

\* An object is lost with its stream: charged to what reset the stream.
ChargeToCause(d) ==
  IF resetDownstream[d] = "OVERFLOW"
  THEN /\ relayShedOverflow' = [relayShedOverflow EXCEPT ![d[2][1]] = @ + 1]
       /\ UNCHANGED relayShedStale
  ELSE /\ relayShedStale' = [relayShedStale EXCEPT ![d[2][1]] = @ + 1]
       /\ UNCHANGED relayShedOverflow

\* forwardToSubscriber: the stream of the subgroup has been reset.
RefuseObject(s) ==
  LET d == <<s, <<fwd.track, fwd.group>>>>
  IN  /\ Forwarding(s) /\ s \in subscriberSockets
      /\ resetDownstream[d] # "none"
      /\ ChargeToCause(d)
      /\ offered' = offered + 1
      /\ NextSubscriber
      /\ UNCHANGED <<control, subscriberByTrack, arrivals, queues, blocked,
                     quicBytesThisEvent, checkTimer, forward_count, ends, pc, at,
                     conn, wire, lostAtClose>>

\* forwardToSubscriber, up to the flush it ends with: the object is queued (the
\* subgroup's first object opens its stream); past the limit, all the tracks of
\* this subscriber are to end.
ForwardObject(s) ==
  LET p == [sub |-> s, track |-> fwd.track, group |-> fwd.group, obj |-> fwd.obj,
            pos |-> fwd.pos, sentOffset |-> 0, age |-> fwd.age]
      exceeded == Cardinality(Queue(s)) + 1 > ForwardLimit
  IN  /\ Forwarding(s) /\ s \in subscriberSockets
      /\ resetDownstream[Down(p)] = "none"
      /\ buffer' = buffer \cup {p}
      /\ downstreamStreams' = downstreamStreams \cup {Down(p)}
      /\ pendingForwardCount' = pendingForwardCount + 1
      /\ offered' = offered + 1
      /\ at' = s
      /\ IF exceeded
         THEN /\ pc' = "end"
              /\ tooFarBehind' = tooFarBehind \cup {s}
              /\ ending' = [who  |-> s,
                            keys |-> {t \in Tracks : s \in Range(subscriberByTrack[t])}]
         ELSE /\ pc' = "flushForward"
              /\ UNCHANGED <<tooFarBehind, ending>>
      /\ UNCHANGED <<control, subscriberByTrack, arrivals, outstanding,
                     resetDownstream, blocked, quicBytesThisEvent, checkTimer,
                     forward_count, charges, publishDone, fwd, conn, wire,
                     lostAtClose>>

\* What subscriberId names once v is the vector of the track being forwarded: the
\* element that has moved into its place, or what is left of a destroyed one.
Renamed(v) == IF fwd.i <= Len(v) THEN {v[fwd.i]} ELSE {ending.who, Nobody}

\* One track of the teardown; the order is that of a hash map.
EndTrack(t) ==
  /\ pc = "end"
  /\ t \in ending.keys
  /\ EndSubscriberTrack({ending.who}, t, "TOO_FAR_BEHIND")
  /\ \E who \in IF t = fwd.track THEN Renamed(subscriberByTrack'[t]) ELSE {ending.who} :
       ending' = [who |-> who, keys |-> ending.keys \ {t}]
  /\ UNCHANGED <<control, arrivals, blocked, quicBytesThisEvent, checkTimer,
                 forward_count, tooFarBehind, pc, fwd, at, wire, history>>

EndDone ==
  /\ pc = "end"
  /\ ending.keys = {}
  /\ ending' = NoEnding
  /\ pc' = "flushForward"
  /\ UNCHANGED <<control, subscriberByTrack, arrivals, queues, blocked,
                 quicBytesThisEvent, checkTimer, forward_count, charges, publishDone,
                 tooFarBehind, fwd, at, conn, wire, history>>

ForwardDone ==
  /\ pc = "forward"
  /\ fwd.i > fwd.n
  /\ pc' = "idle"
  /\ fwd' = NoObject
  /\ UNCHANGED <<control, subscriberByTrack, arrivals, queues, blocked,
                 quicBytesThisEvent, checkTimer, forward_count, charges, ends, at,
                 conn, wire, history>>

-----------------------------------------------------------------------------
\* flushSocket for the connection of subscriber at.

Flushing == pc \in {"flush", "flushForward"}

\* QUIC's report trusted, although it misses what was written at this instant.
BugMayWrite == ~blocked[at] /\ Quic!Occupancy(conn[at]) < SendQueueLimit

\* The indication ignored.
BugMayWriteUnblocked ==
  Quic!Occupancy(conn[at]) + quicBytesThisEvent[at] < SendQueueLimit

MayWrite ==
  /\ ~blocked[at]
  /\ Quic!Occupancy(conn[at]) + quicBytesThisEvent[at] < SendQueueLimit

IsFront(p) == p.sub = at /\ \A q \in Queue(at) \ {p} : Before(p, q)

\* The front object's stream was reset.
DropWithSubgroup(p) ==
  /\ Flushing /\ MayWrite /\ IsFront(p)
  /\ resetDownstream[Down(p)] # "none"
  /\ buffer' = buffer \ {p}
  /\ pendingForwardCount' = pendingForwardCount - 1
  /\ ChargeToCause(Down(p))
  /\ UNCHANGED <<control, subscriberByTrack, arrivals, outstanding,
                 downstreamStreams, resetDownstream, blocked, quicBytesThisEvent,
                 checkTimer, forward_count, ends, pc, fwd, at, conn, wire, history>>

\* A stale object dropped without a look at what is already on the stream.
BugTornBy(p) == {}

\* A queued object that is dropped tears its stream if some of it is on it.
TornBy(p) == IF p.sentOffset > 0 THEN {Down(p)} ELSE {}

\* The front object is past its delivery timeout.
DropStale(p) ==
  LET torn == TornBy(p)
  IN  /\ Flushing /\ MayWrite /\ IsFront(p)
      /\ resetDownstream[Down(p)] = "none"
      /\ Stale(p)
      /\ buffer' = buffer \ {p}
      /\ pendingForwardCount' = pendingForwardCount - 1
      /\ relayShedStale' = [relayShedStale EXCEPT ![p.track] = @ + 1]
      /\ resetDownstream' = [d \in DownSubgroups |->
                               IF d \in torn THEN "TIMEOUT" ELSE resetDownstream[d]]
      /\ downstreamStreams' = downstreamStreams \ torn
      /\ conn' = [conn EXCEPT ![at] = Quic!ResetStreams(@, {d[2] : d \in torn})]
      /\ UNCHANGED <<control, subscriberByTrack, arrivals, outstanding, blocked,
                     quicBytesThisEvent, checkTimer, forward_count,
                     relayShedOverflow, ends, pc, fwd, at, wire, history>>

Rest(p) == ObjectBytes[p.track] - p.sentOffset

\* A slice that runs past the end of the object.
BugSlice(p) == ChunkBytes

Slice(p) == IF Rest(p) < ChunkBytes THEN Rest(p) ELSE ChunkBytes

\* doForwardSendChunk: the next slice of the front object.  A finished object
\* leaves the queue, and stays outstanding if it has a timeout.
WriteChunk(p) ==
  LET n == Slice(p)
      o == [sub |-> p.sub, track |-> p.track, group |-> p.group, obj |-> p.obj,
            age |-> p.age]
  IN  /\ Flushing /\ MayWrite /\ IsFront(p)
      /\ resetDownstream[Down(p)] = "none"
      /\ ~Stale(p)
      /\ conn' = [conn EXCEPT ![at] = Quic!SendData(@, Subgroup(p), n)]
      /\ wire' = [wire EXCEPT ![Down(p)] = [obj |-> p.obj, off |-> p.sentOffset + n]]
      /\ quicBytesThisEvent' = [quicBytesThisEvent EXCEPT ![at] = @ + n]
      /\ IF n = Rest(p)
         THEN /\ buffer' = buffer \ {p}
              /\ pendingForwardCount' = pendingForwardCount - 1
              /\ forward_count' = [forward_count EXCEPT ![at] = @ + 1]
              /\ outstanding' = IF DeliveryTimeout[p.track] > 0
                                THEN outstanding \cup {o} ELSE outstanding
         ELSE /\ buffer' = (buffer \ {p}) \cup {[p EXCEPT !.sentOffset = @ + n]}
              /\ UNCHANGED <<pendingForwardCount, forward_count, outstanding>>
      /\ UNCHANGED <<control, subscriberByTrack, arrivals, downstreamStreams,
                     resetDownstream, blocked, checkTimer, charges, ends, pc, fwd,
                     at, history>>

\* The loop ends; its caller is the forwarding loop, or an event handler that is
\* done.
EndFlush ==
  /\ Flushing
  /\ ~MayWrite \/ Queue(at) = {}
  /\ IF pc = "flushForward"
     THEN pc' = "forward"
          /\ fwd' = [fwd EXCEPT !.i = @ + 1]
     ELSE pc' = "idle" /\ UNCHANGED fwd
  /\ at' = Nobody
  /\ UNCHANGED <<control, subscriberByTrack, arrivals, queues, blocked,
                 quicBytesThisEvent, checkTimer, forward_count, charges, ends, conn,
                 wire, history>>

-----------------------------------------------------------------------------
\* QUIC's indications, QUIC itself, connections that close, and the clock.

QuicFullOrRejected(s) ==
  /\ pc = "idle"
  /\ conn[s].inds # <<>>
  /\ Head(conn[s].inds) # "drain"
  /\ blocked' = [blocked EXCEPT ![s] = @ \/ Head(conn[s].inds) = "full"]
  /\ conn' = [conn EXCEPT ![s] = Quic!TakeIndication(@)]
  /\ UNCHANGED <<control, subscriberByTrack, arrivals, queues, quicBytesThisEvent,
                 checkTimer, forward_count, charges, ends, pc, fwd, at, wire,
                 history>>

\* The flush without the unblocking.
BugUnblocked(s) == blocked

\* socketSendQueueDrain lifts the block of this connection, and of no other.
Unblocked(s) == [blocked EXCEPT ![s] = FALSE]

\* socketSendQueueDrain: unblock and flush.
QuicDrain(s) ==
  /\ pc = "idle"
  /\ conn[s].inds # <<>>
  /\ Head(conn[s].inds) = "drain"
  /\ blocked' = Unblocked(s)
  /\ pc' = "flush"
  /\ at' = s
  /\ conn' = [conn EXCEPT ![s] = Quic!TakeIndication(@)]
  /\ UNCHANGED <<control, subscriberByTrack, arrivals, queues, quicBytesThisEvent,
                 checkTimer, forward_count, charges, ends, fwd, wire, history>>

QuicHandleRequest(s) ==
  /\ pc = "idle"
  /\ conn[s].requests # <<>>
  /\ conn' = [conn EXCEPT ![s] = Quic!HandleRequest(@)]
  /\ UNCHANGED <<control, subscriberByTrack, arrivals, queues, blocked,
                 quicBytesThisEvent, checkTimer, forward_count, charges, ends, pc,
                 fwd, at, wire, history>>

QuicAck(s, g) ==
  /\ NewInstant
  /\ conn[s].held[g] > 0
  /\ conn' = [conn EXCEPT ![s] = Quic!Acknowledge(@, g)]
  /\ UNCHANGED <<control, subscriberByTrack, arrivals, queues, blocked, checkTimer,
                 forward_count, charges, ends, pc, fwd, at, wire, history>>

\* The count kept although the queue is gone.
BugReleased(s) == 0

\* What a closing connection takes off pendingForwardCount.
Released(s) == Cardinality(Queue(s))

\* socketClosed, a subscriber's: the socket, its queue and the state of its streams
\* go; the subscriptions and what is outstanding stay.
CloseSubscriber(s) ==
  /\ NewInstant
  /\ s \in openPeers \cap MayClose
  /\ openPeers' = openPeers \ {s}
  /\ subscriberSockets' = subscriberSockets \ {s}
  /\ buffer' = buffer \ Queue(s)
  /\ pendingForwardCount' = pendingForwardCount - Released(s)
  /\ lostAtClose' = lostAtClose + Cardinality(Queue(s))
  /\ downstreamStreams' = {d \in downstreamStreams : d[1] # s}
  /\ resetDownstream' = [d \in DownSubgroups |->
                           IF d[1] = s THEN "none" ELSE resetDownstream[d]]
  /\ blocked' = [blocked EXCEPT ![s] = FALSE]
  /\ conn' = [conn EXCEPT ![s] = Quic!FreshConnection]
  /\ UNCHANGED <<publishedTracks, startedTracks, finishedTracks, subscribed,
                 subscriberByTrack, arrivals, outstanding, checkTimer,
                 forward_count, charges, ends, pc, fwd, at, wire, offered>>

\* socketClosed, a publisher's: its tracks stay registered, with its socket.
ClosePublisher(p) ==
  /\ NewInstant
  /\ p \in openPeers \cap MayClose
  /\ openPeers' = openPeers \ {p}
  /\ UNCHANGED <<publishedTracks, startedTracks, finishedTracks, subscriberSockets,
                 subscribed, subscriberByTrack, arrivals, queues, blocked,
                 checkTimer, forward_count, charges, ends, pc, fwd, at, conn, wire,
                 history>>

\* timerTimeoutCheck fires; handleMessageWhenUp passes on only two other kinds of
\* timer, so nothing is done and it is not set again.
CheckFires ==
  /\ pc = "idle"
  /\ checkTimer = 0
  /\ checkTimer' = Off
  /\ UNCHANGED <<control, subscriberByTrack, arrivals, queues, blocked,
                 quicBytesThisEvent, forward_count, charges, ends, pc, fwd, at, conn,
                 wire, history>>

Tick ==
  /\ NewInstant
  /\ checkTimer # 0
  /\ checkTimer' = IF checkTimer = Off THEN Off ELSE checkTimer - 1
  /\ buffer' = {Older(p) : p \in buffer}
  /\ outstanding' = {Older(o) : o \in outstanding}
  /\ UNCHANGED <<control, subscriberByTrack, arrivals, downstreamStreams,
                 resetDownstream, pendingForwardCount, blocked, forward_count,
                 charges, ends, pc, fwd, at, conn, wire, history>>

FlushStep ==
  \/ \E p \in buffer : DropWithSubgroup(p) \/ DropStale(p) \/ WriteChunk(p)
  \/ EndFlush

\* The steps of a handler that is running, or that is due.
Application ==
  \/ SkipSubscriber
  \/ \E s \in Subscribers : RefuseObject(s) \/ ForwardObject(s)
  \/ \E t \in Tracks : EndTrack(t)
  \/ EndDone
  \/ ForwardDone
  \/ FlushStep
  \/ \E s \in Subscribers : QuicFullOrRejected(s) \/ QuicDrain(s)
  \/ CheckFires

\* What the peers do.
Peers ==
  \/ \E t \in Tracks : Announce(t) \/ EndTrackDownstream(t)
  \/ \E s \in Subscribers, t \in Tracks : Subscribe(s, t)
  \/ \E a \in {0, AgeCap(fwd.track)} : NextInPacket(a)
  \/ \E g \in Subgroups : \E a \in {0, AgeCap(g[1])} : ObjectArrives(g[1], g[2], a)
  \/ \E s \in Subscribers : CloseSubscriber(s)
  \/ \E p \in Publishers : ClosePublisher(p)

Next ==
  \/ Application
  \/ Peers
  \/ \E s \in Subscribers : QuicHandleRequest(s)
  \/ \E s \in Subscribers, g \in Subgroups : QuicAck(s, g)
  \/ Tick

Spec == Init /\ [][Next]_vars

-----------------------------------------------------------------------------
\* Properties.

ControlOK ==
  /\ publishedTracks \subseteq Tracks /\ startedTracks \subseteq publishedTracks
  /\ finishedTracks \subseteq publishedTracks
  /\ openPeers \subseteq Subscribers \cup Publishers
  /\ subscriberSockets \subseteq Subscribers \cap openPeers
  /\ subscriberByTrack \in [Tracks -> Seq(Subscribers)]
  /\ subscribed \subseteq Subscribers \X Tracks
  /\ received \in [Subgroups -> Nat] /\ arrived \in Nat

QueuesOK ==
  /\ buffer \subseteq Items
  /\ \A p \in buffer : p.sentOffset < ObjectBytes[p.track]
  /\ outstanding \subseteq OutstandingFwd
  /\ downstreamStreams \subseteq DownSubgroups
  /\ resetDownstream \in [DownSubgroups -> {"none", "TIMEOUT", "OVERFLOW"}]
  /\ pendingForwardCount \in Nat
  /\ wire \in [DownSubgroups -> [obj : Int, off : Nat]]

CountersOK ==
  /\ forward_count \in [Subscribers -> Nat]
  /\ relayShedStale \in [Tracks -> Nat] /\ relayShedOverflow \in [Tracks -> Nat]
  /\ publishDone \subseteq Subscribers \X Tracks \X {"TRACK_ENDED", "TOO_FAR_BEHIND"}
  /\ tooFarBehind \subseteq Subscribers
  /\ offered \in Nat /\ lostAtClose \in Nat

LoopsOK ==
  /\ pc \in {"idle", "forward", "end", "flush", "flushForward"}
  /\ fwd \in [track : Tracks, group : 0 .. MaxGroups - 1, obj : Nat, pos : Nat,
              age : Nat, i : Nat, n : Nat]
  /\ ending \in [who : Subscribers \cup {Nobody}, keys : SUBSET Tracks]
  /\ at \in Subscribers \cup {Nobody}
  /\ Flushing => at \in Subscribers

TransportOK ==
  /\ blocked \in [Subscribers -> BOOLEAN]
  /\ quicBytesThisEvent \in [Subscribers -> Nat]
  /\ checkTimer \in {Off} \cup (0 .. CheckInterval)
  /\ conn \in [Subscribers -> Quic!Connections]

\* Every variable has its type.
TypeOK == ControlOK /\ QueuesOK /\ CountersOK /\ LoopsOK /\ TransportOK

\* The ledger of finish(): each object that reached a subscriber's socket has been
\* forwarded, or charged to one cause, or was lost with the connection, or is
\* queued; and pendingForwardCount, kept by hand at every removal, is what is queued.
Accounting ==
  /\ offered = SumFunction(forward_count) + SumFunction(relayShedStale)
                 + SumFunction(relayShedOverflow) + lostAtClose + Cardinality(buffer)
  /\ pendingForwardCount = Cardinality(buffer)

\* Once PUBLISH_DONE has ended a subscription nothing of its track is written to the
\* subscriber: flushSocket writes only for tracks the subscriber is registered for.
NothingAfterDone ==
  [][\A d \in DownSubgroups :
       wire'[d] # wire[d] => d[1] \in Range(subscriberByTrack[d[2][1]])]_vars

Requested(s) ==
  LET data == {i \in DOMAIN conn[s].requests : conn[s].requests[i].op = "data"}
  IN  SumFunction([i \in data |-> conn[s].requests[i].len])

\* The pacing of each connection: what QUIC holds together with what it has been
\* handed and has not seen exceeds the limit by less than one chunk, however many
\* objects one event forwards.
OccupancyBound ==
  \A s \in Subscribers :
    Quic!Occupancy(conn[s]) + Requested(s) < SendQueueLimit + ChunkBytes

\* quicSendRejected: QUIC discards no slice of an object, as the relay stops at
\* "full" and goes on at "drain" (between the two marks QUIC accepts nothing).
DataAccepted == \A s \in Subscribers : "data" \notin conn[s].rejected

Complete(d) == wire[d].off = ObjectBytes[d[2][1]]
Untouched(d) == wire[d].obj = -1

\* The subscriber frames objects by a length prefix alone.  So on a downstream stream
\* that has not been reset, an object written in part is still queued, at the offset
\* reached, and ahead of every other object of its subgroup.
FrameIntegrity ==
  \A d \in DownSubgroups :
    d[1] \in openPeers /\ resetDownstream[d] = "none" /\ ~Complete(d) /\ ~Untouched(d)
    => \E p \in buffer :
         /\ Down(p) = d
         /\ p.obj = wire[d].obj /\ p.sentOffset = wire[d].off
         /\ \A q \in buffer \ {p} : Down(q) = d => q.obj > p.obj

\* "A relay MUST NOT combine or split object payloads": what is written on a stream
\* continues the object it carries, or starts a later one of the subgroup after a
\* complete one; nothing is written on a stream that has been reset.
StreamDiscipline ==
  [][\A d \in DownSubgroups : wire'[d] # wire[d] =>
       /\ resetDownstream[d] = "none"
       /\ \/ wire'[d].obj = wire[d].obj /\ wire'[d].off > wire[d].off
          \/ /\ wire'[d].obj > wire[d].obj /\ wire'[d].off <= ChunkBytes
             /\ Complete(d) \/ Untouched(d)]_vars

-----------------------------------------------------------------------------
\* Liveness.  The simulator runs every event it has scheduled and then moves the
\* clock; a subscriber that is connected acknowledges every byte (strong fairness:
\* a handler that runs does not stop the network).  Peers owe nothing else.
Fairness ==
  /\ WF_vars(Application)
  /\ WF_vars(Tick)
  /\ \A s \in Subscribers :
       /\ WF_vars(QuicHandleRequest(s))
       /\ \A g \in Subgroups : SF_vars(QuicAck(s, g))

LiveSpec == Spec /\ Fairness

\* A connection blocked by "full" is unblocked again (or closes).
BackpressureEnds == \A s \in Subscribers : blocked[s] ~> ~blocked[s]

-----------------------------------------------------------------------------
\* What the comments say and the code does not do.

\* forwardToSubscriber: "the limit is a property of the peer": TOO_FAR_BEHIND ends
\* the tracks of the peer that exceeded it, of no other peer.
OverflowEndsThatPeer ==
  \A e \in publishDone : e[3] = "TOO_FAR_BEHIND" => e[1] \in tooFarBehind

\* handleTimeout: "liveness, as in the publisher": a connected subscriber's queue
\* does not keep an object for ever.
QueueDrains == \A s \in Subscribers : Queue(s) # {} ~> Queue(s) = {}
=============================================================================
