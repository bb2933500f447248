--------------------------- MODULE MqttPublisher ---------------------------
(***************************************************************************)
(* MqttPublisherApp: connecting, the bursts of each topic, the outbound    *)
(* queue in front of QUIC's send queue (over TCP messages go straight to   *)
(* the socket), the flush timer, and stopping when the vehicle leaves.     *)
(*                                                                         *)
(* A message is its number in order of creation, its packet identifier and *)
(* its size.  Timers are armed or not; an armed timer may fire at any      *)
(* moment.  publishBurst and flushSendQueue are loops, unrolled into one   *)
(* step per message ("burst", "flush").  The bytes of incoming packets are *)
(* in MqttFraming.                                                         *)
(***************************************************************************)
EXTENDS Integers, Sequences, Functions

CONSTANTS
  Topics,
  MessageBytes,        \* MessageBytes[t]: size of a PUBLISH of topic t
  MessagesPerBurst,    \* MessagesPerBurst[t]
  ConnectBytes,        \* size of the CONNECT
  QoS,                 \* 0 or 1
  PacketIds,           \* 2^16: packet identifiers are counted modulo this
  SendQueueLimitMsgs,  \* sendQueueLimit of the application; 0: unbounded
  SendQueueLimit,      \* quic.sendQueueLimit
  LowWaterMark,        \* QUIC's drain threshold
  Protocols,           \* "quic", "tcp": what the "protocol" parameter may say
  MaxBursts            \* MaxBursts[t], bound: bursts of topic t

ASSUME PublisherAssumption ==
  /\ Topics # {}
  /\ MessageBytes \in [Topics -> Nat \ {0}]
  /\ MessagesPerBurst \in [Topics -> Nat]
  /\ ConnectBytes \in Nat \ {0} /\ QoS \in {0, 1}
  /\ PacketIds \in Nat /\ PacketIds > 1
  /\ SendQueueLimitMsgs \in Nat
  /\ SendQueueLimit \in Nat \ {0} /\ LowWaterMark \in 1 .. SendQueueLimit
  /\ Protocols \subseteq {"quic", "tcp"} /\ MaxBursts \in [Topics -> Nat]

Stream == "stream 0"
Quic == INSTANCE QuicSendQueue WITH Streams <- {Stream}

VARIABLES
  proto,
  up,                \* "starting", "established", "stopped"
  connected,         \* the CONNACK has come
  topicTimers,       \* topics whose timer is armed
  timerFlush,        \* the flush timer is armed
  sendQueue,
  droppedOnOverflow,
  quicBlocked,
  nextPacketId,
  nextSequence,      \* nextSequence[t]: messages created for topic t
  offered,           \* offered[t]: messages counted as offered, and as sent
  pubacksReceived,
  pc,                \* the loop running: "idle", "burst", "flush"
  burst,             \* the burst: its topic and the messages left
  bytesThisEvent,
  conn,              \* the QUIC connection
  created,           \* messages created, the CONNECT included
  handedOver,        \* the messages written to the socket
  cleared            \* messages queued when the application stopped

timers == <<topicTimers, timerFlush>>
outbound == <<sendQueue, droppedOnOverflow, handedOver, created, nextPacketId>>
counters == <<nextSequence, offered, pubacksReceived, cleared>>
loop == <<pc, burst, bytesThisEvent>>
vars == <<proto, up, connected, timers, outbound, counters, quicBlocked, loop, conn>>

Messages == [n : Nat \ {0}, id : 0 .. PacketIds - 1, len : Nat \ {0}]
NoBurst == [topic |-> CHOOSE t \in Topics : TRUE, left |-> 0, open |-> FALSE]

Init ==
  /\ proto \in Protocols
  /\ up = "starting" /\ connected = FALSE
  /\ topicTimers = {} /\ timerFlush = FALSE
  /\ sendQueue = <<>> /\ droppedOnOverflow = 0 /\ handedOver = <<>>
  /\ created = 0 /\ nextPacketId = 1
  /\ nextSequence = [t \in Topics |-> 0] /\ offered = [t \in Topics |-> 0]
  /\ pubacksReceived = 0 /\ cleared = 0
  /\ quicBlocked = FALSE
  /\ pc = "idle" /\ burst = NoBurst /\ bytesThisEvent = 0
  /\ conn = Quic!FreshConnection

-----------------------------------------------------------------------------
\* Sending.

\* On overflow the oldest message goes.
Bounded(q) ==
  IF SendQueueLimitMsgs > 0 /\ Len(q) > SendQueueLimitMsgs THEN Tail(q) ELSE q

\* The message dropped is not counted.
BugOverflowed(q) == 0

\* Messages lost by Bounded.
Overflowed(q) == Len(q) - Len(Bounded(q))

\* sendBytes, up to the flush it ends with: over TCP the socket takes everything.
SendBytes(m) ==
  /\ created' = m.n
  /\ IF proto = "tcp"
     THEN /\ handedOver' = Append(handedOver, m)
          /\ UNCHANGED <<sendQueue, droppedOnOverflow>>
     ELSE /\ sendQueue' = Bounded(Append(sendQueue, m))
          /\ droppedOnOverflow' = droppedOnOverflow + Overflowed(Append(sendQueue, m))
          /\ UNCHANGED handedOver
  /\ pc' = "flush" /\ bytesThisEvent' = 0

\* flushSendQueue starts.
Flush == pc' = "flush" /\ bytesThisEvent' = 0

MayHandOver == ~quicBlocked /\ sendQueue # <<>> /\ bytesThisEvent < SendQueueLimit

\* flushSendQueue hands the newest message to QUIC.
BugHandOver ==
  /\ pc = "flush" /\ MayHandOver
  /\ LET m == sendQueue[Len(sendQueue)]
     IN  /\ conn' = Quic!SendData(conn, Stream, m.len)
         /\ bytesThisEvent' = bytesThisEvent + m.len
         /\ handedOver' = Append(handedOver, m)
  /\ sendQueue' = SubSeq(sendQueue, 1, Len(sendQueue) - 1)
  /\ UNCHANGED <<proto, up, connected, timers, droppedOnOverflow, created, nextPacketId,
                 counters, quicBlocked, pc, burst>>

\* flushSendQueue hands the oldest message to QUIC.
HandOver ==
  /\ pc = "flush" /\ MayHandOver
  /\ LET m == Head(sendQueue)
     IN  /\ conn' = Quic!SendData(conn, Stream, m.len)
         /\ bytesThisEvent' = bytesThisEvent + m.len
         /\ handedOver' = Append(handedOver, m)
  /\ sendQueue' = Tail(sendQueue)
  /\ UNCHANGED <<proto, up, connected, timers, droppedOnOverflow, created, nextPacketId,
                 counters, quicBlocked, pc, burst>>

\* The timer is forgotten.
BugArmFlush == FALSE

\* sendBytes and the flush timer leave the timer armed while messages wait.
ArmFlush == timerFlush \/ sendQueue # <<>>

\* The flush is over, and with it sendBytes; in a burst, the message is counted.
EndFlush ==
  /\ pc = "flush" /\ ~MayHandOver
  /\ timerFlush' = ArmFlush
  /\ IF burst.open
     THEN /\ pc' = "burst"
          /\ burst' = [burst EXCEPT !.left = @ - 1]
          /\ offered' = [offered EXCEPT ![burst.topic] = @ + 1]
     ELSE pc' = "idle" /\ UNCHANGED <<burst, offered>>
  /\ UNCHANGED <<proto, up, connected, topicTimers, outbound, nextSequence,
                 pubacksReceived, cleared, quicBlocked, bytesThisEvent, conn>>

-----------------------------------------------------------------------------
\* The connection.

SocketEstablished ==
  /\ pc = "idle" /\ up = "starting"
  /\ up' = "established"
  /\ SendBytes([n |-> created + 1, id |-> 0, len |-> ConnectBytes])
  /\ UNCHANGED <<proto, connected, timers, nextPacketId, counters, quicBlocked, burst, conn>>

\* The broker's CONNACK (handleIncoming, onConnack): every topic publishes at once.
Connack ==
  /\ pc = "idle" /\ up = "established" /\ ~connected
  /\ handedOver # <<>> /\ conn.requests = <<>>
  /\ connected' = TRUE
  /\ topicTimers' = Topics
  /\ UNCHANGED <<proto, up, timerFlush, outbound, counters, quicBlocked, loop, conn>>

Puback ==
  /\ pc = "idle" /\ up = "established" /\ QoS > 0
  /\ pubacksReceived + 1 + Len(conn.requests) < Len(handedOver)
  /\ pubacksReceived' = pubacksReceived + 1
  /\ UNCHANGED <<proto, up, connected, timers, outbound, nextSequence, offered, cleared,
                 quicBlocked, loop, conn>>

-----------------------------------------------------------------------------
\* Publishing.

\* A topic's timer: one burst.
PublishBurst(t) ==
  /\ pc = "idle" /\ t \in topicTimers
  /\ nextSequence[t] < MaxBursts[t] * MessagesPerBurst[t]
  /\ topicTimers' = topicTimers \ {t}
  /\ IF connected
     THEN pc' = "burst" /\ burst' = [topic |-> t, left |-> MessagesPerBurst[t], open |-> TRUE]
     ELSE UNCHANGED <<pc, burst>>
  /\ UNCHANGED <<proto, up, connected, timerFlush, outbound, counters, quicBlocked,
                 bytesThisEvent, conn>>

\* Zero is not skipped.
BugIncremented(id) == (id + 1) % PacketIds

\* nextPacketId++ and the test after it: identifiers wrap around to 1.
Incremented(id) == IF id + 1 = PacketIds THEN 1 ELSE id + 1

\* One message of the burst.
Publish ==
  /\ pc = "burst" /\ burst.left > 0
  /\ SendBytes([n   |-> created + 1,
                id  |-> IF QoS > 0 THEN nextPacketId ELSE 0,
                len |-> MessageBytes[burst.topic]])
  /\ nextPacketId' = IF QoS > 0 THEN Incremented(nextPacketId) ELSE nextPacketId
  /\ nextSequence' = [nextSequence EXCEPT ![burst.topic] = @ + 1]
  /\ UNCHANGED <<proto, up, connected, timers, offered, pubacksReceived, cleared,
                 quicBlocked, burst, conn>>

\* The burst is over: the topic's timer is armed again.
EndBurst ==
  /\ pc = "burst" /\ burst.left = 0
  /\ pc' = "idle" /\ burst' = NoBurst
  /\ topicTimers' = topicTimers \cup {burst.topic}
  /\ UNCHANGED <<proto, up, connected, timerFlush, outbound, counters, quicBlocked,
                 bytesThisEvent, conn>>

TimerFlush ==
  /\ pc = "idle" /\ timerFlush
  /\ timerFlush' = FALSE
  /\ Flush
  /\ UNCHANGED <<proto, up, connected, topicTimers, outbound, counters, quicBlocked,
                 burst, conn>>

\* stopPublishing, for a shutdown or a crash.
StopPublishing ==
  /\ pc = "idle" /\ up # "stopped"
  /\ up' = "stopped" /\ connected' = FALSE
  /\ topicTimers' = {} /\ timerFlush' = FALSE
  /\ sendQueue' = <<>> /\ cleared' = Len(sendQueue)
  /\ UNCHANGED <<proto, droppedOnOverflow, handedOver, created, nextPacketId, nextSequence,
                 offered, pubacksReceived, quicBlocked, loop, conn>>

-----------------------------------------------------------------------------
\* Indications; a stopped application gets none.

Indicated(kinds) ==
  /\ pc = "idle" /\ up = "established"
  /\ conn.inds # <<>> /\ Head(conn.inds) \in kinds
  /\ conn' = Quic!TakeIndication(conn)

\* "full" blocks; a rejected write is only counted.
FullOrRejected ==
  /\ Indicated({"full", "rejected"})
  /\ quicBlocked' = (quicBlocked \/ Head(conn.inds) = "full")
  /\ UNCHANGED <<proto, up, connected, timers, outbound, counters, loop>>

Drain ==
  /\ Indicated({"drain"})
  /\ quicBlocked' = FALSE
  /\ Flush
  /\ UNCHANGED <<proto, up, connected, timers, outbound, counters, burst>>

QuicHandleRequest ==
  /\ pc = "idle" /\ conn.requests # <<>>
  /\ conn' = Quic!HandleRequest(conn)
  /\ UNCHANGED <<proto, up, connected, timers, outbound, counters, quicBlocked, loop>>

QuicAck ==
  /\ pc = "idle" /\ conn.held[Stream] > 0
  /\ conn' = Quic!Acknowledge(conn, Stream)
  /\ UNCHANGED <<proto, up, connected, timers, outbound, counters, quicBlocked, loop>>

Loops == HandOver \/ EndFlush \/ Publish \/ EndBurst
Indication == FullOrRejected \/ Drain

Next ==
  \/ SocketEstablished \/ Connack \/ Puback \/ (\E t \in Topics : PublishBurst(t))
  \/ TimerFlush \/ StopPublishing \/ Loops \/ Indication \/ QuicHandleRequest \/ QuicAck

Spec == Init /\ [][Next]_vars

\* The event queue runs what is due, QUIC answers, the network acknowledges in the end; the
\* topics need not publish and the vehicle need not leave.  Strong fairness, because each of
\* these events waits while a loop runs: the event queue serves it between two loops.
LiveSpec ==
  Spec /\ WF_vars(Loops) /\ SF_vars(TimerFlush) /\ SF_vars(Indication)
       /\ SF_vars(QuicHandleRequest) /\ SF_vars(QuicAck)

-----------------------------------------------------------------------------
\* Properties.

\* Every variable holds what the code could store in it.
TypeOK ==
  /\ proto \in {"quic", "tcp"} /\ up \in {"starting", "established", "stopped"}
  /\ connected \in BOOLEAN /\ topicTimers \subseteq Topics /\ timerFlush \in BOOLEAN
  /\ sendQueue \in Seq(Messages) /\ handedOver \in Seq(Messages)
  /\ droppedOnOverflow \in Nat /\ quicBlocked \in BOOLEAN
  /\ nextPacketId \in 1 .. PacketIds - 1
  /\ nextSequence \in [Topics -> Nat] /\ offered \in [Topics -> Nat]
  /\ pubacksReceived \in Nat /\ created \in Nat /\ cleared \in Nat
  /\ pc \in {"idle", "burst", "flush"}
  /\ burst \in [topic : Topics, left : Nat, open : BOOLEAN]
  /\ bytesThisEvent \in Nat
  /\ conn \in Quic!Connections

\* Every message created was written to the socket, waits, was dropped on overflow and
\* counted, or was cleared by the stop (sendBytes, stopPublishing).
Accounting ==
  created = Len(handedOver) + Len(sendQueue) + droppedOnOverflow + cleared

\* The queue holds the newest messages, without a gap, in order; what was written is older
\* and went in order: the limit always costs the oldest message waiting, never one behind
\* it, and the flush is strictly first in, first out (sendBytes, flushSendQueue).
FreshestWait ==
  up # "stopped" =>
    LET oldest == created - Len(sendQueue)
    IN  /\ \A i \in 1 .. Len(sendQueue) : sendQueue[i].n = oldest + i
        /\ \A i \in 1 .. Len(handedOver) :
             /\ handedOver[i].n <= oldest
             /\ \A j \in 1 .. i - 1 : handedOver[j].n < handedOver[i].n

\* No message carries packet identifier zero, and two messages share one only when the
\* whole range was used between them (publishBurst).
IdentifiersFresh ==
  \A i, j \in 1 .. Len(handedOver) :
    LET a == handedOver[i]
        b == handedOver[j]
    IN  (QoS > 0 /\ 1 < a.n /\ a.n < b.n) =>
          a.id # 0 /\ b.id # 0 /\ (a.id = b.id => b.n - a.n >= PacketIds - 1)

\* What waits is written, unless the application stops.
QueueDrains == sendQueue # <<>> ~> sendQueue = <<>>

\* The code's claim that the scalar quicSendRejected must be 0: QUIC discards no message.
NothingRejected == conn.rejected = {}
=============================================================================
