----------------------------- MODULE MqttBroker -----------------------------
(***************************************************************************)
(* MqttBrokerApp and its clients: connecting, subscribing, the fan-out of  *)
(* each message to the subscribers of its topic, and connections closing.  *)
(* MqttSubscriberApp is whole; of the publisher only what the broker sees  *)
(* (MqttPublisher has the rest).                                           *)
(*                                                                         *)
(* A connection is two ordered streams of control packets; a step handles  *)
(* one packet of a handleIncoming loop.  Over QUIC the broker and the      *)
(* subscriber write without pacing: a write may be discarded unless QUIC   *)
(* holds nothing for that stream.                                          *)
(*                                                                         *)
(* A forwarded message is never expired: the broker forwards it at the     *)
(* instant it receives it, and an interval is at least one second.         *)
(***************************************************************************)
EXTENDS Integers, Sequences, FiniteSets

CONSTANTS
  Publishers, Subscribers,
  Topics, None,   \* None: the topic of a packet without one
  PublisherOf,    \* PublisherOf[t]
  Filters,        \* Filters[s]: the topics s subscribes to
  QoS,            \* 0 or 1, of publishers and broker
  PacketIds,      \* 2^16
  Protocols,      \* "quic", "tcp"
  MaxMessages,    \* MaxMessages[t], bound: messages of topic t
  MayLeave        \* bound: clients that may leave

ASSUME BrokerAssumption ==
  /\ None \notin Topics /\ Publishers \cap Subscribers = {} /\ IsFiniteSet(Subscribers)
  /\ PublisherOf \in [Topics -> Publishers] /\ Filters \in [Subscribers -> SUBSET Topics]
  /\ QoS \in {0, 1} /\ PacketIds \in Nat /\ PacketIds > 1
  /\ Protocols \subseteq {"quic", "tcp"} /\ MaxMessages \in [Topics -> Nat]
  /\ MayLeave \subseteq Publishers \cup Subscribers

Clients == Publishers \cup Subscribers

VARIABLES
  proto,
  client,              \* client[c]: "new", "connected", "gone"
  connack,             \* publishers: connected; subscribers: subscribed
  sockets,             \* clients the broker has a socket for
  toBroker, toClient,  \* the streams of each connection
  subscribersByTopic,
  nextPacketId,        \* the broker's
  nextSequence,        \* nextSequence[t]: messages published
  stats,               \* stats[s][t]: what s recorded
  fanOut,              \* the message the broker is forwarding, and whom to still
  forwarded,           \* forwarded[s][t]: messages counted as forwarded
  discarded            \* discarded[s][t]: those QUIC did not take

streams == <<toBroker, toClient>>
copies == <<nextPacketId, forwarded, discarded>>
vars == <<proto, client, connack, sockets, streams, subscribersByTopic, nextSequence,
          stats, fanOut, copies>>

Packets == [type : {"CONNECT", "CONNACK", "SUBSCRIBE", "SUBACK", "PUBACK"},
            topic : {None}, id : {0}, seq : {0}]
           \cup [type : {"PUBLISH"}, topic : Topics, id : 0 .. PacketIds - 1, seq : Nat]
Control(type) == [type |-> type, topic |-> None, id |-> 0, seq |-> 0]
Publication(t, id, n) == [type |-> "PUBLISH", topic |-> t, id |-> id, seq |-> n]

Nothing == [topic |-> None, seq |-> 0, to |-> {}]

NoStat == [received |-> 0, lowestSeq |-> -1, highestSeq |-> -1]

Init ==
  /\ proto \in Protocols
  /\ client = [c \in Clients |-> "new"] /\ connack = {}
  /\ sockets = {}
  /\ toBroker = [c \in Clients |-> <<>>] /\ toClient = [c \in Clients |-> <<>>]
  /\ subscribersByTopic = [t \in Topics |-> {}]
  /\ nextPacketId = 1 /\ fanOut = Nothing
  /\ nextSequence = [t \in Topics |-> 0]
  /\ stats = [s \in Subscribers |-> [t \in Filters[s] |-> NoStat]]
  /\ forwarded = [s \in Subscribers |-> [t \in Topics |-> 0]]
  /\ discarded = [s \in Subscribers |-> [t \in Topics |-> 0]]

\* What stream q holds after a write of p: QUIC may discard it when it still holds bytes of
\* the stream.  A packet that was read is taken for acknowledged.
Written(q, p) == {Append(q, p)} \cup (IF proto = "quic" /\ q # <<>> THEN {q} ELSE {})

-----------------------------------------------------------------------------
\* Connections.  No event comes while the broker forwards a message.

Idle == fanOut = Nothing /\ UNCHANGED <<proto, fanOut>>

\* The broker accepts (socketConnectionAvailable, socketAvailable); the client's
\* socket is established and it sends CONNECT.
Connect(c) ==
  /\ Idle
  /\ client[c] = "new"
  /\ client' = [client EXCEPT ![c] = "connected"]
  /\ sockets' = sockets \cup {c}
  /\ toBroker' = [toBroker EXCEPT ![c] = <<Control("CONNECT")>>]
  /\ UNCHANGED <<connack, toClient, subscribersByTopic, nextSequence, stats, copies>>

\* The client's vehicle leaves; the broker is not told yet.
Leave(c) ==
  /\ Idle
  /\ c \in MayLeave /\ client[c] = "connected"
  /\ client' = [client EXCEPT ![c] = "gone"]
  /\ UNCHANGED <<connack, sockets, streams, subscribersByTopic, nextSequence, stats,
                 copies>>

Unsubscribed(c) == [t \in Topics |-> subscribersByTopic[t] \ {c}]

SocketClosed(c) ==
  /\ Idle
  /\ client[c] = "gone" /\ c \in sockets
  /\ sockets' = sockets \ {c}
  /\ subscribersByTopic' = Unsubscribed(c)
  /\ toBroker' = [toBroker EXCEPT ![c] = <<>>]
  /\ UNCHANGED <<client, connack, toClient, nextSequence, stats, copies>>

-----------------------------------------------------------------------------
\* The broker handles the next packet of client c.

Handled(c, type) ==
  /\ fanOut = Nothing
  /\ c \in sockets /\ toBroker[c] # <<>> /\ Head(toBroker[c]).type = type
  /\ toBroker' = [toBroker EXCEPT ![c] = Tail(@)]
  /\ UNCHANGED <<proto, client, connack, sockets, nextSequence, stats>>

Answer(c, type) ==
  \E q \in Written(toClient[c], Control(type)) : toClient' = [toClient EXCEPT ![c] = q]

OnConnect(c) ==
  /\ Handled(c, "CONNECT")
  /\ Answer(c, "CONNACK")
  /\ UNCHANGED <<subscribersByTopic, fanOut, copies>>

\* Only one topic of the SUBSCRIBE is registered.
BugSubscribed(c) ==
  [subscribersByTopic EXCEPT ![CHOOSE t \in Filters[c] : TRUE] = @ \cup {c}]

\* The topics of c's SUBSCRIBE.
Subscribed(c) ==
  [t \in Topics |-> subscribersByTopic[t] \cup {s \in {c} : t \in Filters[s]}]

OnSubscribe(c) ==
  /\ Handled(c, "SUBSCRIBE")
  /\ subscribersByTopic' = Subscribed(c)
  /\ Answer(c, "SUBACK")
  /\ UNCHANGED <<fanOut, copies>>

\* A PUBACK (or a subscriber's) needs no action.
OnPuback(c) ==
  /\ Handled(c, "PUBACK")
  /\ UNCHANGED <<toClient, subscribersByTopic, fanOut, copies>>

\* onPublish: the PUBACK first; then the fan-out to the sockets of the topic.
OnPublish(c) ==
  /\ Handled(c, "PUBLISH")
  /\ LET m == Head(toBroker[c])
     IN  fanOut' = IF subscribersByTopic[m.topic] = {} THEN Nothing
                   ELSE [topic |-> m.topic, seq |-> m.seq, to |-> subscribersByTopic[m.topic]]
  /\ IF QoS > 0 THEN Answer(c, "PUBACK") ELSE UNCHANGED toClient
  /\ UNCHANGED <<subscribersByTopic, copies>>

\* Identifier zero is not skipped.
BugIncremented(id) == (id + 1) % PacketIds

Incremented(id) == IF id + 1 = PacketIds THEN 1 ELSE id + 1

\* Those still to be served after s.
Rest(s) == fanOut.to \ {s}

\* One iteration of the fan-out; a subscriber without a socket is passed over.
Forward(s) ==
  /\ s \in fanOut.to
  /\ fanOut' = IF Rest(s) = {} THEN Nothing ELSE [fanOut EXCEPT !.to = Rest(s)]
  /\ IF s \in sockets
     THEN LET p == Publication(fanOut.topic, IF QoS > 0 THEN nextPacketId ELSE 0, fanOut.seq)
          IN  \E q \in Written(toClient[s], p) :
                /\ toClient' = [toClient EXCEPT ![s] = q]
                /\ nextPacketId' = IF QoS > 0 THEN Incremented(nextPacketId) ELSE nextPacketId
                /\ forwarded' = [forwarded EXCEPT ![s][fanOut.topic] = @ + 1]
                /\ discarded' = [discarded EXCEPT ![s][fanOut.topic] =
                                   @ + Len(toClient[s]) + 1 - Len(q)]
     ELSE UNCHANGED <<toClient, copies>>
  /\ UNCHANGED <<proto, client, connack, sockets, toBroker, subscribersByTopic,
                 nextSequence, stats>>

-----------------------------------------------------------------------------
\* The clients.

Publish(t) ==
  /\ Idle
  /\ LET p == PublisherOf[t]
     IN  /\ client[p] = "connected" /\ p \in connack
         /\ \E q \in Written(toBroker[p], Publication(t, 0, nextSequence[t])) :
              toBroker' = [toBroker EXCEPT ![p] = q]
  /\ nextSequence[t] < MaxMessages[t]
  /\ nextSequence' = [nextSequence EXCEPT ![t] = @ + 1]
  /\ UNCHANGED <<client, connack, sockets, toClient, subscribersByTopic, stats, copies>>

\* Client c takes the next packet.
Taken(c, types) ==
  /\ Idle
  /\ client[c] = "connected" /\ toClient[c] # <<>> /\ Head(toClient[c]).type \in types
  /\ toClient' = [toClient EXCEPT ![c] = Tail(@)]
  /\ UNCHANGED <<client, sockets, subscribersByTopic, nextSequence, copies>>

\* onConnack: a subscriber subscribes, once, if it has topics.
OnConnack(c) ==
  /\ Taken(c, {"CONNACK"})
  /\ IF c \in Publishers \/ (c \notin connack /\ Filters[c] # {})
     THEN connack' = connack \cup {c} ELSE UNCHANGED connack
  /\ IF c \in Subscribers /\ c \notin connack /\ Filters[c] # {}
     THEN \E q \in Written(toBroker[c], Control("SUBSCRIBE")) :
            toBroker' = [toBroker EXCEPT ![c] = q]
     ELSE UNCHANGED toBroker
  /\ UNCHANGED stats

\* The first message is not counted (as it gives no jitter).
BugAddFromSecond(ts, n) ==
  [received   |-> IF ts.highestSeq < 0 THEN 0 ELSE ts.received + 1,
   lowestSeq  |-> IF ts.lowestSeq < 0 \/ n < ts.lowestSeq THEN n ELSE ts.lowestSeq,
   highestSeq |-> IF n > ts.highestSeq THEN n ELSE ts.highestSeq]

\* The lowest sequence number starts at zero, not at the first one seen.
BugAdd(ts, n) ==
  [received   |-> ts.received + 1,
   lowestSeq  |-> IF n < ts.lowestSeq THEN n ELSE IF ts.lowestSeq < 0 THEN 0 ELSE ts.lowestSeq,
   highestSeq |-> IF n > ts.highestSeq THEN n ELSE ts.highestSeq]

\* SubTrackStat::add, as far as gaps are concerned.
Add(ts, n) ==
  [received   |-> ts.received + 1,
   lowestSeq  |-> IF ts.lowestSeq < 0 \/ n < ts.lowestSeq THEN n ELSE ts.lowestSeq,
   highestSeq |-> IF n > ts.highestSeq THEN n ELSE ts.highestSeq]

\* A message: acknowledged and recorded (recordMessage).
OnMessage(s) ==
  /\ Taken(s, {"PUBLISH"})
  /\ LET m == Head(toClient[s])
     IN  stats' = [stats EXCEPT ![s][m.topic] = Add(@, m.seq)]
  /\ IF QoS > 0
     THEN \E q \in Written(toBroker[s], Control("PUBACK")) :
            toBroker' = [toBroker EXCEPT ![s] = q]
     ELSE UNCHANGED toBroker
  /\ UNCHANGED connack

OnAck(c) ==
  /\ Taken(c, {"SUBACK", "PUBACK"})
  /\ UNCHANGED <<toBroker, connack, stats>>

Broker(c) == OnConnect(c) \/ OnSubscribe(c) \/ OnPuback(c) \/ OnPublish(c)
Client(c) == OnConnack(c) \/ (c \in Subscribers /\ OnMessage(c)) \/ OnAck(c)

Next ==
  \/ \E c \in Clients : Connect(c) \/ Leave(c) \/ SocketClosed(c) \/ Broker(c) \/ Client(c)
  \/ \E s \in Subscribers : Forward(s)
  \/ \E t \in Topics : Publish(t)

Spec == Init /\ [][Next]_vars

\* The broker finishes a fan-out, and packets between it and its subscribers are handled when
\* they have come: strong fairness, because each waits while a message is forwarded.  Nobody
\* has to connect, to publish or to leave, and the broker need not notice who left.
LiveSpec ==
  /\ Spec
  /\ WF_vars(\E s \in Subscribers : Forward(s))
  /\ \A s \in Subscribers : SF_vars(Broker(s)) /\ SF_vars(Client(s))

-----------------------------------------------------------------------------
\* Properties.

\* Every variable holds what the code could store in it.
TypeOK ==
  /\ proto \in {"quic", "tcp"} /\ client \in [Clients -> {"new", "connected", "gone"}]
  /\ connack \subseteq Clients /\ sockets \subseteq Clients
  /\ toBroker \in [Clients -> Seq(Packets)] /\ toClient \in [Clients -> Seq(Packets)]
  /\ subscribersByTopic \in [Topics -> SUBSET Subscribers]
  /\ nextPacketId \in 1 .. PacketIds - 1
  /\ nextSequence \in [Topics -> Nat]
  /\ \A s \in Subscribers : stats[s] \in
       [Filters[s] -> [received : Nat, lowestSeq : Nat \cup {-1}, highestSeq : Nat \cup {-1}]]
  /\ fanOut \in [topic : Topics \cup {None}, seq : Nat, to : SUBSET Subscribers]
  /\ forwarded \in [Subscribers -> [Topics -> Nat]]
  /\ discarded \in [Subscribers -> [Topics -> Nat]]

Copies(s, t) == {i \in 1 .. Len(toClient[s]) : toClient[s][i].topic = t}

\* What the broker counts as forwarded (onPublish) was recorded, is on its way, or was
\* discarded by QUIC: no copy is made twice, for a topic not asked for, or lost by the broker.
\* `discarded' is no counter of the code but the record of what QUIC did.
ForwardedAccounted ==
  \A s \in Subscribers, t \in Topics :
    forwarded[s][t] =
      Cardinality(Copies(s, t)) + discarded[s][t]
      + (IF t \in Filters[s] THEN stats[s][t].received ELSE 0)

\* internalGaps as recordTrackStats computes it.
InternalGaps(ts) == ts.highestSeq - ts.lowestSeq + 1 - ts.received

\* Over TCP a subscriber gets a gapless run of each topic, and its statistics say so;
\* over QUIC they never report fewer than no gaps (recordMessage, recordTrackStats).  A topic
\* of which nothing came is left out: seeded from the configuration, it reports one gap.
GapsHonest ==
  \A s \in Subscribers : \A t \in Filters[s] :
    LET ts == stats[s][t]
    IN  ts.received > 0 =>
          /\ InternalGaps(ts) >= 0
          /\ proto = "tcp" => InternalGaps(ts) = 0

\* A subscriber that connects and stays ends up subscribed to all of its topics, whatever
\* QUIC discards: the handshake never writes behind another packet (Written), provided QUIC
\* takes more than one CONNECT.
Registered ==
  \A s \in Subscribers :
    client[s] = "connected" ~>
      client[s] = "gone" \/ \A t \in Filters[s] : s \in subscribersByTopic[t]
=============================================================================
