-------------------------- MODULE MqttBrokerProofs --------------------------
(* Theorems about MqttBroker, for every set of clients, topics and filters, *)
(* over TCP and over QUIC: types, the copies forwarded, the gaps that       *)
(* subscribers report, and the bytes of the packets.                        *)
EXTENDS MCMqttBroker, ByteStreamTheorems, FiniteSetTheorems

-----------------------------------------------------------------------------
(* Counting the copies of a topic in a stream.                             *)

\* The places of stream q that hold a message of topic t.
Places(q, t) == {i \in 1 .. Len(q) : q[i].topic = t}

\* One if b holds, zero if not.
Unit(b) == IF b THEN 1 ELSE 0

LEMMA PlacesFinite ==
  ASSUME NEW q \in Seq(Packets), NEW t
  PROVE  IsFiniteSet(Places(q, t)) /\ Cardinality(Places(q, t)) \in Nat
  <1>1. Len(q) \in Nat /\ IsFiniteSet(1 .. Len(q))
    BY FS_Interval
  <1>2. Places(q, t) \in SUBSET (1 .. Len(q))
    BY DEF Places
  <1>3. IsFiniteSet(Places(q, t))
    BY <1>1, <1>2, FS_Subset
  <1> QED BY <1>3, FS_CardinalityType

\* A write adds a copy of its own topic and of no other.
LEMMA PlacesAppend ==
  ASSUME NEW q \in Seq(Packets), NEW p \in Packets, NEW t
  PROVE  Cardinality(Places(Append(q, p), t)) =
           Cardinality(Places(q, t)) + Unit(p.topic = t)
  <1> DEFINE r == Append(q, p)
             n == Len(q) + 1
  <1>1. /\ Len(q) \in Nat /\ Len(r) = n /\ r[n] = p
        /\ \A i \in 1 .. Len(q) : r[i] = q[i]
    BY AppendProperties
  <1>2. IsFiniteSet(Places(q, t)) /\ Cardinality(Places(q, t)) \in Nat
    BY PlacesFinite
  <1>3. n \notin Places(q, t)
    BY <1>1 DEF Places
  <1> HIDE DEF r
  <1>4. CASE p.topic = t
    <2>1. Places(r, t) = Places(q, t) \cup {n}
      BY <1>1, <1>4 DEF Places
    <2> HIDE DEF n
    <2>2. Cardinality(Places(r, t)) = Cardinality(Places(q, t)) + 1
      BY <1>2, <1>3, <2>1, FS_AddElement
    <2> QED BY <1>4, <2>2 DEF Unit, r
  <1>5. CASE p.topic # t
    <2>1. Places(r, t) = Places(q, t)
      BY <1>1, <1>5 DEF Places
    <2> QED BY <1>2, <1>5, <2>1 DEF Unit, r
  <1> QED BY <1>4, <1>5

\* Taking a packet removes a copy of its topic and of no other.
LEMMA PlacesTail ==
  ASSUME NEW q \in Seq(Packets), q # <<>>, NEW t
  PROVE  Cardinality(Places(q, t)) =
           Cardinality(Places(Tail(q), t)) + Unit(Head(q).topic = t)
  <1> DEFINE r     == Tail(q)
             later == {i \in 2 .. Len(q) : q[i].topic = t}
             up    == [i \in Places(r, t) |-> i + 1]
  <1>1. /\ Len(q) \in Nat /\ Len(q) > 0
        /\ r \in Seq(Packets) /\ Len(r) = Len(q) - 1 /\ \A i \in 1 .. Len(r) : r[i] = q[i + 1]
        /\ Head(q) = q[1]
    BY HeadTailProperties, EmptySeq
  <1>2. IsFiniteSet(Places(r, t)) /\ Cardinality(Places(r, t)) \in Nat
    BY <1>1, PlacesFinite
  <1> HIDE DEF r
  <1>3. ExistsBijection(Places(r, t), later)
    <2>1. \A i \in Places(r, t) : i \in Nat /\ i + 1 \in later
      BY <1>1 DEF Places
    <2>2. up \in Injection(Places(r, t), later)
      BY <2>1 DEF Injection, IsInjective
    <2>3. \A j \in later : \E i \in Places(r, t) : up[i] = j
      <3> TAKE j \in later
      <3>1. j - 1 \in Places(r, t) /\ up[j - 1] = j
        BY <1>1 DEF Places
      <3> QED BY <3>1
    <2> QED BY <2>2, <2>3 DEF ExistsBijection, Bijection, Surjection, Injection
  <1>4. IsFiniteSet(later) /\ Cardinality(later) = Cardinality(Places(r, t))
    BY <1>2, <1>3, FS_Bijection
  <1>5. 1 \notin later
    OBVIOUS
  <1>6. CASE Head(q).topic = t
    <2>1. Places(q, t) = later \cup {1}
      BY <1>1, <1>6 DEF Places
    <2> HIDE DEF later
    <2>2. Cardinality(Places(q, t)) = Cardinality(later) + 1
      BY <1>4, <1>5, <2>1, FS_AddElement
    <2> QED BY <1>4, <1>6, <2>2 DEF Unit, r
  <1>7. CASE Head(q).topic # t
    <2>1. Places(q, t) = later
      BY <1>1, <1>7 DEF Places
    <2> QED BY <1>2, <1>4, <1>7, <2>1 DEF Unit, r
  <1> QED BY <1>6, <1>7


-----------------------------------------------------------------------------
(* Streams of packets.                                                     *)

\* The packets in stream q.
On(q) == {q[i] : i \in 1 .. Len(q)}

LEMMA ControlPacket ==
  ASSUME NEW type \in {"CONNECT", "CONNACK", "SUBSCRIBE", "SUBACK", "PUBACK"}
  PROVE  Control(type) \in Packets /\ Control(type).topic = None /\ Control(type).type = type
  BY DEF Control, Packets

LEMMA PublicationPacket ==
  ASSUME NEW t \in Topics, NEW id \in 0 .. PacketIds - 1, NEW n \in Nat
  PROVE  /\ Publication(t, id, n) \in Packets
         /\ Publication(t, id, n).topic = t /\ Publication(t, id, n).type = "PUBLISH"
  BY DEF Publication, Packets

\* A packet with a topic is a message.
LEMMA PacketTopic ==
  ASSUME NEW p \in Packets
  PROVE  IF p.type = "PUBLISH" THEN p.topic \in Topics /\ p.seq \in Nat ELSE p.topic = None
  BY DEF Packets

LEMMA OnHead ==
  ASSUME NEW q \in Seq(Packets), q # <<>>
  PROVE  /\ Head(q) \in On(q) /\ Head(q) \in Packets
         /\ Tail(q) \in Seq(Packets) /\ On(Tail(q)) \subseteq On(q)
  <1>1. /\ Len(q) \in Nat /\ Len(q) > 0 /\ Head(q) = q[1]
        /\ Head(q) \in Packets /\ Tail(q) \in Seq(Packets) /\ Len(Tail(q)) = Len(q) - 1
        /\ \A i \in 1 .. Len(Tail(q)) : Tail(q)[i] = q[i + 1]
    BY HeadTailProperties, EmptySeq
  <1>2. Head(q) \in On(q)
    BY <1>1 DEF On
  <1>3. \A i \in 1 .. Len(Tail(q)) : i + 1 \in 1 .. Len(q)
    BY <1>1
  <1>4. \A i \in 1 .. Len(Tail(q)) : Tail(q)[i] \in On(q)
    BY <1>1, <1>3 DEF On
  <1> QED BY <1>1, <1>2, <1>4 DEF On

\* A write appends its packet or, over QUIC, may leave the stream as it is.
LEMMA WrittenProperties ==
  ASSUME NEW q \in Seq(Packets), NEW p \in Packets, NEW r \in Written(q, p)
  PROVE  /\ r \in Seq(Packets) /\ On(r) \subseteq On(q) \cup {p}
         /\ Len(q) + 1 - Len(r) \in {0, 1}
         /\ \A t : Cardinality(Places(r, t)) + (IF p.topic = t THEN Len(q) + 1 - Len(r) ELSE 0)
                     = Cardinality(Places(q, t)) + Unit(p.topic = t)
  <1>1. Len(q) \in Nat
    OBVIOUS
  <1>2. \A t : Cardinality(Places(q, t)) \in Nat
    BY PlacesFinite
  <1>3. CASE r = q
    BY <1>1, <1>2, <1>3 DEF Unit
  <1>4. CASE r = Append(q, p)
    <2>1. /\ r \in Seq(Packets) /\ Len(r) = Len(q) + 1 /\ r[Len(q) + 1] = p
          /\ \A i \in 1 .. Len(q) : r[i] = q[i]
      BY <1>4, AppendProperties
    <2>2. On(r) \subseteq On(q) \cup {p}
      BY <1>1, <2>1 DEF On
    <2>3. \A t : Cardinality(Places(r, t)) = Cardinality(Places(q, t)) + Unit(p.topic = t)
      BY <1>4, PlacesAppend
    <2>4. \A t : Unit(p.topic = t) \in Nat
      BY DEF Unit
    <2>5. Len(q) + 1 - Len(r) = 0
      BY <1>1, <2>1
    <2> HIDE <1>4
    <2>6. \A t : Cardinality(Places(r, t)) + (IF p.topic = t THEN Len(q) + 1 - Len(r) ELSE 0)
                   = Cardinality(Places(q, t)) + Unit(p.topic = t)
      <3> TAKE t
      <3> DEFINE more == IF p.topic = t THEN Len(q) + 1 - Len(r) ELSE 0
      <3>1. more = 0
        BY <2>5
      <3>2. Cardinality(Places(r, t)) \in Nat
        BY <2>1, PlacesFinite
      <3> HIDE DEF more
      <3>3. Cardinality(Places(r, t)) + more = Cardinality(Places(r, t))
        BY <3>1, <3>2
      <3> QED BY <2>3, <3>3 DEF more
    <2> QED BY <2>1, <2>2, <2>5, <2>6
  <1> QED BY <1>3, <1>4 DEF Written

-----------------------------------------------------------------------------
(* The inductive invariant.                                                *)

\* Only subscribers subscribe, and a message goes to a subscriber of its topic.
Requested(c, p) == p.type = "SUBSCRIBE" => c \in Subscribers
Wanted(c, p) == p.type = "PUBLISH" => c \in Subscribers /\ p.topic \in Filters[c]

\* ForwardedAccounted of the values given.
Counted(fwd, down, disc, st) ==
  \A s \in Subscribers, t \in Topics :
    fwd[s][t] = Cardinality(Places(down[s], t)) + disc[s][t]
                + (IF t \in Filters[s] THEN st[s][t].received ELSE 0)

BrokerInv ==
  /\ TypeOK
  /\ stats = [s \in Subscribers |-> stats[s]]
  /\ \A t \in Topics : \A s \in subscribersByTopic[t] : t \in Filters[s]
  /\ \A s \in fanOut.to : fanOut.topic \in Filters[s]
  /\ \A c \in Clients : \A p \in On(toBroker[c]) : Requested(c, p)
  /\ \A c \in Clients : \A p \in On(toClient[c]) : Wanted(c, p)
  /\ Counted(forwarded, toClient, discarded, stats)

\* The counts do not see a control packet written or taken.
LEMMA CountedControl ==
  ASSUME NEW fwd, NEW disc, NEW st, NEW down \in [Clients -> Seq(Packets)],
         NEW c \in Clients, NEW q \in Seq(Packets),
         \A t \in Topics : Cardinality(Places(q, t)) = Cardinality(Places(down[c], t)),
         Counted(fwd, down, disc, st)
  PROVE  Counted(fwd, [down EXCEPT ![c] = q], disc, st)
  BY DEF Counted, Clients

LEMMA CountedAnswer ==
  ASSUME BrokerInv, BrokerAssumption, NEW c \in Clients,
         NEW type \in {"CONNACK", "SUBACK", "PUBACK"}, Answer(c, type)
  PROVE  /\ toClient' \in [Clients -> Seq(Packets)]
         /\ \A d \in Clients : \A p \in On(toClient'[d]) : Wanted(d, p)
         /\ Counted(forwarded, toClient', discarded, stats)
  <1>1. PICK q \in Written(toClient[c], Control(type)) : toClient' = [toClient EXCEPT ![c] = q]
    BY DEF Answer
  <1>2. toClient \in [Clients -> Seq(Packets)] /\ toClient[c] \in Seq(Packets)
    BY DEF BrokerInv, TypeOK
  <1>3. Control(type) \in Packets /\ Control(type).topic = None /\ Control(type).type = type
    BY ControlPacket
  <1>4. /\ q \in Seq(Packets) /\ On(q) \subseteq On(toClient[c]) \cup {Control(type)}
        /\ \A t : Cardinality(Places(q, t)) +
                    (IF Control(type).topic = t THEN Len(toClient[c]) + 1 - Len(q) ELSE 0)
                  = Cardinality(Places(toClient[c], t)) + Unit(Control(type).topic = t)
    BY <1>1, <1>2, <1>3, WrittenProperties
  <1>5. ASSUME NEW t \in Topics
        PROVE  Cardinality(Places(q, t)) = Cardinality(Places(toClient[c], t))
    <2>1. Control(type).topic # t
      BY <1>3 DEF BrokerAssumption
    <2>2. Cardinality(Places(q, t)) \in Nat /\ Cardinality(Places(toClient[c], t)) \in Nat
      BY <1>2, <1>4, PlacesFinite
    <2>3. Cardinality(Places(q, t)) + 0 = Cardinality(Places(toClient[c], t)) + 0
      BY <1>4, <2>1 DEF Unit
    <2> QED BY <2>2, <2>3
  <1>6. Counted(forwarded, toClient', discarded, stats)
    BY <1>1, <1>2, <1>4, <1>5, CountedControl DEF BrokerInv
  <1>7. ASSUME NEW d \in Clients, NEW p \in On(toClient'[d])
        PROVE  Wanted(d, p)
    <2>1. p \in On(toClient[d]) \/ p = Control(type)
      BY <1>1, <1>2, <1>4
    <2> QED BY <1>3, <2>1 DEF BrokerInv, Wanted
  <1> QED BY <1>1, <1>2, <1>4, <1>6, <1>7

\* A write of a client to the broker.
LEMMA RequestedWritten ==
  ASSUME BrokerInv, NEW c \in Clients, NEW p \in Packets, Requested(c, p),
         NEW q \in Written(toBroker[c], p), toBroker' = [toBroker EXCEPT ![c] = q]
  PROVE  /\ toBroker' \in [Clients -> Seq(Packets)]
         /\ \A d \in Clients : \A r \in On(toBroker'[d]) : Requested(d, r)
  <1>1. toBroker \in [Clients -> Seq(Packets)] /\ toBroker[c] \in Seq(Packets)
    BY DEF BrokerInv, TypeOK
  <1>2. q \in Seq(Packets) /\ On(q) \subseteq On(toBroker[c]) \cup {p}
    BY <1>1, WrittenProperties
  <1>3. ASSUME NEW d \in Clients, NEW r \in On(toBroker'[d])
        PROVE  Requested(d, r)
    <2>1. r \in On(toBroker[d]) \/ (d = c /\ r = p)
      BY <1>1, <1>2
    <2> QED BY <2>1 DEF BrokerInv
  <1> QED BY <1>1, <1>2, <1>3


-----------------------------------------------------------------------------
(* The initial states, and the steps of connections.                       *)

LEMMA InitEstablishes ==
  ASSUME BrokerAssumption, Init
  PROVE  BrokerInv
  <1>1. <<>> \in Seq(Packets) /\ On(<<>>) = {}
    BY EmptySeq DEF On
  <1>2. \A t : Cardinality(Places(<<>>, t)) = 0
    <2> TAKE t
    <2>1. Places(<<>>, t) = {}
      BY EmptySeq DEF Places
    <2> QED BY <2>1, FS_EmptySet
  <1>3. \A s \in Subscribers : stats[s] = [t \in Filters[s] |-> NoStat]
    BY DEF Init
  <1>4. TypeOK
    <2>1. NoStat \in [received : Nat, lowestSeq : Nat \cup {-1}, highestSeq : Nat \cup {-1}]
      BY DEF NoStat
    <2>2. Nothing \in [topic : Topics \cup {None}, seq : Nat, to : SUBSET Subscribers]
      BY DEF Nothing
    <2>3. proto \in {"quic", "tcp"} /\ nextPacketId \in 1 .. PacketIds - 1
      BY DEF Init, BrokerAssumption
    <2> QED BY <1>1, <1>3, <2>1, <2>2, <2>3 DEF TypeOK, Init
  <1>5. stats = [s \in Subscribers |-> stats[s]]
    BY DEF Init
  <1>6. Counted(forwarded, toClient, discarded, stats)
    <2> SUFFICES ASSUME NEW s \in Subscribers, NEW t \in Topics
                 PROVE  forwarded[s][t] =
                          Cardinality(Places(toClient[s], t)) + discarded[s][t]
                          + (IF t \in Filters[s] THEN stats[s][t].received ELSE 0)
      BY DEF Counted
    <2>1. t \in Filters[s] => stats[s][t].received = 0
      <3>1. NoStat.received = 0
        BY DEF NoStat
      <3>2. ASSUME t \in Filters[s]
            PROVE  stats[s][t] = NoStat
        <4>1. stats[s] = [u \in Filters[s] |-> NoStat]
          BY <1>3
        <4> QED BY <3>2, <4>1
      <3> QED BY <3>1, <3>2
    <2>2. forwarded[s][t] = 0 /\ discarded[s][t] = 0 /\ toClient[s] = <<>>
      BY DEF Init, Clients
    <2> QED BY <1>2, <2>1, <2>2
  <1>7. \A c \in Clients : toBroker[c] = <<>> /\ toClient[c] = <<>>
    BY DEF Init
  <1>8. fanOut.to = {} /\ \A t \in Topics : subscribersByTopic[t] = {}
    BY DEF Init, Nothing
  <1> QED BY <1>1, <1>4, <1>5, <1>6, <1>7, <1>8 DEF BrokerInv

\* A step that changes only what the invariant says nothing of but the type.
LEMMA StutterKeeps ==
  ASSUME BrokerInv, UNCHANGED vars
  PROVE  BrokerInv'
  BY DEF BrokerInv, TypeOK, Counted, Requested, Wanted, vars, streams, copies

LEMMA ConnectKeeps ==
  ASSUME BrokerInv, NEW c \in Clients, Connect(c)
  PROVE  BrokerInv'
  <1> DEFINE p == Control("CONNECT")
  <1>1. p \in Packets /\ p.type = "CONNECT"
    BY ControlPacket
  <1> HIDE DEF p
  <1>2. <<p>> \in Seq(Packets) /\ On(<<p>>) = {p}
    BY <1>1 DEF On
  <1>3. /\ toBroker' = [toBroker EXCEPT ![c] = <<p>>]
        /\ toBroker \in [Clients -> Seq(Packets)]
    BY DEF Connect, p, BrokerInv, TypeOK
  <1>4. \A d \in Clients : \A r \in On(toBroker'[d]) : Requested(d, r)
    <2> SUFFICES ASSUME NEW d \in Clients, NEW r \in On(toBroker'[d])
                 PROVE  Requested(d, r)
      OBVIOUS
    <2>1. CASE d = c
      BY <1>1, <1>2, <1>3, <2>1 DEF Requested
    <2>2. CASE d # c
      BY <1>3, <2>2 DEF BrokerInv
    <2> QED BY <2>1, <2>2
  <1>5. TypeOK'
    BY <1>2, <1>3 DEF BrokerInv, TypeOK, Connect, Idle, copies
  <1> QED BY <1>4, <1>5 DEF BrokerInv, Connect, Idle, copies, Counted, Wanted, Requested

LEMMA LeaveKeeps ==
  ASSUME BrokerInv, NEW c \in Clients, Leave(c)
  PROVE  BrokerInv'
  BY DEF BrokerInv, TypeOK, Leave, Idle, streams, copies, Counted, Wanted, Requested

LEMMA SocketClosedKeeps ==
  ASSUME BrokerInv, NEW c \in Clients, SocketClosed(c)
  PROVE  BrokerInv'
  <1>1. <<>> \in Seq(Packets) /\ On(<<>>) = {}
    BY EmptySeq DEF On
  <1>2. /\ toBroker' = [toBroker EXCEPT ![c] = <<>>]
        /\ toBroker \in [Clients -> Seq(Packets)]
    BY DEF SocketClosed, BrokerInv, TypeOK
  <1>3. \A d \in Clients : \A r \in On(toBroker'[d]) : Requested(d, r)
    BY <1>1, <1>2 DEF BrokerInv
  <1>4. /\ subscribersByTopic' \in [Topics -> SUBSET Subscribers]
        /\ \A t \in Topics : subscribersByTopic'[t] \subseteq subscribersByTopic[t]
    BY DEF SocketClosed, Unsubscribed, BrokerInv, TypeOK
  <1>5. TypeOK'
    BY <1>1, <1>2, <1>4 DEF BrokerInv, TypeOK, SocketClosed, Idle, copies
  <1> QED BY <1>3, <1>4, <1>5
        DEF BrokerInv, SocketClosed, Idle, copies, Counted, Wanted, Requested

-----------------------------------------------------------------------------
(* The steps of the broker.                                                *)

\* What every handler of a packet does to the stream it reads.
LEMMA HandledProperties ==
  ASSUME BrokerInv, NEW c \in Clients, NEW type, Handled(c, type)
  PROVE  /\ toBroker' \in [Clients -> Seq(Packets)]
         /\ \A d \in Clients : \A r \in On(toBroker'[d]) : Requested(d, r)
         /\ Head(toBroker[c]) \in Packets /\ Head(toBroker[c]).type = type
         /\ Requested(c, Head(toBroker[c]))
  <1>1. /\ toBroker' = [toBroker EXCEPT ![c] = Tail(@)]
        /\ toBroker \in [Clients -> Seq(Packets)] /\ toBroker[c] # <<>>
        /\ Head(toBroker[c]).type = type
    BY DEF Handled, BrokerInv, TypeOK
  <1>2. /\ Head(toBroker[c]) \in On(toBroker[c]) /\ Head(toBroker[c]) \in Packets
        /\ Tail(toBroker[c]) \in Seq(Packets) /\ On(Tail(toBroker[c])) \subseteq On(toBroker[c])
    BY <1>1, OnHead
  <1>3. ASSUME NEW d \in Clients, NEW r \in On(toBroker'[d])
        PROVE  Requested(d, r)
    <2>1. r \in On(toBroker[d])
      BY <1>1, <1>2
    <2> QED BY <2>1 DEF BrokerInv
  <1> QED BY <1>1, <1>2, <1>3 DEF BrokerInv

LEMMA OnConnectKeeps ==
  ASSUME BrokerAssumption, BrokerInv, NEW c \in Clients, OnConnect(c)
  PROVE  BrokerInv'
  <1>1. Handled(c, "CONNECT") /\ Answer(c, "CONNACK")
    BY DEF OnConnect
  <1>2. /\ toClient' \in [Clients -> Seq(Packets)]
        /\ \A d \in Clients : \A p \in On(toClient'[d]) : Wanted(d, p)
        /\ Counted(forwarded, toClient', discarded, stats)
    BY <1>1, CountedAnswer
  <1>3. /\ toBroker' \in [Clients -> Seq(Packets)]
        /\ \A d \in Clients : \A r \in On(toBroker'[d]) : Requested(d, r)
    BY <1>1, HandledProperties
  <1>4. UNCHANGED <<proto, client, connack, sockets, nextSequence, stats,
                    subscribersByTopic, fanOut, nextPacketId, forwarded, discarded>>
    BY DEF OnConnect, Handled, copies
  <1>5. TypeOK'
    BY <1>2, <1>3, <1>4 DEF BrokerInv, TypeOK
  <1> QED BY <1>2, <1>3, <1>4, <1>5 DEF BrokerInv

LEMMA OnSubscribeKeeps ==
  ASSUME BrokerAssumption, BrokerInv, NEW c \in Clients, OnSubscribe(c)
  PROVE  BrokerInv'
  <1>1. Handled(c, "SUBSCRIBE") /\ Answer(c, "SUBACK")
    BY DEF OnSubscribe
  <1>2. /\ toClient' \in [Clients -> Seq(Packets)]
        /\ \A d \in Clients : \A p \in On(toClient'[d]) : Wanted(d, p)
        /\ Counted(forwarded, toClient', discarded, stats)
    BY <1>1, CountedAnswer
  <1>3. /\ toBroker' \in [Clients -> Seq(Packets)]
        /\ \A d \in Clients : \A r \in On(toBroker'[d]) : Requested(d, r)
        /\ Head(toBroker[c]).type = "SUBSCRIBE" /\ Requested(c, Head(toBroker[c]))
    BY <1>1, HandledProperties
  <1>4. UNCHANGED <<proto, client, connack, sockets, nextSequence, stats,
                    fanOut, nextPacketId, forwarded, discarded>>
    BY DEF OnSubscribe, Handled, copies
  <1>5. c \in Subscribers
    BY <1>3 DEF Requested
  <1>6. /\ subscribersByTopic' \in [Topics -> SUBSET Subscribers]
        /\ \A t \in Topics : \A s \in subscribersByTopic'[t] : t \in Filters[s]
    BY <1>5 DEF OnSubscribe, Subscribed, BrokerInv, TypeOK
  <1>7. TypeOK'
    BY <1>2, <1>3, <1>4, <1>6 DEF BrokerInv, TypeOK
  <1> QED BY <1>2, <1>3, <1>4, <1>6, <1>7 DEF BrokerInv

LEMMA OnPubackKeeps ==
  ASSUME BrokerInv, NEW c \in Clients, OnPuback(c)
  PROVE  BrokerInv'
  <1>1. /\ toBroker' \in [Clients -> Seq(Packets)]
        /\ \A d \in Clients : \A r \in On(toBroker'[d]) : Requested(d, r)
    BY HandledProperties DEF OnPuback
  <1>2. UNCHANGED <<proto, client, connack, sockets, nextSequence, stats, toClient,
                    subscribersByTopic, fanOut, nextPacketId, forwarded, discarded>>
    BY DEF OnPuback, Handled, copies
  <1>3. TypeOK'
    BY <1>1, <1>2 DEF BrokerInv, TypeOK
  <1> QED BY <1>1, <1>2, <1>3 DEF BrokerInv

LEMMA OnPublishKeeps ==
  ASSUME BrokerAssumption, BrokerInv, NEW c \in Clients, OnPublish(c)
  PROVE  BrokerInv'
  <1> DEFINE m == Head(toBroker[c])
  <1>1. Handled(c, "PUBLISH")
    BY DEF OnPublish
  <1>2. /\ toBroker' \in [Clients -> Seq(Packets)]
        /\ \A d \in Clients : \A r \in On(toBroker'[d]) : Requested(d, r)
        /\ m \in Packets /\ m.type = "PUBLISH"
    BY <1>1, HandledProperties
  <1>3. m.topic \in Topics /\ m.seq \in Nat
    BY <1>2, PacketTopic
  <1>4. UNCHANGED <<proto, client, connack, sockets, nextSequence, stats,
                    subscribersByTopic, nextPacketId, forwarded, discarded>>
    BY DEF OnPublish, Handled, copies
  <1>5. /\ toClient' \in [Clients -> Seq(Packets)]
        /\ \A d \in Clients : \A p \in On(toClient'[d]) : Wanted(d, p)
        /\ Counted(forwarded, toClient', discarded, stats)
    <2>1. CASE QoS > 0
      <3>1. Answer(c, "PUBACK")
        BY <2>1 DEF OnPublish
      <3> QED BY <3>1, CountedAnswer
    <2>2. CASE ~(QoS > 0)
      BY <2>2 DEF OnPublish, BrokerInv, TypeOK
    <2> QED BY <2>1, <2>2
  <1>6. /\ fanOut' \in [topic : Topics \cup {None}, seq : Nat, to : SUBSET Subscribers]
        /\ \A s \in fanOut'.to : fanOut'.topic \in Filters[s]
    <2> DEFINE f == [topic |-> m.topic, seq |-> m.seq, to |-> subscribersByTopic[m.topic]]
    <2>1. fanOut' = Nothing \/ fanOut' = f
      BY DEF OnPublish
    <2>2. /\ subscribersByTopic[m.topic] \in SUBSET Subscribers
          /\ \A s \in subscribersByTopic[m.topic] : m.topic \in Filters[s]
      BY <1>3 DEF BrokerInv, TypeOK
    <2>3. CASE fanOut' = Nothing
      BY <2>3 DEF Nothing
    <2>4. CASE fanOut' = f
      BY <1>3, <2>2, <2>4
    <2> QED BY <2>1, <2>3, <2>4
  <1>7. TypeOK'
    BY <1>2, <1>4, <1>5, <1>6 DEF BrokerInv, TypeOK
  <1> QED BY <1>2, <1>4, <1>5, <1>6, <1>7 DEF BrokerInv


\* A forwarded message gets the next identifier, which is never zero.
LEMMA IncrementedType ==
  ASSUME BrokerAssumption, NEW id \in 1 .. PacketIds - 1
  PROVE  Incremented(id) \in 1 .. PacketIds - 1
  BY DEF Incremented, BrokerAssumption

\* The values of the counters after subscriber s was sent, or not, one copy for topic t.
LEMMA ForwardCounts ==
  ASSUME BrokerInv, NEW s \in Subscribers, NEW t \in Topics, NEW p \in Packets,
         p.topic = t, NEW q \in Written(toClient[s], p),
         toClient' = [toClient EXCEPT ![s] = q],
         forwarded' = [forwarded EXCEPT ![s][t] = @ + 1],
         discarded' = [discarded EXCEPT ![s][t] = @ + Len(toClient[s]) + 1 - Len(q)]
  PROVE  /\ forwarded' \in [Subscribers -> [Topics -> Nat]]
         /\ discarded' \in [Subscribers -> [Topics -> Nat]]
         /\ Counted(forwarded', toClient', discarded', stats)
  <1> DEFINE lost == Len(toClient[s]) + 1 - Len(q)
  <1>1. /\ toClient \in [Clients -> Seq(Packets)] /\ s \in Clients
        /\ toClient[s] \in Seq(Packets)
        /\ forwarded \in [Subscribers -> [Topics -> Nat]]
        /\ discarded \in [Subscribers -> [Topics -> Nat]]
    BY DEF BrokerInv, TypeOK, Clients
  <1>2. /\ q \in Seq(Packets) /\ lost \in {0, 1}
        /\ \A u : Cardinality(Places(q, u)) + (IF t = u THEN lost ELSE 0)
                    = Cardinality(Places(toClient[s], u)) + Unit(t = u)
    BY <1>1, WrittenProperties
  <1>3. discarded[s][t] + Len(toClient[s]) + 1 - Len(q) = discarded[s][t] + lost
    BY <1>1, <1>2
  <1> HIDE DEF lost
  <1>4. discarded' = [discarded EXCEPT ![s][t] = discarded[s][t] + lost]
    BY <1>1, <1>3
  <1>5. /\ forwarded' \in [Subscribers -> [Topics -> Nat]]
        /\ discarded' \in [Subscribers -> [Topics -> Nat]]
    <2>1. /\ forwarded[s][t] + 1 \in Nat /\ discarded[s][t] + lost \in Nat
          /\ forwarded[s] \in [Topics -> Nat] /\ discarded[s] \in [Topics -> Nat]
      BY <1>1, <1>2
    <2>2. /\ [forwarded[s] EXCEPT ![t] = forwarded[s][t] + 1] \in [Topics -> Nat]
          /\ [discarded[s] EXCEPT ![t] = discarded[s][t] + lost] \in [Topics -> Nat]
      BY <2>1
    <2> QED BY <1>1, <1>4, <2>2
  <1>6. ASSUME NEW r \in Subscribers, NEW u \in Topics
        PROVE  forwarded'[r][u] =
                 Cardinality(Places(toClient'[r], u)) + discarded'[r][u]
                 + (IF u \in Filters[r] THEN stats[r][u].received ELSE 0)
    <2> DEFINE recorded == IF u \in Filters[r] THEN stats[r][u].received ELSE 0
    <2>1. /\ forwarded[r][u] =
               Cardinality(Places(toClient[r], u)) + discarded[r][u] + recorded
          /\ recorded \in Nat
      <3>1. forwarded[r][u] =
               Cardinality(Places(toClient[r], u)) + discarded[r][u] + recorded
        BY DEF BrokerInv, Counted
      <3>2. ASSUME u \in Filters[r]
            PROVE  stats[r][u].received \in Nat
        <4>1. stats[r][u] \in
                [received : Nat, lowestSeq : Nat \cup {-1}, highestSeq : Nat \cup {-1}]
          BY <3>2 DEF BrokerInv, TypeOK
        <4> QED BY <4>1
      <3> QED BY <3>1, <3>2
    <2>2. /\ Cardinality(Places(toClient[r], u)) \in Nat
          /\ Cardinality(Places(q, u)) \in Nat
          /\ discarded[r][u] \in Nat
      <3>1. toClient[r] \in Seq(Packets)
        BY <1>1 DEF Clients
      <3> QED BY <1>1, <1>2, <3>1, PlacesFinite
    <2> HIDE DEF recorded
    <2>3. CASE r # s
      <3>1. /\ forwarded'[r][u] = forwarded[r][u] /\ discarded'[r][u] = discarded[r][u]
            /\ toClient'[r] = toClient[r]
        BY <1>1, <1>4, <2>3 DEF Clients
      <3> QED BY <2>1, <3>1 DEF recorded
    <2>4. CASE r = s /\ u # t
      <3>1. /\ forwarded'[r][u] = forwarded[r][u] /\ discarded'[r][u] = discarded[r][u]
            /\ toClient'[r] = q
        BY <1>1, <1>4, <2>4
      <3>2. Cardinality(Places(q, u)) + 0 = Cardinality(Places(toClient[r], u)) + 0
        BY <1>2, <2>4 DEF Unit
      <3>3. Cardinality(Places(q, u)) = Cardinality(Places(toClient[r], u))
        BY <2>2, <3>2
      <3> QED BY <2>1, <3>1, <3>3 DEF recorded
    <2>5. CASE r = s /\ u = t
      <3>1. /\ forwarded'[r][u] = forwarded[r][u] + 1
            /\ discarded'[r][u] = discarded[r][u] + lost
            /\ toClient'[r] = q
        BY <1>1, <1>4, <2>5
      <3>2. Cardinality(Places(q, u)) + lost = Cardinality(Places(toClient[r], u)) + 1
        BY <1>2, <2>5 DEF Unit
      <3> DEFINE old == Cardinality(Places(toClient[r], u))
                 new == Cardinality(Places(q, u))
      <3>3. old \in Nat /\ new \in Nat /\ lost \in Nat /\ new + lost = old + 1
        BY <1>2, <2>2, <3>2
      <3>4. forwarded[r][u] = old + discarded[r][u] + recorded
        BY <2>1
      <3>5. discarded[r][u] \in Nat /\ recorded \in Nat
        BY <2>1, <2>2
      <3> HIDE DEF old, new
      <3>6. forwarded[r][u] + 1 = new + (discarded[r][u] + lost) + recorded
        BY ONLY <3>3, <3>4, <3>5
      <3> QED BY <3>1, <3>6 DEF recorded, new
    <2> QED BY <2>3, <2>4, <2>5
  <1>7. Counted(forwarded', toClient', discarded', stats)
    BY <1>6 DEF Counted
  <1> QED BY <1>5, <1>7

LEMMA ForwardKeeps ==
  ASSUME BrokerAssumption, BrokerInv, NEW s \in Subscribers, Forward(s)
  PROVE  BrokerInv'
  <1> DEFINE t == fanOut.topic
             id == IF QoS > 0 THEN nextPacketId ELSE 0
             p == Publication(t, id, fanOut.seq)
  <1>1. /\ s \in fanOut.to /\ s \in Clients /\ t \in Filters[s]
        /\ fanOut \in [topic : Topics \cup {None}, seq : Nat, to : SUBSET Subscribers]
        /\ nextPacketId \in 1 .. PacketIds - 1
    BY DEF Forward, BrokerInv, TypeOK, Clients
  <1>2. t \in Topics
    BY <1>1 DEF BrokerAssumption
  <1>3. p \in Packets /\ p.topic = t /\ p.type = "PUBLISH"
    <2>1. id \in 0 .. PacketIds - 1 /\ fanOut.seq \in Nat
      BY <1>1 DEF BrokerAssumption
    <2> HIDE DEF id, t
    <2> QED BY <1>2, <2>1, PublicationPacket
  <1>4. /\ fanOut' \in [topic : Topics \cup {None}, seq : Nat, to : SUBSET Subscribers]
        /\ \A r \in fanOut'.to : fanOut'.topic \in Filters[r]
    <2>1. fanOut' = Nothing \/ fanOut' = [fanOut EXCEPT !.to = Rest(s)]
      BY DEF Forward
    <2>2. CASE fanOut' = Nothing
      BY <2>2 DEF Nothing
    <2>3. CASE fanOut' = [fanOut EXCEPT !.to = Rest(s)]
      BY <1>1, <2>3 DEF Rest, BrokerInv
    <2> QED BY <2>1, <2>2, <2>3
  <1>5. UNCHANGED <<proto, client, connack, sockets, toBroker, subscribersByTopic,
                    nextSequence, stats>>
    BY DEF Forward
  <1>6. CASE s \in sockets
    <2>1. PICK q \in Written(toClient[s], p) :
            /\ toClient' = [toClient EXCEPT ![s] = q]
            /\ nextPacketId' = IF QoS > 0 THEN Incremented(nextPacketId) ELSE nextPacketId
            /\ forwarded' = [forwarded EXCEPT ![s][t] = @ + 1]
            /\ discarded' = [discarded EXCEPT ![s][t] = @ + Len(toClient[s]) + 1 - Len(q)]
      BY <1>6 DEF Forward
    <2> HIDE DEF p, t
    <2>2. /\ forwarded' \in [Subscribers -> [Topics -> Nat]]
          /\ discarded' \in [Subscribers -> [Topics -> Nat]]
          /\ Counted(forwarded', toClient', discarded', stats)
      BY <1>2, <1>3, <2>1, ForwardCounts
    <2>3. toClient \in [Clients -> Seq(Packets)] /\ toClient[s] \in Seq(Packets)
      BY <1>1 DEF BrokerInv, TypeOK
    <2>4. q \in Seq(Packets) /\ On(q) \subseteq On(toClient[s]) \cup {p}
      BY <1>3, <2>1, <2>3, WrittenProperties
    <2>5. toClient' \in [Clients -> Seq(Packets)]
      BY <2>1, <2>3, <2>4
    <2>6. ASSUME NEW c \in Clients, NEW r \in On(toClient'[c])
          PROVE  Wanted(c, r)
      <3>1. r \in On(toClient[c]) \/ (c = s /\ r = p)
        BY <2>1, <2>3, <2>4
      <3>2. Wanted(s, p)
        BY <1>1, <1>3 DEF Wanted, t
      <3> QED BY <3>1, <3>2 DEF BrokerInv
    <2>7. nextPacketId' \in 1 .. PacketIds - 1
      BY <1>1, <2>1, IncrementedType
    <2>8. TypeOK'
      BY <1>4, <1>5, <2>2, <2>5, <2>7 DEF BrokerInv, TypeOK
    <2> QED BY <1>4, <1>5, <2>2, <2>6, <2>8 DEF BrokerInv
  <1>7. CASE s \notin sockets
    <2>1. UNCHANGED <<toClient, nextPacketId, forwarded, discarded>>
      BY <1>7 DEF Forward, copies
    <2>2. TypeOK'
      BY <1>4, <1>5, <2>1 DEF BrokerInv, TypeOK
    <2> QED BY <1>4, <1>5, <2>1, <2>2 DEF BrokerInv
  <1> QED BY <1>6, <1>7

-----------------------------------------------------------------------------
(* The steps of the clients.                                               *)

LEMMA PublishKeeps ==
  ASSUME BrokerAssumption, BrokerInv, NEW t \in Topics, Publish(t)
  PROVE  BrokerInv'
  <1> DEFINE c == PublisherOf[t]
             p == Publication(t, 0, nextSequence[t])
  <1>1. c \in Clients
    BY DEF BrokerAssumption, Clients
  <1>2. nextSequence \in [Topics -> Nat] /\ nextSequence[t] \in Nat
    BY DEF BrokerInv, TypeOK
  <1>3. p \in Packets /\ p.type = "PUBLISH"
    <2>1. 0 \in 0 .. PacketIds - 1
      BY DEF BrokerAssumption
    <2> QED BY <1>2, <2>1, PublicationPacket
  <1>4. PICK q \in Written(toBroker[c], p) : toBroker' = [toBroker EXCEPT ![c] = q]
    BY DEF Publish
  <1>5. nextSequence' \in [Topics -> Nat]
    BY <1>2 DEF Publish
  <1>6. UNCHANGED <<proto, client, connack, sockets, toClient, subscribersByTopic, stats,
                    fanOut, nextPacketId, forwarded, discarded>>
    BY DEF Publish, Idle, copies
  <1> HIDE DEF c, p
  <1>7. /\ toBroker' \in [Clients -> Seq(Packets)]
        /\ \A d \in Clients : \A r \in On(toBroker'[d]) : Requested(d, r)
    <2>1. Requested(c, p)
      BY <1>3 DEF Requested
    <2> QED BY <1>1, <1>3, <1>4, <2>1, RequestedWritten
  <1>8. TypeOK'
    BY <1>5, <1>6, <1>7 DEF BrokerInv, TypeOK
  <1> QED BY <1>6, <1>7, <1>8 DEF BrokerInv

\* What every handler of a client does to the stream it reads.
LEMMA TakenProperties ==
  ASSUME BrokerInv, NEW c \in Clients, NEW types, Taken(c, types)
  PROVE  /\ toClient' = [toClient EXCEPT ![c] = Tail(toClient[c])]
         /\ toClient' \in [Clients -> Seq(Packets)]
         /\ \A d \in Clients : \A p \in On(toClient'[d]) : Wanted(d, p)
         /\ toClient[c] \in Seq(Packets) /\ toClient[c] # <<>>
         /\ Head(toClient[c]) \in Packets /\ Head(toClient[c]).type \in types
         /\ Wanted(c, Head(toClient[c]))
         /\ UNCHANGED <<proto, client, sockets, subscribersByTopic, nextSequence, fanOut,
                        nextPacketId, forwarded, discarded>>
  <1>1. /\ toClient' = [toClient EXCEPT ![c] = Tail(toClient[c])]
        /\ toClient \in [Clients -> Seq(Packets)] /\ toClient[c] # <<>>
        /\ Head(toClient[c]).type \in types
    BY DEF Taken, BrokerInv, TypeOK
  <1>2. /\ Head(toClient[c]) \in On(toClient[c]) /\ Head(toClient[c]) \in Packets
        /\ Tail(toClient[c]) \in Seq(Packets) /\ On(Tail(toClient[c])) \subseteq On(toClient[c])
    BY <1>1, OnHead
  <1>3. ASSUME NEW d \in Clients, NEW p \in On(toClient'[d])
        PROVE  Wanted(d, p)
    <2>1. p \in On(toClient[d])
      BY <1>1, <1>2
    <2> QED BY <2>1 DEF BrokerInv
  <1>4. UNCHANGED <<proto, client, sockets, subscribersByTopic, nextSequence, fanOut,
                    nextPacketId, forwarded, discarded>>
    BY DEF Taken, Idle, copies
  <1> QED BY <1>1, <1>2, <1>3, <1>4 DEF BrokerInv

\* Taking a control packet leaves the counts as they are.
LEMMA TakenControl ==
  ASSUME BrokerAssumption, BrokerInv, NEW c \in Clients, NEW types, "PUBLISH" \notin types,
         Taken(c, types)
  PROVE  Counted(forwarded', toClient', discarded', stats)
  <1> DEFINE q == Tail(toClient[c])
  <1>1. /\ toClient' = [toClient EXCEPT ![c] = q]
        /\ toClient[c] \in Seq(Packets) /\ toClient[c] # <<>>
        /\ Head(toClient[c]) \in Packets /\ Head(toClient[c]).type \in types
        /\ UNCHANGED <<forwarded, discarded>>
    BY TakenProperties
  <1>2. q \in Seq(Packets)
    BY <1>1, OnHead
  <1>3. Head(toClient[c]).topic = None
    BY <1>1, PacketTopic
  <1>4. ASSUME NEW t \in Topics
        PROVE  Cardinality(Places(q, t)) = Cardinality(Places(toClient[c], t))
    <2>1. Head(toClient[c]).topic # t
      BY <1>3 DEF BrokerAssumption
    <2>2. Cardinality(Places(q, t)) \in Nat
      BY <1>2, PlacesFinite
    <2>3. Cardinality(Places(toClient[c], t)) = Cardinality(Places(q, t)) + 0
      BY <1>1, <2>1, PlacesTail DEF Unit
    <2> QED BY <2>2, <2>3
  <1>5. toClient \in [Clients -> Seq(Packets)] /\ Counted(forwarded, toClient, discarded, stats)
    BY DEF BrokerInv, TypeOK
  <1> HIDE DEF q
  <1>6. Counted(forwarded, [toClient EXCEPT ![c] = q], discarded, stats)
    BY <1>2, <1>4, <1>5, CountedControl
  <1> QED BY <1>1, <1>6

LEMMA OnConnackKeeps ==
  ASSUME BrokerAssumption, BrokerInv, NEW c \in Clients, OnConnack(c)
  PROVE  BrokerInv'
  <1>1. Taken(c, {"CONNACK"}) /\ UNCHANGED stats
    BY DEF OnConnack
  <1>2. /\ toClient' \in [Clients -> Seq(Packets)]
        /\ \A d \in Clients : \A p \in On(toClient'[d]) : Wanted(d, p)
        /\ UNCHANGED <<proto, client, sockets, subscribersByTopic, nextSequence, fanOut,
                       nextPacketId, forwarded, discarded>>
    BY <1>1, TakenProperties
  <1>3. Counted(forwarded', toClient', discarded', stats)
    BY <1>1, TakenControl
  <1>4. connack' \subseteq Clients
    BY DEF OnConnack, BrokerInv, TypeOK
  <1>5. /\ toBroker' \in [Clients -> Seq(Packets)]
        /\ \A d \in Clients : \A r \in On(toBroker'[d]) : Requested(d, r)
    <2> DEFINE p == Control("SUBSCRIBE")
    <2>1. p \in Packets /\ p.type = "SUBSCRIBE"
      BY ControlPacket
    <2>2. CASE c \in Subscribers /\ c \notin connack /\ Filters[c] # {}
      <3>1. PICK q \in Written(toBroker[c], p) : toBroker' = [toBroker EXCEPT ![c] = q]
        BY <2>2 DEF OnConnack
      <3>2. Requested(c, p)
        BY <2>2 DEF Requested
      <3> HIDE DEF p
      <3> QED BY <2>1, <3>1, <3>2, RequestedWritten
    <2>3. CASE ~(c \in Subscribers /\ c \notin connack /\ Filters[c] # {})
      BY <2>3 DEF OnConnack, BrokerInv, TypeOK
    <2> QED BY <2>2, <2>3
  <1>6. TypeOK'
    BY <1>1, <1>2, <1>4, <1>5 DEF BrokerInv, TypeOK
  <1> QED BY <1>1, <1>2, <1>3, <1>5, <1>6 DEF BrokerInv

LEMMA OnAckKeeps ==
  ASSUME BrokerAssumption, BrokerInv, NEW c \in Clients, OnAck(c)
  PROVE  BrokerInv'
  <1>1. Taken(c, {"SUBACK", "PUBACK"}) /\ UNCHANGED <<toBroker, connack, stats>>
    BY DEF OnAck
  <1>2. /\ toClient' \in [Clients -> Seq(Packets)]
        /\ \A d \in Clients : \A p \in On(toClient'[d]) : Wanted(d, p)
        /\ UNCHANGED <<proto, client, sockets, subscribersByTopic, nextSequence, fanOut,
                       nextPacketId, forwarded, discarded>>
    BY <1>1, TakenProperties
  <1>3. Counted(forwarded', toClient', discarded', stats)
    BY <1>1, TakenControl
  <1>4. TypeOK'
    BY <1>1, <1>2 DEF BrokerInv, TypeOK
  <1> QED BY <1>1, <1>2, <1>3, <1>4 DEF BrokerInv


\* A message taken is one copy less on the way, and one more recorded.
LEMMA OnMessageKeeps ==
  ASSUME BrokerAssumption, BrokerInv, NEW s \in Subscribers, OnMessage(s)
  PROVE  BrokerInv'
  <1> DEFINE m == Head(toClient[s])
             t == m.topic
             q == Tail(toClient[s])
  <1>1. /\ Taken(s, {"PUBLISH"}) /\ s \in Clients /\ connack' = connack
        /\ stats' = [stats EXCEPT ![s][t] = Add(@, m.seq)]
    BY DEF OnMessage, Clients
  <1>2. /\ toClient' = [toClient EXCEPT ![s] = q]
        /\ toClient' \in [Clients -> Seq(Packets)]
        /\ \A d \in Clients : \A p \in On(toClient'[d]) : Wanted(d, p)
        /\ toClient[s] \in Seq(Packets) /\ toClient[s] # <<>>
        /\ m \in Packets /\ m.type = "PUBLISH" /\ Wanted(s, m)
        /\ UNCHANGED <<proto, client, sockets, subscribersByTopic, nextSequence, fanOut,
                       nextPacketId, forwarded, discarded>>
    BY <1>1, TakenProperties
  <1>3. t \in Topics /\ m.seq \in Nat /\ t \in Filters[s]
    BY <1>2, PacketTopic DEF Wanted
  <1>4. /\ q \in Seq(Packets)
        /\ \A u : Cardinality(Places(toClient[s], u)) = Cardinality(Places(q, u)) + Unit(t = u)
    BY <1>2, PlacesTail, OnHead
  <1>5. toClient \in [Clients -> Seq(Packets)]
    BY DEF BrokerInv, TypeOK
  <1> DEFINE n == m.seq
  <1>6. stats' = [stats EXCEPT ![s][t] = Add(stats[s][t], n)] /\ n \in Nat
    BY <1>1, <1>3
  <1> HIDE DEF m, t, q, n
  <1>7. /\ stats = [r \in Subscribers |-> stats[r]] /\ stats' = [r \in Subscribers |-> stats'[r]]
        /\ stats'[s] = [stats[s] EXCEPT ![t] = Add(stats[s][t], n)]
        /\ \A r \in Subscribers \ {s} : stats'[r] = stats[r]
    <2>1. stats = [r \in Subscribers |-> stats[r]]
      BY DEF BrokerInv
    <2> QED BY <1>6, <2>1
  <1> DEFINE Stat == [received : Nat, lowestSeq : Nat \cup {-1}, highestSeq : Nat \cup {-1}]
  <1>8. /\ stats[s] \in [Filters[s] -> Stat] /\ stats[s][t] \in Stat
        /\ Add(stats[s][t], n) \in Stat
        /\ Add(stats[s][t], n).received = stats[s][t].received + 1
    <2>1. stats[s] \in [Filters[s] -> Stat] /\ stats[s][t] \in Stat
      BY <1>3 DEF BrokerInv, TypeOK
    <2> DEFINE ts == stats[s][t]
    <2>2. ts \in Stat
      BY <2>1
    <2> HIDE DEF ts
    <2>3. Add(ts, n) \in Stat /\ Add(ts, n).received = ts.received + 1
      BY <1>6, <2>2 DEF Add
    <2> QED BY <2>1, <2>3 DEF ts
  <1>9. \A r \in Subscribers : stats'[r] \in [Filters[r] -> Stat]
    <2>1. stats'[s] \in [Filters[s] -> Stat]
      BY <1>7, <1>8
    <2>2. \A r \in Subscribers \ {s} : stats'[r] \in [Filters[r] -> Stat]
      BY <1>7 DEF BrokerInv, TypeOK
    <2> QED BY <2>1, <2>2
  <1> HIDE DEF Stat
  <1>10. ASSUME NEW r \in Subscribers, NEW u \in Topics
         PROVE  forwarded[r][u] =
                  Cardinality(Places(toClient'[r], u)) + discarded[r][u]
                  + (IF u \in Filters[r] THEN stats'[r][u].received ELSE 0)
    <2>1. forwarded[r][u] =
            Cardinality(Places(toClient[r], u)) + discarded[r][u]
            + (IF u \in Filters[r] THEN stats[r][u].received ELSE 0)
      BY DEF BrokerInv, Counted
    <2>2. CASE r # s
      <3>1. toClient'[r] = toClient[r] /\ stats'[r] = stats[r]
        BY <1>2, <1>5, <1>7, <2>2 DEF Clients
      <3> QED BY <2>1, <3>1
    <2>3. CASE r = s /\ u # t
      <3>1. toClient'[r] = q
        BY <1>1, <1>2, <1>5, <2>3
      <3>2. u \in Filters[r] => stats'[r][u] = stats[r][u]
        BY <1>7, <1>8, <2>3 DEF Stat
      <3>3. Cardinality(Places(toClient[r], u)) = Cardinality(Places(q, u)) + 0
        BY <1>4, <2>3 DEF Unit
      <3>4. Cardinality(Places(q, u)) \in Nat
        BY <1>4, PlacesFinite
      <3>5. Cardinality(Places(toClient[r], u)) = Cardinality(Places(toClient'[r], u))
        BY <3>1, <3>3, <3>4
      <3> QED BY <2>1, <3>2, <3>5
    <2>4. CASE r = s /\ u = t
      <3> DEFINE old  == Cardinality(Places(toClient[s], t))
                 new  == Cardinality(Places(q, t))
                 gone == discarded[s][t]
                 read == stats[s][t].received
      <3>1. toClient'[s] = q /\ stats'[s][t].received = read + 1
        BY <1>1, <1>2, <1>3, <1>5, <1>7, <1>8
      <3>2. old = new + 1
        BY <1>4 DEF Unit
      <3>3. new \in Nat /\ gone \in Nat /\ read \in Nat
        <4>1. new \in Nat
          BY <1>4, PlacesFinite
        <4>2. gone \in Nat
          BY <1>3 DEF BrokerInv, TypeOK
        <4>3. read \in Nat
          BY <1>8 DEF Stat
        <4> QED BY <4>1, <4>2, <4>3
      <3>4. forwarded[s][t] = old + gone + read
        BY <1>3, <2>1, <2>4
      <3> HIDE DEF old, new, gone, read
      <3>5. forwarded[s][t] = new + gone + (read + 1)
        BY ONLY <3>2, <3>3, <3>4
      <3> QED BY <1>3, <2>4, <3>1, <3>5 DEF new, gone
    <2> QED BY <2>2, <2>3, <2>4
  <1>11. /\ toBroker' \in [Clients -> Seq(Packets)]
         /\ \A d \in Clients : \A p \in On(toBroker'[d]) : Requested(d, p)
    <2> DEFINE p == Control("PUBACK")
    <2>1. p \in Packets /\ p.type = "PUBACK"
      BY ControlPacket
    <2>2. CASE QoS > 0
      <3>1. PICK w \in Written(toBroker[s], p) : toBroker' = [toBroker EXCEPT ![s] = w]
        BY <2>2 DEF OnMessage
      <3>2. Requested(s, p)
        BY <2>1 DEF Requested
      <3> HIDE DEF p
      <3> QED BY <1>1, <2>1, <3>1, <3>2, RequestedWritten
    <2>3. CASE ~(QoS > 0)
      BY <2>3 DEF OnMessage, BrokerInv, TypeOK
    <2> QED BY <2>2, <2>3
  <1>12. TypeOK'
    BY <1>1, <1>2, <1>9, <1>11 DEF BrokerInv, TypeOK, Stat
  <1>13. Counted(forwarded', toClient', discarded', stats')
    BY <1>2, <1>10 DEF Counted
  <1> QED BY <1>2, <1>7, <1>11, <1>12, <1>13 DEF BrokerInv

-----------------------------------------------------------------------------
(* The theorems.                                                           *)

LEMMA NextKeeps ==
  ASSUME BrokerAssumption, BrokerInv, [Next]_vars
  PROVE  BrokerInv'
  <1>1. ASSUME NEW c \in Clients, Connect(c) \/ Leave(c) \/ SocketClosed(c)
        PROVE  BrokerInv'
    BY <1>1, ConnectKeeps, LeaveKeeps, SocketClosedKeeps
  <1>2. ASSUME NEW c \in Clients, Broker(c)
        PROVE  BrokerInv'
    BY <1>2, OnConnectKeeps, OnSubscribeKeeps, OnPubackKeeps, OnPublishKeeps DEF Broker
  <1>3. ASSUME NEW c \in Clients, Client(c)
        PROVE  BrokerInv'
    BY <1>3, OnConnackKeeps, OnMessageKeeps, OnAckKeeps DEF Client
  <1>4. ASSUME NEW s \in Subscribers, Forward(s)
        PROVE  BrokerInv'
    BY <1>4, ForwardKeeps
  <1>5. ASSUME NEW t \in Topics, Publish(t)
        PROVE  BrokerInv'
    BY <1>5, PublishKeeps
  <1>6. CASE UNCHANGED vars
    BY <1>6, StutterKeeps
  <1> QED BY <1>1, <1>2, <1>3, <1>4, <1>5, <1>6 DEF Next

LEMMA BrokerAlways == Spec => []BrokerInv
  <1>1. Init => BrokerInv
    BY BrokerAssumption, InitEstablishes
  <1>2. BrokerInv /\ [Next]_vars => BrokerInv'
    BY BrokerAssumption, NextKeeps
  <1> QED BY <1>1, <1>2, PTL DEF Spec

\* Every variable of broker, connections and subscribers keeps its type, the packet
\* identifier of a forwarded message its range (MqttBrokerApp, MqttSubscriberApp).
THEOREM TypeCorrect == Spec => []TypeOK
  <1>1. BrokerInv => TypeOK
    BY DEF BrokerInv
  <1> QED BY BrokerAlways, <1>1, PTL

\* Every copy the broker counts as forwarded was recorded by its subscriber, is on its way,
\* or was discarded by QUIC; none is counted for a topic not asked for (onPublish,
\* recordMessage), whoever subscribes, leaves or closes in between.
THEOREM ForwardedAlwaysAccounted == Spec => []ForwardedAccounted
  <1>1. BrokerInv => ForwardedAccounted
    BY DEF BrokerInv, Counted, ForwardedAccounted, Copies, Places
  <1> QED BY BrokerAlways, <1>1, PTL

-----------------------------------------------------------------------------
(* What the order of messages rests on.                                    *)

\* The sequence numbers of topic t in stream q, and that they ascend.
Numbers(q, t) == {q[i].seq : i \in Places(q, t)}
Ascending(q, t) == \A i, j \in Places(q, t) : i < j => q[i].seq < q[j].seq

\* The numbers of t on their way to the broker, those it forwards, to s or to anybody, and
\* those that s has, or that wait for it.
Incoming(t) == Numbers(toBroker[PublisherOf[t]], t)
Fanned(t) == IF fanOut.topic = t THEN {fanOut.seq} ELSE {}
FannedTo(s, t) == IF s \in fanOut.to THEN Fanned(t) ELSE {}
Delivered(s, t) == Numbers(toClient[s], t) \cup {stats[s][t].highestSeq}
Coming(s, t) == Numbers(toClient[s], t) \cup FannedTo(s, t) \cup Incoming(t)

\* Who is registered, and whose messages a stream carries.
FanInv ==
  /\ \A t \in Topics : subscribersByTopic[t] \subseteq sockets
  /\ IF fanOut.to = {} THEN fanOut = Nothing
     ELSE fanOut.topic \in Topics /\ fanOut.to \subseteq subscribersByTopic[fanOut.topic]
RegistryInv ==
  /\ FanInv
  /\ \A c \in Clients : client[c] = "new" => toBroker[c] = <<>>
  /\ \A c \in Clients : \A p \in On(toBroker[c]) : p.type = "PUBLISH" => c = PublisherOf[p.topic]

\* Messages of a topic overtake each other nowhere.
SourceOrder(t) ==
  /\ Ascending(toBroker[PublisherOf[t]], t)
  /\ \A n \in Incoming(t) \cup Fanned(t) : n < nextSequence[t]
  /\ \A m \in Fanned(t), n \in Incoming(t) : m < n
SinkOrder(s, t) ==
  /\ Ascending(toClient[s], t)
  /\ \A n \in Numbers(toClient[s], t) : stats[s][t].highestSeq < n
  /\ \A m \in Delivered(s, t) : m < nextSequence[t] /\ \A n \in FannedTo(s, t) \cup Incoming(t) : m < n
OrderInv ==
  /\ \A t \in Topics : SourceOrder(t)
  /\ \A s \in Subscribers : \A t \in Filters[s] : SinkOrder(s, t)

\* Over TCP none is missing, but those a publisher had sent before its connection closed.
Cut(t) == client[PublisherOf[t]] = "gone" /\ toBroker[PublisherOf[t]] = <<>>
SourceWhole(t) ==
  \A m \in Incoming(t) \cup Fanned(t) : \A n \in m + 1 .. nextSequence[t] - 1 :
    n \in Incoming(t) \/ Cut(t)
SinkWhole(s, t) ==
  \A m \in Delivered(s, t) : m >= 0 =>
    \A n \in m + 1 .. nextSequence[t] - 1 :
      n \in Coming(s, t) \/ (Cut(t) /\ \A k \in Coming(s, t) : k < n)
WholeInv ==
  proto = "tcp" => /\ \A t \in Topics : SourceWhole(t)
                   /\ \A t \in Topics : \A s \in subscribersByTopic[t] : SinkWhole(s, t)

\* Who has got a message is registered until its connection closes.
JoinedInv ==
  \A s \in Subscribers : \A t \in Filters[s] : \A n \in Delivered(s, t) :
    n >= 0 => s \in subscribersByTopic[t] \/ (client[s] = "gone" /\ s \notin sockets)

StatOK(ts) ==
  IF ts.received = 0 THEN ts = NoStat
  ELSE /\ ts.lowestSeq >= 0 /\ ts.lowestSeq <= ts.highestSeq
       /\ InternalGaps(ts) >= 0
       /\ proto = "tcp" => InternalGaps(ts) = 0
StatsInv == \A s \in Subscribers : \A t \in Filters[s] : StatOK(stats[s][t])

GapsInv == RegistryInv /\ OrderInv /\ WholeInv /\ JoinedInv /\ StatsInv

\* A message has a number, a control packet no topic.
LEMMA NumbersType ==
  ASSUME NEW q \in Seq(Packets), NEW t \in Topics
  PROVE  Numbers(q, t) \subseteq Nat
  <1>1. ASSUME NEW i \in Places(q, t)  PROVE q[i].seq \in Nat
    <2>1. q[i] \in Packets /\ q[i].topic = t
      BY DEF Places
    <2>2. q[i].topic # None
      BY <2>1, BrokerAssumption DEF BrokerAssumption
    <2> QED BY <2>1, <2>2, PacketTopic
  <1> QED BY <1>1 DEF Numbers

\* An empty stream has no numbers.
LEMMA NumbersEmpty ==
  ASSUME NEW t
  PROVE  Places(<<>>, t) = {} /\ Numbers(<<>>, t) = {} /\ Ascending(<<>>, t)
  <1>1. Places(<<>>, t) = {}
    BY EmptySeq DEF Places
  <1> QED BY <1>1 DEF Numbers, Ascending

\* A message written last, with a number above the others, keeps them ascending.
LEMMA NumbersAppend ==
  ASSUME NEW q \in Seq(Packets), NEW p \in Packets, NEW t
  PROVE  LET r == Append(q, p)
         IN  /\ Numbers(r, t) = Numbers(q, t) \cup (IF p.topic = t THEN {p.seq} ELSE {})
             /\ Ascending(q, t) /\ (p.topic = t => \A n \in Numbers(q, t) : n < p.seq)
                  => Ascending(r, t)
  <1> DEFINE r == Append(q, p)
             n == Len(q) + 1
  <1>1. /\ Len(q) \in Nat /\ Len(r) = n /\ r[n] = p /\ n \notin 1 .. Len(q)
        /\ 1 .. n = (1 .. Len(q)) \cup {n}
        /\ \A i \in 1 .. Len(q) : r[i] = q[i] /\ i < n
    BY AppendProperties
  <1> HIDE DEF r, n
  <1>2. Places(r, t) = Places(q, t) \cup (IF p.topic = t THEN {n} ELSE {})
    BY <1>1 DEF Places
  <1>3. \A i \in Places(q, t) : r[i] = q[i] /\ i < n /\ i \in Nat /\ n \notin Places(q, t)
    BY <1>1 DEF Places
  <1>4. Numbers(r, t) = Numbers(q, t) \cup (IF p.topic = t THEN {p.seq} ELSE {})
    BY <1>1, <1>2, <1>3 DEF Numbers
  <1>5. ASSUME Ascending(q, t), p.topic = t => \A m \in Numbers(q, t) : m < p.seq
        PROVE  Ascending(r, t)
    <2> SUFFICES ASSUME NEW i \in Places(r, t), NEW j \in Places(r, t), i < j
                 PROVE  r[i].seq < r[j].seq
      BY DEF Ascending
    <2>0. n \in Nat
      BY <1>1 DEF n
    <2>1. i \in Places(q, t)
      <3> SUFFICES ASSUME i = n  PROVE FALSE
        BY <1>2
      <3>1. j = n \/ j < n
        BY <1>2, <1>3
      <3> QED BY <2>0, <3>1
    <2>2. CASE j \in Places(q, t)
      BY <1>3, <1>5, <2>1, <2>2 DEF Ascending
    <2>3. CASE j = n /\ p.topic = t
      BY <1>1, <1>3, <1>5, <2>1, <2>3 DEF Numbers
    <2> QED BY <1>2, <2>2, <2>3
  <1> QED BY <1>4, <1>5 DEF r

\* Taking a packet takes the lowest number of its topic, and no other.
LEMMA NumbersTail ==
  ASSUME NEW q \in Seq(Packets), q # <<>>, NEW t, Ascending(q, t)
  PROVE  LET r == Tail(q)
             h == Head(q)
         IN  /\ Ascending(r, t) /\ Numbers(r, t) \subseteq Numbers(q, t)
             /\ h.topic # t => Numbers(r, t) = Numbers(q, t)
             /\ h.topic = t => /\ h.seq \in Numbers(q, t)
                               /\ Numbers(q, t) = Numbers(r, t) \cup {h.seq}
                               /\ \A n \in Numbers(r, t) : h.seq < n
  <1> DEFINE r == Tail(q)
             h == Head(q)
  <1>1. /\ Len(q) \in Nat /\ Len(q) > 0 /\ Len(r) = Len(q) - 1 /\ h = q[1]
        /\ \A i \in 1 .. Len(r) : r[i] = q[i + 1]
    BY HeadTailProperties, EmptySeq
  <1> HIDE DEF r, h
  <1>2. \A i \in Places(r, t) : i \in Nat /\ i + 1 \in Places(q, t) /\ r[i] = q[i + 1] /\ 1 < i + 1
    BY <1>1 DEF Places
  <1>3. \A i \in Places(q, t) : i = 1 \/ (i - 1 \in Places(r, t) /\ r[i - 1] = q[i])
    BY <1>1 DEF Places
  <1>4. 1 \in Places(q, t) <=> h.topic = t
    BY <1>1 DEF Places
  <1>5. Ascending(r, t)
    BY <1>2 DEF Ascending
  <1>6. Numbers(r, t) \subseteq Numbers(q, t)
    BY <1>2 DEF Numbers
  <1>7. Numbers(q, t) \subseteq Numbers(r, t) \cup (IF h.topic = t THEN {h.seq} ELSE {})
    BY <1>1, <1>3, <1>4 DEF Numbers
  <1>8. ASSUME h.topic = t
        PROVE  h.seq \in Numbers(q, t) /\ \A n \in Numbers(r, t) : h.seq < n
    BY <1>1, <1>2, <1>4, <1>8 DEF Numbers, Ascending
  <1> QED BY <1>5, <1>6, <1>7, <1>8 DEF r, h

\* A write, whole or discarded.
LEMMA NumbersWritten ==
  ASSUME NEW q \in Seq(Packets), NEW p \in Packets, NEW r \in Written(q, p), NEW t,
         Ascending(q, t)
  PROVE  /\ Numbers(q, t) \subseteq Numbers(r, t)
         /\ p.topic # t => Numbers(r, t) = Numbers(q, t) /\ Ascending(r, t)
         /\ p.topic = t => /\ Numbers(r, t) \subseteq Numbers(q, t) \cup {p.seq}
                           /\ proto = "tcp" => p.seq \in Numbers(r, t)
                           /\ (\A n \in Numbers(q, t) : n < p.seq) => Ascending(r, t)
  <1>1. CASE r = Append(q, p)
    <2>1. /\ Numbers(r, t) = Numbers(q, t) \cup (IF p.topic = t THEN {p.seq} ELSE {})
          /\ Ascending(q, t) /\ (p.topic = t => \A n \in Numbers(q, t) : n < p.seq)
               => Ascending(r, t)
      BY <1>1, NumbersAppend
    <2> QED BY <2>1
  <1>2. CASE r = q /\ proto = "quic"
    BY <1>2
  <1> QED BY <1>1, <1>2 DEF Written

-----------------------------------------------------------------------------
(* Who is registered.                                                      *)

\* A stream is taken from, or written to, or not: what is on it afterwards.
LEMMA OnStep ==
  ASSUME NEW q \in Seq(Packets), NEW p \in Packets, NEW r,
         r \in {q, <<>>, <<p>>} \/ r \in Written(q, p) \/ (q # <<>> /\ r = Tail(q))
  PROVE  On(r) \subseteq On(q) \cup {p}
  <1>1. CASE r = <<>>
    BY <1>1, EmptySeq DEF On
  <1>2. CASE r = <<p>>
    <2>1. Len(<<p>>) = 1 /\ <<p>>[1] = p
      OBVIOUS
    <2> QED BY <1>2, <2>1 DEF On
  <1>3. CASE r \in Written(q, p)
    BY <1>3, WrittenProperties
  <1>4. CASE q # <<>> /\ r = Tail(q)
    BY <1>4, OnHead
  <1> QED BY <1>1, <1>2, <1>3, <1>4

\* What any step does to the stream of a client: it takes a packet, or a packet is written
\* that is a message only from the publisher of its topic; or it is new, or closed.
Upstream(c) ==
  /\ client[c] = "new" => \/ client'[c] = "new" /\ toBroker'[c] = toBroker[c]
                          \/ client'[c] = "connected"
  /\ client[c] # "new" => client'[c] # "new"
  /\ \E p \in Packets : /\ p.type = "PUBLISH" => c = PublisherOf[p.topic]
                        /\ \/ toBroker'[c] \in {toBroker[c], <<>>, <<p>>}
                           \/ toBroker'[c] \in Written(toBroker[c], p)
                           \/ toBroker[c] # <<>> /\ toBroker'[c] = Tail(toBroker[c])

\* Every step is such a one, for every client.
LEMMA UpstreamStep ==
  ASSUME BrokerInv, RegistryInv, [Next]_vars, NEW c \in Clients
  PROVE  Upstream(c)
  <1>0. /\ toBroker \in [Clients -> Seq(Packets)]
        /\ client \in [Clients -> {"new", "connected", "gone"}]
    BY DEF BrokerInv, TypeOK
  <1>C. \A type \in {"CONNECT", "CONNACK", "SUBSCRIBE", "SUBACK", "PUBACK"} :
          Control(type) \in Packets /\ Control(type).type # "PUBLISH"
    BY ControlPacket
  <1>U. ASSUME client' = client, toBroker'[c] = toBroker[c]
        PROVE  Upstream(c)
    <2>1. Control("CONNECT") \in Packets /\ Control("CONNECT").type # "PUBLISH"
      BY <1>C
    <2> QED BY <1>0, <1>U, <2>1 DEF Upstream
  <1>1. ASSUME NEW d \in Clients, Connect(d)
        PROVE  Upstream(c)
    <2>1. /\ client[d] = "new" /\ client' = [client EXCEPT ![d] = "connected"]
          /\ toBroker' = [toBroker EXCEPT ![d] = <<Control("CONNECT")>>]
      BY <1>1 DEF Connect
    <2>2. Control("CONNECT") \in Packets /\ Control("CONNECT").type # "PUBLISH"
      BY <1>C
    <2> QED BY <1>0, <2>1, <2>2 DEF Upstream
  <1>2. ASSUME NEW d \in Clients, Leave(d)
        PROVE  Upstream(c)
    <2>1. /\ client[d] = "connected" /\ client' = [client EXCEPT ![d] = "gone"]
          /\ toBroker' = toBroker
      BY <1>2 DEF Leave, streams
    <2>2. Control("CONNECT") \in Packets /\ Control("CONNECT").type # "PUBLISH"
      BY <1>C
    <2> QED BY <1>0, <2>1, <2>2 DEF Upstream
  <1>3. ASSUME NEW d \in Clients, SocketClosed(d)
        PROVE  Upstream(c)
    <2>1. client[d] = "gone" /\ client' = client /\ toBroker' = [toBroker EXCEPT ![d] = <<>>]
      BY <1>3 DEF SocketClosed
    <2>2. Control("CONNECT") \in Packets /\ Control("CONNECT").type # "PUBLISH"
      BY <1>C
    <2> QED BY <1>0, <2>1, <2>2 DEF Upstream
  <1>4. ASSUME NEW d \in Clients, Broker(d)
        PROVE  Upstream(c)
    <2>1. PICK type : Handled(d, type)
      BY <1>4 DEF Broker, OnConnect, OnSubscribe, OnPuback, OnPublish
    <2>2. /\ client' = client /\ toBroker' = [toBroker EXCEPT ![d] = Tail(toBroker[d])]
          /\ toBroker[d] # <<>> /\ d \in sockets
      BY <2>1 DEF Handled
    <2>3. Control("CONNECT") \in Packets /\ Control("CONNECT").type # "PUBLISH"
      BY <1>C
    <2>4. client[d] # "new"
      BY <2>2 DEF RegistryInv
    <2> QED BY <1>0, <2>2, <2>3, <2>4 DEF Upstream
  <1>5. ASSUME NEW d \in Clients, Client(d)
        PROVE  Upstream(c)
    <2>1. client' = client /\ client[d] = "connected"
      BY <1>5 DEF Client, OnConnack, OnMessage, OnAck, Taken
    <2>2. PICK type \in {"SUBSCRIBE", "PUBACK"} :
            \/ toBroker' = toBroker
            \/ \E q \in Written(toBroker[d], Control(type)) :
                 toBroker' = [toBroker EXCEPT ![d] = q]
      <3>1. CASE OnConnack(d)
        BY <3>1 DEF OnConnack
      <3>2. CASE OnMessage(d)
        BY <3>2 DEF OnMessage
      <3>3. CASE OnAck(d)
        BY <3>3 DEF OnAck
      <3> QED BY <1>5, <3>1, <3>2, <3>3 DEF Client
    <2>3. Control(type) \in Packets /\ Control(type).type # "PUBLISH"
      BY <1>C
    <2> QED BY <1>0, <2>1, <2>2, <2>3 DEF Upstream
  <1>6. ASSUME NEW s \in Subscribers, Forward(s)
        PROVE  Upstream(c)
    BY <1>6, <1>U DEF Forward
  <1>7. ASSUME NEW t \in Topics, Publish(t)
        PROVE  Upstream(c)
    <2> DEFINE p == Publication(t, 0, nextSequence[t])
    <2>1. p \in Packets /\ p.topic = t
      <3>1. 0 \in 0 .. PacketIds - 1 /\ nextSequence[t] \in Nat
        BY BrokerAssumption DEF BrokerAssumption, BrokerInv, TypeOK
      <3> QED BY <3>1, PublicationPacket
    <2>2. PublisherOf[t] \in Clients
      BY BrokerAssumption DEF BrokerAssumption, Clients
    <2>3. /\ client' = client /\ client[PublisherOf[t]] = "connected"
          /\ \E q \in Written(toBroker[PublisherOf[t]], p) :
               toBroker' = [toBroker EXCEPT ![PublisherOf[t]] = q]
      BY <1>7 DEF Publish
    <2> HIDE DEF p
    <2>4. CASE c = PublisherOf[t]
      BY <1>0, <2>1, <2>2, <2>3, <2>4 DEF Upstream
    <2>5. CASE c # PublisherOf[t]
      BY <1>0, <1>U, <2>2, <2>3, <2>5
    <2> QED BY <2>4, <2>5
  <1>8. CASE UNCHANGED vars
    BY <1>8, <1>U DEF vars, streams
  <1> QED BY <1>1, <1>2, <1>3, <1>4, <1>5, <1>6, <1>7, <1>8 DEF Next

\* Every step keeps who is registered, and whose messages a stream carries.
LEMMA RegistryNext ==
  ASSUME BrokerInv, RegistryInv, [Next]_vars
  PROVE  RegistryInv'
  <1>1. ASSUME NEW c \in Clients, client'[c] = "new"
        PROVE  toBroker'[c] = <<>>
    <2>1. Upstream(c)
      BY UpstreamStep
    <2> QED BY <1>1, <2>1 DEF Upstream, RegistryInv
  <1>2. ASSUME NEW c \in Clients, NEW p \in On(toBroker'[c]), p.type = "PUBLISH"
        PROVE  c = PublisherOf[p.topic]
    <2>1. Upstream(c)
      BY UpstreamStep
    <2>2. toBroker[c] \in Seq(Packets)
      BY DEF BrokerInv, TypeOK
    <2>3. PICK w \in Packets :
            /\ w.type = "PUBLISH" => c = PublisherOf[w.topic]
            /\ \/ toBroker'[c] \in {toBroker[c], <<>>, <<w>>}
               \/ toBroker'[c] \in Written(toBroker[c], w)
               \/ toBroker[c] # <<>> /\ toBroker'[c] = Tail(toBroker[c])
      BY <2>1 DEF Upstream
    <2>4. p \in On(toBroker[c]) \cup {w}
      BY <2>2, <2>3, OnStep
    <2> QED BY <1>2, <2>3, <2>4 DEF RegistryInv
  <1>3. /\ subscribersByTopic \in [Topics -> SUBSET Subscribers]
        /\ \A t \in Topics : subscribersByTopic[t] \subseteq sockets
        /\ IF fanOut.to = {} THEN fanOut = Nothing
           ELSE fanOut.topic \in Topics /\ fanOut.to \subseteq subscribersByTopic[fanOut.topic]
        /\ fanOut \in [topic : Topics \cup {None}, seq : Nat, to : SUBSET Subscribers]
    BY DEF RegistryInv, FanInv, BrokerInv, TypeOK
  <1>4. FanInv'
    <2>0. Nothing.to = {}
      BY DEF Nothing
    <2>1. ASSUME NEW c \in Clients, Connect(c) \/ Leave(c)
          PROVE  FanInv'
      <3>1. /\ sockets \subseteq sockets'
            /\ UNCHANGED <<subscribersByTopic, fanOut>>
        BY <2>1 DEF Connect, Leave, Idle
      <3> QED BY <1>3, <3>1 DEF FanInv
    <2>2. ASSUME NEW c \in Clients, SocketClosed(c)
          PROVE  FanInv'
      <3>1. /\ sockets' = sockets \ {c} /\ fanOut' = Nothing
            /\ subscribersByTopic' = [t \in Topics |-> subscribersByTopic[t] \ {c}]
        BY <2>2 DEF SocketClosed, Idle, Unsubscribed
      <3> QED BY <1>3, <2>0, <3>1 DEF FanInv
    <2>3. ASSUME NEW c \in Clients, OnConnect(c) \/ OnPuback(c) \/ Client(c)
          PROVE  FanInv'
      <3>1. UNCHANGED <<sockets, subscribersByTopic, fanOut>>
        BY <2>3 DEF OnConnect, OnPuback, Handled, Client, OnConnack, OnMessage, OnAck, Taken, Idle
      <3> QED BY <1>3, <3>1 DEF FanInv
    <2>4. ASSUME NEW c \in Clients, OnSubscribe(c)
          PROVE  FanInv'
      <3>1. /\ UNCHANGED <<sockets, fanOut>> /\ fanOut = Nothing /\ c \in sockets
            /\ \A t \in Topics : subscribersByTopic'[t] \subseteq subscribersByTopic[t] \cup {c}
        BY <2>4 DEF OnSubscribe, Handled, Subscribed
      <3> QED BY <1>3, <2>0, <3>1 DEF FanInv
    <2>5. ASSUME NEW c \in Clients, OnPublish(c)
          PROVE  FanInv'
      <3> DEFINE m == Head(toBroker[c])
      <3>1. /\ UNCHANGED <<sockets, subscribersByTopic>>
            /\ fanOut' = IF subscribersByTopic[m.topic] = {} THEN Nothing
                         ELSE [topic |-> m.topic, seq |-> m.seq,
                               to |-> subscribersByTopic[m.topic]]
        BY <2>5 DEF OnPublish, Handled
      <3>2. m \in Packets /\ m.type = "PUBLISH"
        BY <2>5, HandledProperties DEF OnPublish
      <3>3. m.topic \in Topics
        BY <3>2, PacketTopic
      <3> QED BY <1>3, <2>0, <3>1, <3>3 DEF FanInv
    <2>6. ASSUME NEW s \in Subscribers, Forward(s)
          PROVE  FanInv'
      <3>1. /\ UNCHANGED <<sockets, subscribersByTopic>> /\ s \in fanOut.to
            /\ fanOut' = IF fanOut.to \ {s} = {} THEN Nothing
                         ELSE [fanOut EXCEPT !.to = fanOut.to \ {s}]
        BY <2>6 DEF Forward, Rest
      <3>2. \/ fanOut' = Nothing
            \/ fanOut'.topic = fanOut.topic /\ fanOut'.to = fanOut.to \ {s} /\ fanOut'.to # {}
        BY <1>3, <3>1
      <3> QED BY <1>3, <2>0, <3>1, <3>2 DEF FanInv
    <2>7. ASSUME NEW t \in Topics, Publish(t)
          PROVE  FanInv'
      <3>1. UNCHANGED <<sockets, subscribersByTopic, fanOut>>
        BY <2>7 DEF Publish, Idle
      <3> QED BY <1>3, <3>1 DEF FanInv
    <2>8. CASE UNCHANGED vars
      <3>1. UNCHANGED <<sockets, subscribersByTopic, fanOut>>
        BY <2>8 DEF vars
      <3> QED BY <1>3, <3>1 DEF FanInv
    <2>9. ASSUME NEW c \in Clients, Broker(c)
          PROVE  FanInv'
      BY <2>3, <2>4, <2>5, <2>9 DEF Broker
    <2>10. ASSUME NEW c \in Clients,
                  Connect(c) \/ Leave(c) \/ SocketClosed(c) \/ Broker(c) \/ Client(c)
           PROVE  FanInv'
      BY <2>1, <2>2, <2>3, <2>9, <2>10
    <2>11. CASE Next
      BY <2>6, <2>7, <2>10, <2>11 DEF Next
    <2>12. Next \/ UNCHANGED vars
      OBVIOUS
    <2> QED BY <2>8, <2>11, <2>12
  <1> QED BY <1>1, <1>2, <1>4 DEF RegistryInv

-----------------------------------------------------------------------------
(* Steps that move no message.                                             *)

\* Stream r has the messages of q.
Kept(q, r) ==
  \A t \in Topics : Ascending(q, t) => Ascending(r, t) /\ Numbers(r, t) = Numbers(q, t)

\* A control packet written changes no number.
LEMMA KeptWritten ==
  ASSUME NEW q \in Seq(Packets),
         NEW type \in {"CONNECT", "CONNACK", "SUBSCRIBE", "SUBACK", "PUBACK"},
         NEW r \in Written(q, Control(type))
  PROVE  Kept(q, r)
  <1> SUFFICES ASSUME NEW t \in Topics, Ascending(q, t)
               PROVE  Ascending(r, t) /\ Numbers(r, t) = Numbers(q, t)
    BY DEF Kept
  <1>1. Control(type) \in Packets /\ Control(type).topic # t
    BY ControlPacket, BrokerAssumption DEF BrokerAssumption
  <1> QED BY <1>1, NumbersWritten

\* A control packet taken changes no number.
LEMMA KeptTail ==
  ASSUME NEW q \in Seq(Packets), q # <<>>, Head(q) \in Packets, Head(q).type # "PUBLISH"
  PROVE  Kept(q, Tail(q))
  <1> SUFFICES ASSUME NEW t \in Topics, Ascending(q, t)
               PROVE  Ascending(Tail(q), t) /\ Numbers(Tail(q), t) = Numbers(q, t)
    BY DEF Kept
  <1>1. Head(q).topic # t
    BY PacketTopic, BrokerAssumption DEF BrokerAssumption
  <1> QED BY <1>1, NumbersTail

\* A stream left alone keeps its numbers.
LEMMA KeptAll == ASSUME NEW q  PROVE Kept(q, q)
  BY DEF Kept

\* A CONNECT on a new stream is no message.
LEMMA KeptConnect == Kept(<<>>, <<Control("CONNECT")>>)
  <1>1. <<>> \in Seq(Packets) /\ Append(<<>>, Control("CONNECT")) = <<Control("CONNECT")>>
    OBVIOUS
  <1>2. <<Control("CONNECT")>> \in Written(<<>>, Control("CONNECT"))
    BY <1>1 DEF Written
  <1> QED BY <1>1, <1>2, KeptWritten

\* Such a step registers nobody that has messages, and drops a subscriber only, and the
\* messages of a publisher only, with its connection.
Closed(s) == client[s] = "gone" /\ s \notin sockets
QuietStep ==
  /\ UNCHANGED <<proto, nextSequence, stats, fanOut>>
  /\ \A c \in Publishers :
       /\ Kept(toBroker[c], toBroker'[c]) \/ (client'[c] = "gone" /\ toBroker'[c] = <<>>)
       /\ client[c] = "gone" =>
            client'[c] = "gone" /\ (toBroker[c] = <<>> => toBroker'[c] = <<>>)
  /\ \A s \in Subscribers : Kept(toClient[s], toClient'[s])
  /\ \A s \in Subscribers : Closed(s) => Closed(s)'
  /\ \A t \in Topics : \A s \in Subscribers :
       /\ s \in subscribersByTopic'[t] => s \in subscribersByTopic[t] \/ ~Closed(s)
       /\ s \in subscribersByTopic[t] => s \in subscribersByTopic'[t] \/ Closed(s)'

\* A quiet step keeps the order of the messages.
LEMMA QuietOrder ==
  ASSUME BrokerInv, OrderInv, QuietStep
  PROVE  OrderInv'
  <1>1. ASSUME NEW t \in Topics
        PROVE  /\ SourceOrder(t)' /\ Incoming(t)' \subseteq Incoming(t)
    <2>1. PublisherOf[t] \in Publishers
      BY BrokerAssumption DEF BrokerAssumption
    <2>2. SourceOrder(t)
      BY DEF OrderInv
    <2>3. Ascending(toBroker'[PublisherOf[t]], t) /\ Incoming(t)' \subseteq Incoming(t)
      BY <2>1, <2>2, NumbersEmpty DEF QuietStep, Kept, Incoming, SourceOrder
    <2>4. Fanned(t)' = Fanned(t) /\ nextSequence' = nextSequence
      BY DEF QuietStep, Fanned
    <2> QED BY <2>2, <2>3, <2>4 DEF SourceOrder
  <1>2. ASSUME NEW s \in Subscribers, NEW t \in Filters[s]
        PROVE  SinkOrder(s, t)'
    <2>1. t \in Topics
      BY BrokerAssumption DEF BrokerAssumption
    <2>2. SinkOrder(s, t)
      BY DEF OrderInv
    <2>3. Ascending(toClient'[s], t) /\ Numbers(toClient'[s], t) = Numbers(toClient[s], t)
      BY <2>1, <2>2 DEF QuietStep, Kept, SinkOrder
    <2>4. /\ Delivered(s, t)' = Delivered(s, t) /\ FannedTo(s, t)' = FannedTo(s, t)
          /\ nextSequence' = nextSequence /\ stats' = stats
      BY <2>3 DEF QuietStep, Delivered, FannedTo, Fanned
    <2> QED BY <1>1, <2>1, <2>2, <2>3, <2>4 DEF SinkOrder
  <1> QED BY <1>1, <1>2 DEF OrderInv

\* A quiet step loses no message over TCP, unless it closes the connection of its publisher.
LEMMA QuietWhole ==
  ASSUME BrokerInv', OrderInv, JoinedInv, WholeInv, QuietStep
  PROVE  WholeInv'
  <1> SUFFICES ASSUME proto' = "tcp"
               PROVE  /\ \A t \in Topics : SourceWhole(t)'
                      /\ \A t \in Topics : \A s \in subscribersByTopic'[t] : SinkWhole(s, t)'
    BY DEF WholeInv
  <1>0. proto = "tcp" /\ nextSequence' = nextSequence /\ fanOut' = fanOut /\ stats' = stats
    BY DEF QuietStep
  <1>1. ASSUME NEW t \in Topics
        PROVE  /\ Cut(t) => Cut(t)'
               /\ Cut(t)' \/ Incoming(t)' = Incoming(t)
               /\ Incoming(t)' \subseteq Incoming(t)
               /\ Cut(t)' => Incoming(t)' = {}
               /\ Fanned(t)' = Fanned(t)
    <2>1. PublisherOf[t] \in Publishers
      BY BrokerAssumption DEF BrokerAssumption
    <2>2. SourceOrder(t)
      BY DEF OrderInv
    <2>3. Numbers(<<>>, t) = {}
      BY NumbersEmpty
    <2> QED BY <2>1, <2>2, <2>3 DEF QuietStep, Kept, Incoming, SourceOrder, Cut, Fanned
  <1>2. ASSUME NEW t \in Topics
        PROVE  SourceWhole(t)'
    <2>1. SourceWhole(t)
      BY <1>0 DEF WholeInv
    <2> QED BY <1>0, <1>1, <2>1 DEF SourceWhole
  <1>3. ASSUME NEW t \in Topics, NEW s \in subscribersByTopic'[t]
        PROVE  SinkWhole(s, t)'
    <2>1. s \in Subscribers /\ t \in Filters[s]
      BY DEF BrokerInv, TypeOK
    <2>2. SinkOrder(s, t) /\ SourceOrder(t)
      BY <2>1 DEF OrderInv
    <2>3. /\ Numbers(toClient'[s], t) = Numbers(toClient[s], t)
          /\ Delivered(s, t)' = Delivered(s, t) /\ FannedTo(s, t)' = FannedTo(s, t)
          /\ FannedTo(s, t) \subseteq Fanned(t)
      <3>1. Numbers(toClient'[s], t) = Numbers(toClient[s], t)
        BY <2>1, <2>2 DEF QuietStep, Kept, SinkOrder
      <3> QED BY <1>0, <3>1 DEF Delivered, FannedTo, Fanned
    <2>4. Coming(s, t)' = Numbers(toClient[s], t) \cup FannedTo(s, t) \cup Incoming(t)'
      BY <2>3 DEF Coming
    <2> SUFFICES ASSUME NEW m \in Delivered(s, t), m >= 0, NEW n \in m + 1 .. nextSequence[t] - 1,
                        n \notin Coming(s, t)'
                 PROVE  Cut(t)' /\ \A k \in Coming(s, t)' : k < n
      BY <1>0, <2>3 DEF SinkWhole
    <2>5. s \in subscribersByTopic[t]
      <3>1. s \in subscribersByTopic[t] \/ Closed(s)
        BY <2>1 DEF JoinedInv, Closed
      <3> QED BY <2>1, <3>1 DEF QuietStep
    <2>6. n \in Coming(s, t) \/ (Cut(t) /\ \A k \in Coming(s, t) : k < n)
      BY <1>0, <2>5 DEF WholeInv, SinkWhole
    <2>7. CASE n \in Coming(s, t)
      <3>1. n \in Incoming(t) /\ n \notin Incoming(t)'
        BY <2>4, <2>7 DEF Coming
      <3>2. Cut(t)' /\ Incoming(t)' = {}
        BY <1>1, <3>1
      <3>3. \A k \in Numbers(toClient[s], t) \cup FannedTo(s, t) : k < n
        BY <2>2, <2>3, <3>1 DEF SinkOrder, SourceOrder, Delivered
      <3> QED BY <2>4, <3>2, <3>3
    <2>8. CASE Cut(t) /\ \A k \in Coming(s, t) : k < n
      <3>1. Coming(s, t)' \subseteq Coming(s, t)
        BY <1>1, <2>4 DEF Coming
      <3> QED BY <1>1, <2>8, <3>1
    <2> QED BY <2>6, <2>7, <2>8
  <1> QED BY <1>2, <1>3

\* A quiet step deregisters only a subscriber whose connection has closed.
LEMMA QuietJoined ==
  ASSUME OrderInv, JoinedInv, QuietStep
  PROVE  JoinedInv'
  <1> SUFFICES ASSUME NEW s \in Subscribers, NEW t \in Filters[s], NEW n \in Delivered(s, t)', n >= 0
               PROVE  s \in subscribersByTopic'[t] \/ Closed(s)'
    BY DEF JoinedInv, Closed
  <1>1. t \in Topics
    BY BrokerAssumption DEF BrokerAssumption
  <1>2. SinkOrder(s, t)
    BY DEF OrderInv
  <1>3. Delivered(s, t)' = Delivered(s, t)
    BY <1>1, <1>2 DEF QuietStep, Kept, SinkOrder, Delivered
  <1>4. s \in subscribersByTopic[t] \/ Closed(s)
    BY <1>3 DEF JoinedInv, Closed
  <1> QED BY <1>1, <1>4 DEF QuietStep

\* A quiet step records nothing.
LEMMA QuietStats ==
  ASSUME StatsInv, QuietStep
  PROVE  StatsInv'
  BY DEF StatsInv, StatOK, QuietStep, InternalGaps

-----------------------------------------------------------------------------
(* All but the steps of messages are such steps.                           *)

\* Connecting is quiet.
LEMMA ConnectQuiet ==
  ASSUME BrokerInv, RegistryInv, NEW c \in Clients, Connect(c)
  PROVE  QuietStep
  <1>1. /\ UNCHANGED <<proto, nextSequence, stats, fanOut, toClient, subscribersByTopic>>
        /\ client[c] = "new" /\ client' = [client EXCEPT ![c] = "connected"]
        /\ sockets' = sockets \cup {c}
        /\ toBroker' = [toBroker EXCEPT ![c] = <<Control("CONNECT")>>]
    BY DEF Connect, Idle
  <1>2. /\ toBroker[c] = <<>> /\ toBroker \in [Clients -> Seq(Packets)]
        /\ client \in [Clients -> {"new", "connected", "gone"}]
        /\ \A t \in Topics : subscribersByTopic[t] \subseteq sockets
    BY <1>1 DEF RegistryInv, FanInv, BrokerInv, TypeOK
  <1>3. Kept(toBroker[c], toBroker'[c])
    BY <1>1, <1>2, KeptConnect
  <1>4. \A d \in Clients : /\ Kept(toBroker[d], toBroker'[d])
                           /\ client[d] = "gone" =>
                                d # c /\ client'[d] = "gone" /\ toBroker'[d] = toBroker[d]
    BY <1>1, <1>2, <1>3, KeptAll
  <1>5. Publishers \subseteq Clients /\ Subscribers \subseteq Clients
    BY DEF Clients
  <1>6. \A s \in Subscribers : Closed(s) => Closed(s)'
    BY <1>1, <1>4, <1>5 DEF Closed
  <1>7. \A s \in Subscribers : Kept(toClient[s], toClient'[s])
    BY <1>1, KeptAll
  <1> QED BY <1>1, <1>4, <1>5, <1>6, <1>7 DEF QuietStep

\* Leaving is quiet.
LEMMA LeaveQuiet ==
  ASSUME BrokerInv, NEW c \in Clients, Leave(c)
  PROVE  QuietStep
  <1>1. /\ UNCHANGED <<proto, nextSequence, stats, fanOut, toClient, toBroker,
                      subscribersByTopic, sockets>>
        /\ client[c] = "connected" /\ client' = [client EXCEPT ![c] = "gone"]
        /\ client \in [Clients -> {"new", "connected", "gone"}]
    BY DEF Leave, Idle, streams, BrokerInv, TypeOK
  <1>2. \A d \in Clients : client[d] = "gone" => client'[d] = "gone"
    BY <1>1
  <1>3. Publishers \subseteq Clients /\ Subscribers \subseteq Clients
    BY DEF Clients
  <1>4. \A s \in Subscribers : Closed(s) => Closed(s)'
    BY <1>1, <1>2, <1>3 DEF Closed
  <1> QED BY <1>1, <1>2, <1>3, <1>4, KeptAll DEF QuietStep

\* So is a connection that closes, with the packets still on it lost.
LEMMA SocketClosedQuiet ==
  ASSUME BrokerInv, NEW c \in Clients, SocketClosed(c)
  PROVE  QuietStep
  <1>1. /\ UNCHANGED <<proto, nextSequence, stats, fanOut, toClient, client>>
        /\ client[c] = "gone" /\ sockets' = sockets \ {c}
        /\ toBroker' = [toBroker EXCEPT ![c] = <<>>]
        /\ toBroker \in [Clients -> Seq(Packets)]
        /\ subscribersByTopic' = [t \in Topics |-> subscribersByTopic[t] \ {c}]
    BY DEF SocketClosed, Idle, Unsubscribed, BrokerInv, TypeOK
  <1>2. Publishers \subseteq Clients /\ Subscribers \subseteq Clients
    BY DEF Clients
  <1>3. \A d \in Clients : \/ d = c /\ client'[d] = "gone" /\ toBroker'[d] = <<>>
                           \/ d # c /\ toBroker'[d] = toBroker[d]
    BY <1>1
  <1>4. \A s \in Subscribers : (Closed(s) => Closed(s)') /\ (s = c => Closed(s)')
    BY <1>1 DEF Closed
  <1>5. \A d \in Clients :
          \/ Kept(toBroker[d], toBroker'[d])
          \/ client'[d] = "gone" /\ toBroker'[d] = <<>>
    BY <1>3, KeptAll
  <1>6. \A s \in Subscribers : Kept(toClient[s], toClient'[s])
    BY <1>1, KeptAll
  <1>7. \A t \in Topics : \A s \in Subscribers :
          /\ s \in subscribersByTopic'[t] => s \in subscribersByTopic[t]
          /\ s \in subscribersByTopic[t] => s \in subscribersByTopic'[t] \/ s = c
    BY <1>1
  <1> QED BY <1>1, <1>2, <1>3, <1>4, <1>5, <1>6, <1>7 DEF QuietStep

\* An answer, and a packet that is no message taken.
LEMMA AnswerKept ==
  ASSUME BrokerInv, NEW c \in Clients, NEW type \in {"CONNACK", "SUBACK", "PUBACK"},
         Answer(c, type)
  PROVE  \A d \in Clients : Kept(toClient[d], toClient'[d])
  <1>1. toClient \in [Clients -> Seq(Packets)]
    BY DEF BrokerInv, TypeOK
  <1>2. PICK q \in Written(toClient[c], Control(type)) : toClient' = [toClient EXCEPT ![c] = q]
    BY DEF Answer
  <1>3. Kept(toClient[c], q)
    BY <1>1, KeptWritten
  <1> QED BY <1>1, <1>2, <1>3, KeptAll

\* The broker answers a control packet, and no number changes either way.
LEMMA HandledKept ==
  ASSUME BrokerInv, NEW c \in Clients, NEW type \in {"CONNECT", "SUBSCRIBE", "PUBACK"},
         Handled(c, type)
  PROVE  /\ \A d \in Clients : /\ Kept(toBroker[d], toBroker'[d])
                               /\ toBroker[d] = <<>> => toBroker'[d] = <<>>
         /\ UNCHANGED <<proto, client, connack, sockets, nextSequence, stats>>
         /\ fanOut = Nothing /\ c \in sockets
  <1>1. /\ toBroker \in [Clients -> Seq(Packets)] /\ toBroker[c] # <<>>
        /\ toBroker' = [toBroker EXCEPT ![c] = Tail(toBroker[c])]
        /\ UNCHANGED <<proto, client, connack, sockets, nextSequence, stats>>
        /\ fanOut = Nothing /\ c \in sockets
    BY DEF Handled, BrokerInv, TypeOK
  <1>2. Head(toBroker[c]) \in Packets /\ Head(toBroker[c]).type # "PUBLISH"
    BY HandledProperties
  <1>3. Kept(toBroker[c], Tail(toBroker[c]))
    BY <1>1, <1>2, KeptTail
  <1> QED BY <1>1, <1>3, KeptAll

\* All the broker does is quiet, but to take a message.
LEMMA BrokerQuiet ==
  ASSUME BrokerInv, NEW c \in Clients, OnConnect(c) \/ OnSubscribe(c) \/ OnPuback(c)
  PROVE  QuietStep
  <1>1. PICK type \in {"CONNECT", "SUBSCRIBE", "PUBACK"} : Handled(c, type)
    BY DEF OnConnect, OnSubscribe, OnPuback
  <1>2. /\ \A d \in Clients : /\ Kept(toBroker[d], toBroker'[d])
                              /\ toBroker[d] = <<>> => toBroker'[d] = <<>>
        /\ UNCHANGED <<proto, client, connack, sockets, nextSequence, stats>>
        /\ c \in sockets
    BY <1>1, HandledKept
  <1>3. \A d \in Clients : Kept(toClient[d], toClient'[d])
    <2>1. CASE OnConnect(c)
      BY <2>1, AnswerKept DEF OnConnect
    <2>2. CASE OnSubscribe(c)
      BY <2>2, AnswerKept DEF OnSubscribe
    <2>3. CASE OnPuback(c)
      BY <2>3, KeptAll DEF OnPuback
    <2> QED BY <2>1, <2>2, <2>3
  <1>4. UNCHANGED fanOut
    BY DEF OnConnect, OnSubscribe, OnPuback
  <1>5. \A t \in Topics : /\ subscribersByTopic[t] \subseteq subscribersByTopic'[t]
                          /\ subscribersByTopic'[t] \subseteq subscribersByTopic[t] \cup {c}
    BY DEF OnConnect, OnSubscribe, OnPuback, Subscribed
  <1>6. Publishers \subseteq Clients /\ Subscribers \subseteq Clients
    BY DEF Clients
  <1>7. ~Closed(c) /\ \A s \in Subscribers : Closed(s) => Closed(s)'
    BY <1>2 DEF Closed
  <1>8. \A t \in Topics : \A s \in Subscribers :
          /\ s \in subscribersByTopic'[t] => s \in subscribersByTopic[t] \/ ~Closed(s)
          /\ s \in subscribersByTopic[t] => s \in subscribersByTopic'[t]
    BY <1>5, <1>7
  <1> QED BY <1>2, <1>3, <1>4, <1>6, <1>7, <1>8 DEF QuietStep

\* A subscriber writes only control packets; so a publisher's stream stays.
LEMMA ClientQuiet ==
  ASSUME BrokerInv, NEW c \in Clients, OnConnack(c) \/ OnAck(c)
  PROVE  QuietStep
  <1>1. PICK types : Taken(c, types) /\ "PUBLISH" \notin types
    BY DEF OnConnack, OnAck
  <1>2. /\ toClient' = [toClient EXCEPT ![c] = Tail(toClient[c])]
        /\ toClient[c] \in Seq(Packets) /\ toClient[c] # <<>>
        /\ Head(toClient[c]) \in Packets /\ Head(toClient[c]).type # "PUBLISH"
        /\ UNCHANGED <<proto, client, sockets, subscribersByTopic, nextSequence, fanOut>>
    BY <1>1, TakenProperties
  <1>3. toClient \in [Clients -> Seq(Packets)] /\ toBroker \in [Clients -> Seq(Packets)]
    BY DEF BrokerInv, TypeOK
  <1>4. Kept(toClient[c], Tail(toClient[c]))
    BY <1>2, KeptTail
  <1>5. \A d \in Clients : Kept(toClient[d], toClient'[d])
    BY <1>2, <1>3, <1>4, KeptAll
  <1>6. stats' = stats
    BY DEF OnConnack, OnAck
  <1>7. \A d \in Publishers : toBroker'[d] = toBroker[d]
    <2>1. c \in Subscribers => c \notin Publishers
      BY BrokerAssumption DEF BrokerAssumption
    <2>2. toBroker' = toBroker \/ (c \in Subscribers /\ \E q : toBroker' = [toBroker EXCEPT ![c] = q])
      BY DEF OnConnack, OnAck
    <2> QED BY <1>3, <2>1, <2>2 DEF Clients
  <1>8. Publishers \subseteq Clients /\ Subscribers \subseteq Clients
    BY DEF Clients
  <1>9. \A s \in Subscribers : Closed(s) => Closed(s)'
    BY <1>2 DEF Closed
  <1> QED BY <1>2, <1>5, <1>6, <1>7, <1>8, <1>9, KeptAll DEF QuietStep

\* And so is doing nothing.
LEMMA StutterQuiet ==
  ASSUME UNCHANGED vars
  PROVE  QuietStep
  <1>1. UNCHANGED <<proto, client, sockets, toBroker, toClient, subscribersByTopic, nextSequence,
                    stats, fanOut>>
    BY DEF vars, streams
  <1> QED BY <1>1, KeptAll DEF QuietStep, Closed

-----------------------------------------------------------------------------
(* The steps of messages.                                                  *)

\* The numbers on every stream and in the fan-out are natural.
LEMMA NumberTypes ==
  ASSUME BrokerInv, NEW t \in Topics
  PROVE  /\ PublisherOf[t] \in Publishers /\ PublisherOf[t] \in Clients
         /\ nextSequence[t] \in Nat /\ Incoming(t) \subseteq Nat /\ Fanned(t) \subseteq Nat
         /\ \A s \in Subscribers : /\ Numbers(toClient[s], t) \subseteq Nat
                                   /\ FannedTo(s, t) \subseteq Fanned(t)
                                   /\ Coming(s, t) \subseteq Nat
                                   /\ t \in Filters[s] => Delivered(s, t) \subseteq Nat \cup {-1}
  <1>1. PublisherOf[t] \in Publishers /\ PublisherOf[t] \in Clients
    BY BrokerAssumption DEF BrokerAssumption, Clients
  <1>2. nextSequence[t] \in Nat /\ fanOut.seq \in Nat
    BY DEF BrokerInv, TypeOK
  <1>3. Incoming(t) \subseteq Nat
    <2>1. toBroker[PublisherOf[t]] \in Seq(Packets)
      BY <1>1 DEF BrokerInv, TypeOK
    <2> QED BY <2>1, NumbersType DEF Incoming
  <1>4. Fanned(t) \subseteq Nat /\ \A s : FannedTo(s, t) \subseteq Fanned(t)
    BY <1>2 DEF Fanned, FannedTo
  <1>5. ASSUME NEW s \in Subscribers
        PROVE  Numbers(toClient[s], t) \subseteq Nat
    <2>1. toClient[s] \in Seq(Packets)
      BY DEF BrokerInv, TypeOK, Clients
    <2> QED BY <2>1, NumbersType
  <1>6. ASSUME NEW s \in Subscribers, t \in Filters[s]
        PROVE  stats[s][t].highestSeq \in Nat \cup {-1}
    <2>1. stats[s][t] \in [received : Nat, lowestSeq : Nat \cup {-1}, highestSeq : Nat \cup {-1}]
      BY <1>6 DEF BrokerInv, TypeOK
    <2> QED BY <2>1
  <1>7. \A s \in Subscribers : /\ Coming(s, t) \subseteq Nat
                               /\ t \in Filters[s] => Delivered(s, t) \subseteq Nat \cup {-1}
    BY <1>3, <1>4, <1>5, <1>6 DEF Coming, Delivered
  <1> QED BY <1>1, <1>2, <1>3, <1>4, <1>5, <1>7

\* A message published comes after all the others of its topic.
LEMMA PublishSource ==
  ASSUME BrokerInv, OrderInv, NEW u \in Topics, Publish(u)
  PROVE  /\ UNCHANGED <<proto, client, sockets, toClient, subscribersByTopic, stats, fanOut>>
         /\ \A t \in Topics :
              /\ Cut(t) <=> Cut(t)'
              /\ Ascending(toBroker'[PublisherOf[t]], t)
              /\ t # u => nextSequence'[t] = nextSequence[t] /\ Incoming(t)' = Incoming(t)
         /\ ~Cut(u) /\ nextSequence'[u] = nextSequence[u] + 1
         /\ Incoming(u) \subseteq Incoming(u)'
         /\ Incoming(u)' \subseteq Incoming(u) \cup {nextSequence[u]}
         /\ proto = "tcp" => nextSequence[u] \in Incoming(u)'
  <1> DEFINE c == PublisherOf[u]
             p == Publication(u, 0, nextSequence[u])
  <1>1. /\ UNCHANGED <<proto, client, sockets, toClient, subscribersByTopic, stats, fanOut>>
        /\ client[c] = "connected" /\ fanOut = Nothing
        /\ nextSequence' = [nextSequence EXCEPT ![u] = nextSequence[u] + 1]
    BY DEF Publish, Idle
  <1>2. PICK q \in Written(toBroker[c], p) : toBroker' = [toBroker EXCEPT ![c] = q]
    BY DEF Publish
  <1>3. /\ toBroker \in [Clients -> Seq(Packets)] /\ nextSequence \in [Topics -> Nat]
        /\ \A t \in Topics : PublisherOf[t] \in Clients
    BY NumberTypes DEF BrokerInv, TypeOK
  <1>4. p \in Packets /\ p.topic = u /\ p.seq = nextSequence[u]
    <2>1. 0 \in 0 .. PacketIds - 1 /\ nextSequence[u] \in Nat
      BY <1>3, BrokerAssumption DEF BrokerAssumption
    <2>2. p.seq = nextSequence[u]
      BY DEF Publication
    <2> QED BY <2>1, <2>2, PublicationPacket
  <1> HIDE DEF p
  <1>5. ASSUME NEW t \in Topics
        PROVE  Ascending(toBroker[PublisherOf[t]], t)
    BY DEF OrderInv, SourceOrder
  <1>6. ASSUME NEW t \in Topics, t # u
        PROVE  Ascending(toBroker'[PublisherOf[t]], t) /\ Incoming(t)' = Incoming(t)
    <2>1. CASE PublisherOf[t] = c
      <3>1. toBroker'[c] = q /\ toBroker[c] \in Seq(Packets) /\ Ascending(toBroker[c], t)
        BY <1>2, <1>3, <1>5, <2>1
      <3>2. Ascending(q, t) /\ Numbers(q, t) = Numbers(toBroker[c], t)
        BY <1>2, <1>4, <1>6, <3>1, NumbersWritten
      <3> QED BY <2>1, <3>1, <3>2 DEF Incoming
    <2>2. CASE PublisherOf[t] # c
      <3>1. toBroker'[PublisherOf[t]] = toBroker[PublisherOf[t]]
        BY <1>2, <1>3, <2>2
      <3> QED BY <1>5, <3>1 DEF Incoming
    <2> QED BY <2>1, <2>2
  <1>7. /\ Ascending(toBroker'[c], u)
        /\ Incoming(u) \subseteq Incoming(u)'
        /\ Incoming(u)' \subseteq Incoming(u) \cup {nextSequence[u]}
        /\ proto = "tcp" => nextSequence[u] \in Incoming(u)'
    <2>1. toBroker'[c] = q /\ toBroker[c] \in Seq(Packets) /\ Ascending(toBroker[c], u)
      BY <1>2, <1>3, <1>5
    <2>2. \A n \in Numbers(toBroker[c], u) : n < p.seq
      BY <1>4 DEF OrderInv, SourceOrder, Incoming
    <2>3. /\ Numbers(toBroker[c], u) \subseteq Numbers(q, u)
          /\ Numbers(q, u) \subseteq Numbers(toBroker[c], u) \cup {p.seq}
          /\ proto = "tcp" => p.seq \in Numbers(q, u)
          /\ Ascending(q, u)
      BY <1>2, <1>4, <2>1, <2>2, NumbersWritten
    <2> QED BY <1>4, <2>1, <2>3 DEF Incoming
  <1>8. ASSUME NEW t \in Topics
        PROVE  Cut(t) <=> Cut(t)'
    <2>1. CASE PublisherOf[t] = c
      BY <1>1, <2>1 DEF Cut
    <2>2. CASE PublisherOf[t] # c
      <3>1. toBroker'[PublisherOf[t]] = toBroker[PublisherOf[t]]
        BY <1>2, <1>3, <2>2
      <3> QED BY <1>1, <3>1 DEF Cut
    <2> QED BY <2>1, <2>2
  <1>9. ~Cut(u)
    BY <1>1 DEF Cut
  <1>10. \A t \in Topics : t # u => nextSequence'[t] = nextSequence[t]
    BY <1>1, <1>3
  <1>11. nextSequence'[u] = nextSequence[u] + 1
    BY <1>1, <1>3
  <1> QED BY <1>1, <1>6, <1>7, <1>8, <1>9, <1>10, <1>11

\* Publishing keeps the four invariants of the messages.
LEMMA PublishOrder ==
  ASSUME BrokerInv, OrderInv, JoinedInv, WholeInv, StatsInv, NEW u \in Topics, Publish(u)
  PROVE  OrderInv' /\ JoinedInv' /\ WholeInv' /\ StatsInv'
  <1>1. /\ UNCHANGED <<proto, client, sockets, toClient, subscribersByTopic, stats, fanOut>>
        /\ \A t \in Topics :
             /\ Cut(t) <=> Cut(t)'
             /\ Ascending(toBroker'[PublisherOf[t]], t)
             /\ t # u => nextSequence'[t] = nextSequence[t] /\ Incoming(t)' = Incoming(t)
        /\ ~Cut(u) /\ nextSequence'[u] = nextSequence[u] + 1
        /\ Incoming(u) \subseteq Incoming(u)'
        /\ Incoming(u)' \subseteq Incoming(u) \cup {nextSequence[u]}
        /\ proto = "tcp" => nextSequence[u] \in Incoming(u)'
    BY PublishSource
  <1>2. \A t \in Topics : Fanned(t)' = Fanned(t)
    BY <1>1 DEF Fanned
  <1>3. \A s \in Subscribers, t \in Topics :
          /\ Delivered(s, t)' = Delivered(s, t) /\ FannedTo(s, t)' = FannedTo(s, t)
          /\ FannedTo(s, t) \subseteq Fanned(t)
          /\ Coming(s, t) = Numbers(toClient[s], t) \cup FannedTo(s, t) \cup Incoming(t)
          /\ Coming(s, t)' = Numbers(toClient[s], t) \cup FannedTo(s, t) \cup Incoming(t)'
    BY <1>1 DEF Delivered, FannedTo, Fanned, Coming
  <1>4. ASSUME NEW t \in Topics
        PROVE  SourceOrder(t)'
    <2>1. SourceOrder(t) /\ nextSequence[t] \in Nat /\ Fanned(t) \subseteq Nat
          /\ Incoming(t) \subseteq Nat
      BY NumberTypes DEF OrderInv
    <2>2. CASE t # u
      BY <1>1, <1>2, <2>1, <2>2 DEF SourceOrder
    <2>3. CASE t = u
      BY <1>1, <1>2, <2>1, <2>3 DEF SourceOrder
    <2> QED BY <2>2, <2>3
  <1>5. ASSUME NEW s \in Subscribers, NEW t \in Filters[s]
        PROVE  SinkOrder(s, t)'
    <2>1. t \in Topics
      BY BrokerAssumption DEF BrokerAssumption
    <2>2. SinkOrder(s, t) /\ nextSequence[t] \in Nat /\ Delivered(s, t) \subseteq Nat \cup {-1}
      BY <2>1, NumberTypes DEF OrderInv
    <2>3. \A m \in Delivered(s, t) : m < nextSequence'[t]
      BY <1>1, <2>1, <2>2 DEF SinkOrder
    <2>4. \A m \in Delivered(s, t) : \A n \in FannedTo(s, t) \cup Incoming(t)' : m < n
      BY <1>1, <2>1, <2>2 DEF SinkOrder
    <2> QED BY <1>1, <1>3, <2>1, <2>2, <2>3, <2>4 DEF SinkOrder
  <1>6. OrderInv'
    BY <1>4, <1>5 DEF OrderInv
  <1>7. JoinedInv'
    <2>1. \A s \in Subscribers : \A t \in Filters[s] : t \in Topics
      BY BrokerAssumption DEF BrokerAssumption
    <2> QED BY <1>1, <1>3, <2>1 DEF JoinedInv
  <1>8. StatsInv'
    BY <1>1 DEF StatsInv, StatOK, InternalGaps
  <1>9. WholeInv'
    <2> SUFFICES ASSUME proto = "tcp"
                 PROVE  /\ \A t \in Topics : SourceWhole(t)'
                        /\ \A t \in Topics : \A s \in subscribersByTopic[t] : SinkWhole(s, t)'
      BY <1>1 DEF WholeInv
    <2>1. ASSUME NEW t \in Topics
          PROVE  SourceWhole(t)'
      <3>1. SourceWhole(t)
        BY DEF WholeInv
      <3>2. nextSequence[t] \in Nat /\ Incoming(t) \subseteq Nat /\ Fanned(t) \subseteq Nat
        BY NumberTypes
      <3>3. CASE t # u
        BY <1>1, <1>2, <3>1, <3>3 DEF SourceWhole
      <3>4. CASE t = u
        <4> SUFFICES ASSUME NEW m \in Incoming(u)' \cup Fanned(u),
                            NEW n \in m + 1 .. nextSequence[u]
                     PROVE  n \in Incoming(u)'
          <5>1. nextSequence'[u] - 1 = nextSequence[u]
            BY <1>1, <3>2, <3>4
          <5> QED BY <1>2, <3>4, <5>1 DEF SourceWhole
        <4>1. m \in Nat /\ n \in Int /\ m < n /\ n <= nextSequence[u]
          BY <1>1, <3>2, <3>4
        <4>2. CASE n = nextSequence[u]
          BY <1>1, <4>2
        <4>3. CASE n < nextSequence[u]
          <5>1. m \in Incoming(u) \cup Fanned(u) /\ n \in m + 1 .. nextSequence[u] - 1
            BY <1>1, <3>2, <3>4, <4>1, <4>3
          <5> QED BY <1>1, <3>1, <3>4, <5>1 DEF SourceWhole
        <4> QED BY <3>2, <3>4, <4>1, <4>2, <4>3
      <3> QED BY <3>3, <3>4
    <2>2. ASSUME NEW t \in Topics, NEW s \in subscribersByTopic[t]
          PROVE  SinkWhole(s, t)'
      <3>1. SinkWhole(s, t) /\ s \in Subscribers /\ t \in Filters[s]
        BY DEF WholeInv, BrokerInv, TypeOK
      <3>2. nextSequence[t] \in Nat /\ Delivered(s, t) \subseteq Nat \cup {-1}
        BY <3>1, NumberTypes
      <3>3. CASE t # u
        BY <1>1, <1>3, <3>1, <3>3 DEF SinkWhole
      <3>4. CASE t = u
        <4> SUFFICES ASSUME NEW m \in Delivered(s, u), m >= 0,
                            NEW n \in m + 1 .. nextSequence[u]
                     PROVE  n \in Coming(s, u)'
          <5>1. nextSequence'[u] - 1 = nextSequence[u]
            BY <1>1, <3>2, <3>4
          <5> QED BY <1>3, <3>1, <3>4, <5>1 DEF SinkWhole
        <4>1. m \in Nat /\ n \in Int /\ m < n /\ n <= nextSequence[u]
          BY <3>2, <3>4
        <4>2. CASE n = nextSequence[u]
          BY <1>1, <1>3, <3>1, <4>2
        <4>3. CASE n < nextSequence[u]
          <5>1. n \in m + 1 .. nextSequence[u] - 1
            BY <3>2, <3>4, <4>1, <4>3
          <5>2. n \in Coming(s, u)
            BY <1>1, <3>1, <3>4, <5>1 DEF SinkWhole
          <5> QED BY <1>1, <1>3, <3>1, <5>2
        <4> QED BY <3>2, <3>4, <4>1, <4>2, <4>3
      <3> QED BY <3>3, <3>4
    <2> QED BY <2>1, <2>2
  <1> QED BY <1>6, <1>7, <1>8, <1>9

\* The broker takes the lowest number h of topic u on the way, and forwards it to all that
\* are registered.
Fans(u, h) ==
  /\ UNCHANGED <<proto, client, sockets, nextSequence, stats, subscribersByTopic>>
  /\ \A d \in Clients : Kept(toClient[d], toClient'[d])
  /\ \A t \in Topics :
       /\ Cut(t) => Cut(t)'
       /\ Ascending(toBroker'[PublisherOf[t]], t)
       /\ Fanned(t) = {} /\ \A s \in Subscribers : FannedTo(s, t) = {}
       /\ \A s \in Subscribers : FannedTo(s, t)' \subseteq Fanned(t)'
       /\ t # u => Incoming(t)' = Incoming(t) /\ Fanned(t)' = {}
  /\ ~Cut(u)
  /\ Incoming(u) = Incoming(u)' \cup {h} /\ \A n \in Incoming(u)' : h < n
  /\ Fanned(u)' \subseteq {h}
  /\ \A s \in subscribersByTopic[u] : FannedTo(s, u)' = {h}

\* onPublish is such a step.
LEMMA OnPublishSource ==
  ASSUME BrokerInv, RegistryInv, OrderInv, NEW c \in Clients, OnPublish(c)
  PROVE  \E u \in Topics : \E h \in Nat : Fans(u, h)
  <1> DEFINE m == Head(toBroker[c])
  <1>1. Handled(c, "PUBLISH")
    BY DEF OnPublish
  <1>2. m \in Packets /\ m.type = "PUBLISH"
    BY <1>1, HandledProperties
  <1>3. m.topic \in Topics /\ m.seq \in Nat
    BY <1>2, PacketTopic
  <1>T. PICK u \in Topics : u = m.topic
    BY <1>3
  <1>H. PICK h \in Nat : h = m.seq
    BY <1>3
  <1>4. /\ UNCHANGED <<proto, client, sockets, nextSequence, stats, subscribersByTopic>>
        /\ fanOut = Nothing /\ toBroker[c] # <<>>
        /\ toBroker' = [toBroker EXCEPT ![c] = Tail(toBroker[c])]
        /\ toBroker \in [Clients -> Seq(Packets)] /\ toBroker[c] \in Seq(Packets)
        /\ \A t \in Topics : PublisherOf[t] \in Clients
        /\ None \notin Topics
    BY <1>1, NumberTypes, BrokerAssumption DEF OnPublish, Handled, BrokerInv, TypeOK, BrokerAssumption
  <1>5. c = PublisherOf[u]
    <2>1. m \in On(toBroker[c])
      BY <1>4, OnHead
    <2> QED BY <1>2, <1>T, <2>1 DEF RegistryInv
  <1>6. \A d \in Clients : Kept(toClient[d], toClient'[d])
    <2>1. CASE QoS > 0
      BY <2>1, AnswerKept DEF OnPublish
    <2>2. CASE ~(QoS > 0)
      BY <2>2, KeptAll DEF OnPublish
    <2> QED BY <2>1, <2>2
  <1>7. fanOut' = IF subscribersByTopic[u] = {} THEN Nothing
                  ELSE [topic |-> u, seq |-> h, to |-> subscribersByTopic[u]]
    BY <1>T, <1>H DEF OnPublish
  <1>8. Nothing.topic = None /\ Nothing.to = {}
    BY DEF Nothing
  <1>9. ASSUME NEW t \in Topics
        PROVE  /\ Cut(t) => Cut(t)'
               /\ Ascending(toBroker'[PublisherOf[t]], t)
               /\ t # u => Incoming(t)' = Incoming(t)
               /\ t = u => /\ ~Cut(u)
                           /\ Incoming(u) = Incoming(u)' \cup {h}
                           /\ \A n \in Incoming(u)' : h < n
    <2>0. Ascending(toBroker[PublisherOf[t]], t)
      BY DEF OrderInv, SourceOrder
    <2>1. CASE PublisherOf[t] = c
      <3>1. toBroker'[c] = Tail(toBroker[c]) /\ ~Cut(t)
        BY <1>4, <2>1 DEF Cut
      <3>2. Ascending(toBroker[c], t)
        BY <2>0, <2>1
      <3>3. /\ Ascending(Tail(toBroker[c]), t)
            /\ m.topic # t => Numbers(Tail(toBroker[c]), t) = Numbers(toBroker[c], t)
            /\ m.topic = t => /\ Numbers(toBroker[c], t) = Numbers(Tail(toBroker[c]), t) \cup {m.seq}
                              /\ \A n \in Numbers(Tail(toBroker[c]), t) : m.seq < n
        BY <1>4, <3>2, NumbersTail
      <3> QED BY <1>T, <1>H, <2>1, <3>1, <3>3 DEF Incoming
    <2>2. CASE PublisherOf[t] # c
      <3>1. toBroker'[PublisherOf[t]] = toBroker[PublisherOf[t]] /\ t # u
        BY <1>4, <1>5, <2>2
      <3> QED BY <1>4, <2>0, <3>1 DEF Cut, Incoming
    <2> QED BY <2>1, <2>2
  <1>10. ASSUME NEW t \in Topics
         PROVE  /\ Fanned(t) = {} /\ \A s \in Subscribers : FannedTo(s, t) = {}
                /\ \A s \in Subscribers : FannedTo(s, t)' \subseteq Fanned(t)'
                /\ t # u => Fanned(t)' = {}
    <2>1. Fanned(t) = {}
      BY <1>4, <1>8 DEF Fanned
    <2>2. t # u => Fanned(t)' = {}
      BY <1>4, <1>7, <1>8 DEF Fanned
    <2> QED BY <2>1, <2>2 DEF FannedTo
  <1>11. Fanned(u)' \subseteq {h}
    BY <1>3, <1>4, <1>7, <1>8 DEF Fanned
  <1>12. \A s \in subscribersByTopic[u] : FannedTo(s, u)' = {h}
    BY <1>7 DEF Fanned, FannedTo
  <1> QED BY <1>4, <1>6, <1>9, <1>10, <1>11, <1>12 DEF Fans

\* Taking a message keeps the four invariants of the messages.
LEMMA OnPublishOrder ==
  ASSUME BrokerInv, RegistryInv, OrderInv, JoinedInv, WholeInv, StatsInv,
         NEW c \in Clients, OnPublish(c)
  PROVE  OrderInv' /\ JoinedInv' /\ WholeInv' /\ StatsInv'
  <1>1. PICK u \in Topics : \E h \in Nat : Fans(u, h)
    BY OnPublishSource
  <1>2. PICK h \in Nat : Fans(u, h)
    BY <1>1
  <1>F. /\ UNCHANGED <<proto, client, sockets, nextSequence, stats, subscribersByTopic>>
        /\ \A d \in Clients : Kept(toClient[d], toClient'[d])
        /\ \A t \in Topics :
             /\ Cut(t) => Cut(t)'
             /\ Ascending(toBroker'[PublisherOf[t]], t)
             /\ Fanned(t) = {} /\ \A s \in Subscribers : FannedTo(s, t) = {}
             /\ \A s \in Subscribers : FannedTo(s, t)' \subseteq Fanned(t)'
             /\ t # u => Incoming(t)' = Incoming(t) /\ Fanned(t)' = {}
        /\ ~Cut(u)
        /\ Incoming(u) = Incoming(u)' \cup {h} /\ \A n \in Incoming(u)' : h < n
        /\ Fanned(u)' \subseteq {h}
        /\ \A s \in subscribersByTopic[u] : FannedTo(s, u)' = {h}
    BY <1>2 DEF Fans
  <1>3. ASSUME NEW t \in Topics
        PROVE  Incoming(t)' \cup Fanned(t)' \subseteq Incoming(t)
    BY <1>F
  <1>4. ASSUME NEW t \in Topics
        PROVE  SourceOrder(t)'
    <2>1. SourceOrder(t)
      BY DEF OrderInv
    <2>2. \A k \in Fanned(t)', n \in Incoming(t)' : k < n
      BY <1>F
    <2> QED BY <1>F, <1>3, <2>1, <2>2 DEF SourceOrder
  <1>5. ASSUME NEW s \in Subscribers, NEW t \in Filters[s]
        PROVE  /\ t \in Topics /\ SinkOrder(s, t)
               /\ Ascending(toClient'[s], t) /\ Numbers(toClient'[s], t) = Numbers(toClient[s], t)
               /\ Delivered(s, t)' = Delivered(s, t)
    <2>1. t \in Topics /\ s \in Clients
      BY BrokerAssumption DEF BrokerAssumption, Clients
    <2>2. SinkOrder(s, t)
      BY DEF OrderInv
    <2>3. Ascending(toClient'[s], t) /\ Numbers(toClient'[s], t) = Numbers(toClient[s], t)
      BY <1>F, <2>1, <2>2 DEF Kept, SinkOrder
    <2>4. Delivered(s, t)' = Delivered(s, t)
      BY <1>F, <2>3 DEF Delivered
    <2> QED BY <2>1, <2>2, <2>3, <2>4
  <1>6. ASSUME NEW s \in Subscribers, NEW t \in Filters[s]
        PROVE  SinkOrder(s, t)'
    <2>1. FannedTo(s, t)' \cup Incoming(t)' \subseteq Incoming(t)
      BY <1>F, <1>3, <1>5
    <2> QED BY <1>F, <1>5, <2>1 DEF SinkOrder
  <1>7. OrderInv'
    BY <1>4, <1>6 DEF OrderInv
  <1>8. JoinedInv'
    BY <1>F, <1>5 DEF JoinedInv
  <1>9. StatsInv'
    BY <1>F DEF StatsInv, StatOK, InternalGaps
  <1>10. WholeInv'
    <2> SUFFICES ASSUME proto = "tcp"
                 PROVE  /\ \A t \in Topics : SourceWhole(t)'
                        /\ \A t \in Topics : \A s \in subscribersByTopic[t] : SinkWhole(s, t)'
      BY <1>F DEF WholeInv
    <2>1. ASSUME NEW t \in Topics
          PROVE  SourceWhole(t)'
      <3>1. SourceWhole(t)
        BY DEF WholeInv
      <3>2. nextSequence[t] \in Nat /\ Incoming(t) \subseteq Nat
        BY NumberTypes
      <3>3. CASE t # u
        BY <1>F, <3>1, <3>3 DEF SourceWhole
      <3>4. CASE t = u
        <4> SUFFICES ASSUME NEW m \in Incoming(u)' \cup Fanned(u)',
                            NEW n \in m + 1 .. nextSequence[u] - 1
                     PROVE  n \in Incoming(u)'
          BY <1>F, <3>4 DEF SourceWhole
        <4>1. m \in Incoming(u) /\ m \in Nat /\ h <= m /\ n \in Int /\ m < n
          BY <1>F, <1>3, <3>2, <3>4
        <4>2. n \in Incoming(u)
          BY <1>F, <3>1, <3>4, <4>1 DEF SourceWhole
        <4>3. n # h
          BY <4>1
        <4> QED BY <1>F, <4>2, <4>3
      <3> QED BY <3>3, <3>4
    <2>2. ASSUME NEW t \in Topics, NEW s \in subscribersByTopic[t]
          PROVE  SinkWhole(s, t)'
      <3>1. SinkWhole(s, t) /\ s \in Subscribers /\ t \in Filters[s]
        BY DEF WholeInv, BrokerInv, TypeOK
      <3>2. Coming(s, t)' = Coming(s, t)
        <4>1. /\ Coming(s, t) = Numbers(toClient[s], t) \cup FannedTo(s, t) \cup Incoming(t)
              /\ Coming(s, t)' = Numbers(toClient'[s], t) \cup FannedTo(s, t)' \cup Incoming(t)'
              /\ Numbers(toClient'[s], t) = Numbers(toClient[s], t) /\ FannedTo(s, t) = {}
          BY <1>F, <1>5, <3>1 DEF Coming
        <4>2. CASE t # u
          <5>1. FannedTo(s, t)' = {} /\ Incoming(t)' = Incoming(t)
            BY <1>F, <3>1, <4>2
          <5> QED BY <4>1, <5>1
        <4>3. CASE t = u
          <5>1. FannedTo(s, t)' = {h} /\ Incoming(t) = Incoming(t)' \cup {h}
            BY <1>F, <4>3
          <5> QED BY <4>1, <5>1
        <4> QED BY <4>2, <4>3
      <3>3. Delivered(s, t)' = Delivered(s, t)
        BY <1>5, <3>1
      <3> QED BY <1>F, <3>1, <3>2, <3>3 DEF SinkWhole
    <2> QED BY <2>1, <2>2
  <1> QED BY <1>7, <1>8, <1>9, <1>10

\* Message h of topic u goes, or does not go, from the fan-out to the stream of r.
Moves(r, u, h) ==
  /\ UNCHANGED <<proto, client, sockets, toBroker, nextSequence, stats, subscribersByTopic>>
  /\ r \in subscribersByTopic[u] /\ Fanned(u) = {h} /\ FannedTo(r, u) = {h}
  /\ \A t \in Topics :
       /\ Fanned(t)' \subseteq Fanned(t)
       /\ \A s \in Subscribers : s # r => /\ FannedTo(s, t)' = FannedTo(s, t)
                                          /\ toClient'[s] = toClient[s]
       /\ FannedTo(r, t)' = {}
       /\ Ascending(toClient[r], t) =>
            /\ Ascending(toClient'[r], t)
            /\ t # u => Numbers(toClient'[r], t) = Numbers(toClient[r], t) /\ FannedTo(r, t) = {}
  /\ Numbers(toClient[r], u) \subseteq Numbers(toClient'[r], u)
  /\ Numbers(toClient'[r], u) \subseteq Numbers(toClient[r], u) \cup {h}
  /\ proto = "tcp" => h \in Numbers(toClient'[r], u)

\* Forwarding is such a move.
LEMMA ForwardMoves ==
  ASSUME BrokerInv, RegistryInv, OrderInv, NEW r \in Subscribers, Forward(r)
  PROVE  \E u \in Topics : \E h \in Nat : Moves(r, u, h) /\ u \in Filters[r]
  <1> DEFINE id == IF QoS > 0 THEN nextPacketId ELSE 0
             p == Publication(fanOut.topic, id, fanOut.seq)
  <1>1. /\ r \in fanOut.to /\ fanOut.topic \in Topics /\ fanOut.topic \in Filters[r]
        /\ r \in subscribersByTopic[fanOut.topic] /\ r \in sockets /\ r \in Clients
        /\ fanOut.seq \in Nat /\ nextPacketId \in 1 .. PacketIds - 1
        /\ fanOut \in [topic : Topics \cup {None}, seq : Nat, to : SUBSET Subscribers]
        /\ toClient \in [Clients -> Seq(Packets)] /\ toClient[r] \in Seq(Packets)
    BY DEF Forward, RegistryInv, FanInv, BrokerInv, TypeOK, Clients
  <1>T. PICK u \in Topics : u = fanOut.topic
    BY <1>1
  <1>H. PICK h \in Nat : h = fanOut.seq
    BY <1>1
  <1>2. p \in Packets /\ p.topic = u /\ p.seq = h
    <2>1. id \in 0 .. PacketIds - 1
      BY <1>1, BrokerAssumption DEF BrokerAssumption
    <2>2. p.seq = fanOut.seq
      BY DEF Publication
    <2> HIDE DEF id
    <2> QED BY <1>1, <1>T, <1>H, <2>1, <2>2, PublicationPacket
  <1>3. /\ UNCHANGED <<proto, client, sockets, toBroker, nextSequence, stats, subscribersByTopic>>
        /\ fanOut' = Nothing \/ fanOut' = [fanOut EXCEPT !.to = fanOut.to \ {r}]
        /\ fanOut' = Nothing => fanOut.to \ {r} = {}
    BY DEF Forward, Rest, Nothing
  <1>4. PICK q \in Written(toClient[r], p) : toClient' = [toClient EXCEPT ![r] = q]
    BY <1>1 DEF Forward
  <1>5. Fanned(u) = {h} /\ FannedTo(r, u) = {h} /\ \A t \in Topics : t # u => FannedTo(r, t) = {}
    BY <1>1, <1>T, <1>H DEF Fanned, FannedTo
  <1>6. \A t \in Topics : Fanned(t)' \subseteq Fanned(t)
    <2>1. None \notin Topics /\ Nothing.topic = None
      BY BrokerAssumption DEF BrokerAssumption, Nothing
    <2> QED BY <1>1, <1>3, <2>1 DEF Fanned
  <1>7. ASSUME NEW t \in Topics, NEW s \in Subscribers
        PROVE  FannedTo(s, t)' = IF s = r THEN {} ELSE FannedTo(s, t)
    <2>1. Nothing.to = {}
      BY DEF Nothing
    <2>2. CASE fanOut' = Nothing
      BY <1>3, <2>1, <2>2 DEF FannedTo
    <2>3. CASE fanOut' = [fanOut EXCEPT !.to = fanOut.to \ {r}]
      <3>1. fanOut'.topic = fanOut.topic /\ fanOut'.seq = fanOut.seq /\ fanOut'.to = fanOut.to \ {r}
        BY <1>1, <2>3
      <3> QED BY <3>1 DEF FannedTo, Fanned
    <2> QED BY <1>3, <2>2, <2>3
  <1>8. \A s \in Subscribers : s # r => toClient'[s] = toClient[s]
    BY <1>1, <1>4 DEF Clients
  <1>9. toClient'[r] = q
    BY <1>1, <1>4
  <1> HIDE DEF p
  <1>10. SinkOrder(r, u)
    BY <1>1, <1>T DEF OrderInv
  <1>11. \A n \in Numbers(toClient[r], u) : n < h
    BY <1>5, <1>10 DEF SinkOrder, Delivered
  <1>12. ASSUME NEW t \in Topics, Ascending(toClient[r], t)
         PROVE  /\ Ascending(q, t)
                /\ t # u => Numbers(q, t) = Numbers(toClient[r], t)
    <2>1. CASE t = u
      BY <1>1, <1>2, <1>4, <1>11, <1>12, <2>1, NumbersWritten
    <2>2. CASE t # u
      BY <1>1, <1>2, <1>4, <1>12, <2>2, NumbersWritten
    <2> QED BY <2>1, <2>2
  <1>13. /\ Numbers(toClient[r], u) \subseteq Numbers(q, u)
         /\ Numbers(q, u) \subseteq Numbers(toClient[r], u) \cup {h}
         /\ proto = "tcp" => h \in Numbers(q, u)
    <2>1. Ascending(toClient[r], u)
      BY <1>10 DEF SinkOrder
    <2> QED BY <1>1, <1>2, <1>4, <2>1, NumbersWritten
  <1>14. Moves(r, u, h)
    BY <1>1, <1>T, <1>3, <1>5, <1>6, <1>7, <1>8, <1>9, <1>12, <1>13 DEF Moves
  <1> QED BY <1>1, <1>T, <1>14

\* Forwarding keeps the four invariants of the messages.
LEMMA ForwardOrder ==
  ASSUME BrokerInv, RegistryInv, OrderInv, JoinedInv, WholeInv, StatsInv,
         NEW r \in Subscribers, Forward(r)
  PROVE  OrderInv' /\ JoinedInv' /\ WholeInv' /\ StatsInv'
  <1>1. PICK u \in Topics : \E h \in Nat : Moves(r, u, h) /\ u \in Filters[r]
    BY ForwardMoves
  <1>2. PICK h \in Nat : Moves(r, u, h) /\ u \in Filters[r]
    BY <1>1
  <1>3. /\ UNCHANGED <<proto, client, sockets, toBroker, nextSequence, stats, subscribersByTopic>>
        /\ \A t \in Topics : /\ Incoming(t)' = Incoming(t) /\ Cut(t)' = Cut(t)
                             /\ Fanned(t)' \subseteq Fanned(t)
    BY <1>2 DEF Moves, Incoming, Cut
  <1>4. \A s \in Subscribers, t \in Topics :
          /\ Coming(s, t) = Numbers(toClient[s], t) \cup FannedTo(s, t) \cup Incoming(t)
          /\ Coming(s, t)' = Numbers(toClient'[s], t) \cup FannedTo(s, t)' \cup Incoming(t)'
          /\ Delivered(s, t) = Numbers(toClient[s], t) \cup {stats[s][t].highestSeq}
          /\ Delivered(s, t)' = Numbers(toClient'[s], t) \cup {stats[s][t].highestSeq}
    BY <1>3 DEF Coming, Delivered
  <1>5. ASSUME NEW s \in Subscribers, NEW t \in Topics, t \in Filters[s], ~(s = r /\ t = u)
        PROVE  /\ Ascending(toClient'[s], t) /\ Numbers(toClient'[s], t) = Numbers(toClient[s], t)
               /\ Delivered(s, t)' = Delivered(s, t) /\ FannedTo(s, t)' = FannedTo(s, t)
               /\ Coming(s, t)' = Coming(s, t)
    <2>1. Ascending(toClient[s], t)
      BY <1>5 DEF OrderInv, SinkOrder
    <2>2. /\ Ascending(toClient'[s], t) /\ Numbers(toClient'[s], t) = Numbers(toClient[s], t)
          /\ FannedTo(s, t)' = FannedTo(s, t)
      BY <1>2, <1>5, <2>1 DEF Moves
    <2>3. Delivered(s, t)' = Delivered(s, t) /\ Incoming(t)' = Incoming(t)
      BY <1>3, <2>2 DEF Delivered
    <2> QED BY <2>2, <2>3 DEF Coming
  <1>6. /\ Ascending(toClient[r], u) /\ Ascending(toClient'[r], u)
        /\ FannedTo(r, u) = {h} /\ Fanned(u) = {h} /\ FannedTo(r, u)' = {}
        /\ Numbers(toClient[r], u) \subseteq Numbers(toClient'[r], u)
        /\ Numbers(toClient'[r], u) \subseteq Numbers(toClient[r], u) \cup {h}
        /\ proto = "tcp" => h \in Numbers(toClient'[r], u)
        /\ Delivered(r, u)' \subseteq Delivered(r, u) \cup {h}
        /\ r \in subscribersByTopic[u]
    <2>1. Ascending(toClient[r], u)
      BY <1>2 DEF OrderInv, SinkOrder
    <2> QED BY <1>2, <1>4, <2>1 DEF Moves
  <1>7. /\ SinkOrder(r, u) /\ SourceOrder(u)
        /\ nextSequence[u] \in Nat /\ Incoming(u) \subseteq Nat
        /\ Delivered(r, u) \subseteq Nat \cup {-1}
    BY <1>2, NumberTypes DEF OrderInv
  <1>8. SinkOrder(r, u)'
    <2>1. \A n \in Numbers(toClient'[r], u) : stats[r][u].highestSeq < n
      <3>1. stats[r][u].highestSeq \in Delivered(r, u) /\ h \in FannedTo(r, u)
        BY <1>6 DEF Delivered
      <3>2. stats[r][u].highestSeq < h
        BY <1>7, <3>1 DEF SinkOrder
      <3> QED BY <1>6, <1>7, <3>2 DEF SinkOrder
    <2>2. \A m \in Delivered(r, u)' : m < nextSequence[u] /\ \A n \in Incoming(u) : m < n
      BY <1>6, <1>7 DEF SinkOrder, SourceOrder
    <2> QED BY <1>3, <1>6, <2>1, <2>2 DEF SinkOrder
  <1>9. ASSUME NEW t \in Topics
        PROVE  SourceOrder(t)'
    BY <1>3 DEF SourceOrder, OrderInv
  <1>10. ASSUME NEW s \in Subscribers, NEW t \in Filters[s]
         PROVE  SinkOrder(s, t)'
    <2>1. t \in Topics /\ SinkOrder(s, t)
      BY BrokerAssumption DEF BrokerAssumption, OrderInv
    <2>2. CASE ~(s = r /\ t = u)
      BY <1>3, <1>5, <2>1, <2>2 DEF SinkOrder
    <2> QED BY <1>8, <2>2
  <1>11. OrderInv'
    BY <1>9, <1>10 DEF OrderInv
  <1>12. JoinedInv'
    <2> SUFFICES ASSUME NEW s \in Subscribers, NEW t \in Filters[s], NEW n \in Delivered(s, t)', n >= 0
                 PROVE  s \in subscribersByTopic[t] \/ (client[s] = "gone" /\ s \notin sockets)
      BY <1>3 DEF JoinedInv
    <2>1. t \in Topics
      BY BrokerAssumption DEF BrokerAssumption
    <2>2. CASE s = r /\ t = u
      BY <1>6, <2>2
    <2>3. CASE ~(s = r /\ t = u)
      BY <1>5, <2>1, <2>3 DEF JoinedInv
    <2> QED BY <2>2, <2>3
  <1>13. StatsInv'
    BY <1>3 DEF StatsInv, StatOK, InternalGaps
  <1>14. WholeInv'
    <2> SUFFICES ASSUME proto = "tcp"
                 PROVE  /\ \A t \in Topics : SourceWhole(t)'
                        /\ \A t \in Topics : \A s \in subscribersByTopic[t] : SinkWhole(s, t)'
      BY <1>3 DEF WholeInv
    <2>1. ASSUME NEW t \in Topics
          PROVE  SourceWhole(t)'
      BY <1>3 DEF WholeInv, SourceWhole
    <2>2. ASSUME NEW t \in Topics, NEW s \in subscribersByTopic[t]
          PROVE  SinkWhole(s, t)'
      <3>1. SinkWhole(s, t) /\ s \in Subscribers /\ t \in Filters[s]
        BY DEF WholeInv, BrokerInv, TypeOK
      <3>2. CASE ~(s = r /\ t = u)
        BY <1>3, <1>5, <3>1, <3>2 DEF SinkWhole
      <3>3. CASE s = r /\ t = u
        <4>1. Coming(r, u)' = Coming(r, u)
          <5>1. Numbers(toClient'[r], u) = Numbers(toClient[r], u) \cup {h}
            BY <1>3, <1>6
          <5>2. Incoming(u)' = Incoming(u)
            BY <1>3
          <5> QED BY <1>6, <5>1, <5>2 DEF Coming
        <4> SUFFICES ASSUME NEW m \in Delivered(r, u)', m >= 0,
                            NEW n \in m + 1 .. nextSequence[u] - 1
                     PROVE  n \in Coming(r, u) \/ (Cut(u) /\ \A k \in Coming(r, u) : k < n)
          BY <1>3, <3>3, <4>1 DEF SinkWhole
        <4>2. CASE m \in Delivered(r, u)
          BY <3>1, <3>3, <4>2 DEF SinkWhole
        <4>3. CASE m = h
          <5>1. n \in Incoming(u) \/ Cut(u)
            BY <1>6, <4>3 DEF WholeInv, SourceWhole
          <5>2. CASE n \in Incoming(u)
            BY <1>4, <5>2
          <5>3. CASE Cut(u)
            <6>1. Incoming(u) = {}
              BY <5>3, NumbersEmpty DEF Cut, Incoming
            <6>2. Coming(r, u) \subseteq Delivered(r, u) \cup {h}
              BY <1>4, <1>6, <6>1
            <6>3. \A k \in Delivered(r, u) : k \in Int /\ k < h
              BY <1>6, <1>7 DEF SinkOrder
            <6>4. h < n /\ n \in Int
              BY <4>3
            <6> QED BY <5>3, <6>2, <6>3, <6>4
          <5> QED BY <5>1, <5>2, <5>3
        <4> QED BY <1>6, <4>2, <4>3
      <3> QED BY <3>2, <3>3
    <2> QED BY <2>1, <2>2
  <1> QED BY <1>11, <1>12, <1>13, <1>14

\* Subscriber r records message h of topic u, the lowest of its topic on the way.
Records(r, u, h) ==
  /\ UNCHANGED <<proto, client, sockets, nextSequence, subscribersByTopic, fanOut>>
  /\ client[r] = "connected" /\ u \in Filters[r]
  /\ \A c \in Publishers : toBroker'[c] = toBroker[c]
  /\ Numbers(toClient[r], u) = Numbers(toClient'[r], u) \cup {h}
  /\ \A n \in Numbers(toClient'[r], u) : h < n
  /\ stats'[r][u] = Add(stats[r][u], h)
  /\ \A s \in Subscribers : \A t \in Filters[s] :
       /\ Ascending(toClient'[s], t)
       /\ s # r \/ t # u => /\ Numbers(toClient'[s], t) = Numbers(toClient[s], t)
                            /\ stats'[s][t] = stats[s][t]

\* onMessage is such a step.
LEMMA OnMessageRecords ==
  ASSUME BrokerInv, OrderInv, NEW r \in Subscribers, OnMessage(r)
  PROVE  \E u \in Topics : \E h \in Nat : Records(r, u, h)
  <1> DEFINE m == Head(toClient[r])
  <1>1. Taken(r, {"PUBLISH"}) /\ r \in Clients
    BY DEF OnMessage, Clients
  <1>2. /\ toClient' = [toClient EXCEPT ![r] = Tail(toClient[r])]
        /\ toClient[r] \in Seq(Packets) /\ toClient[r] # <<>>
        /\ m \in Packets /\ m.type = "PUBLISH" /\ Wanted(r, m)
        /\ UNCHANGED <<proto, client, sockets, subscribersByTopic, nextSequence, fanOut>>
    BY <1>1, TakenProperties
  <1>3. m.topic \in Topics /\ m.seq \in Nat /\ m.topic \in Filters[r]
    BY <1>2, PacketTopic DEF Wanted
  <1>T. PICK u \in Topics : u = m.topic
    BY <1>3
  <1>H. PICK h \in Nat : h = m.seq
    BY <1>3
  <1>4. /\ toClient \in [Clients -> Seq(Packets)] /\ toBroker \in [Clients -> Seq(Packets)]
        /\ stats = [s \in Subscribers |-> stats[s]]
        /\ \A s \in Subscribers : DOMAIN stats[s] = Filters[s]
        /\ client[r] = "connected"
    BY <1>1 DEF BrokerInv, TypeOK, Taken
  <1>5. stats' = [stats EXCEPT ![r][u] = Add(stats[r][u], h)]
    BY <1>T, <1>H DEF OnMessage
  <1>6. \A c \in Publishers : toBroker'[c] = toBroker[c]
    <2>1. r \notin Publishers
      BY BrokerAssumption DEF BrokerAssumption
    <2>2. toBroker' = toBroker \/ \E q : toBroker' = [toBroker EXCEPT ![r] = q]
      BY DEF OnMessage
    <2> QED BY <1>4, <2>1, <2>2 DEF Clients
  <1>7. ASSUME NEW t \in Filters[r]
        PROVE  /\ t \in Topics
               /\ Ascending(Tail(toClient[r]), t)
               /\ t # u => Numbers(Tail(toClient[r]), t) = Numbers(toClient[r], t)
               /\ t = u => /\ Numbers(toClient[r], t) = Numbers(Tail(toClient[r]), t) \cup {h}
                           /\ \A n \in Numbers(Tail(toClient[r]), t) : h < n
    <2>1. t \in Topics /\ Ascending(toClient[r], t)
      BY BrokerAssumption DEF BrokerAssumption, OrderInv, SinkOrder
    <2> QED BY <1>2, <1>T, <1>H, <2>1, NumbersTail
  <1>8. /\ toClient'[r] = Tail(toClient[r])
        /\ \A s \in Subscribers : s # r => toClient'[s] = toClient[s]
    BY <1>1, <1>2, <1>4 DEF Clients
  <1>9. u \in Filters[r]
    BY <1>3, <1>T
  <1>10. /\ stats'[r][u] = Add(stats[r][u], h)
         /\ \A s \in Subscribers : \A t \in Filters[s] :
              s # r \/ t # u => stats'[s][t] = stats[s][t]
    <2>1. /\ stats'[r] = [stats[r] EXCEPT ![u] = Add(stats[r][u], h)]
          /\ \A s \in Subscribers : s # r => stats'[s] = stats[s]
      BY <1>4, <1>5
    <2> QED BY <1>4, <1>9, <2>1
  <1>11. \A s \in Subscribers : \A t \in Filters[s] : Ascending(toClient[s], t)
    BY DEF OrderInv, SinkOrder
  <1>12. Records(r, u, h)
    BY <1>2, <1>4, <1>6, <1>7, <1>8, <1>9, <1>10, <1>11 DEF Records
  <1> QED BY <1>12

\* Over either transport the number is above all recorded; over TCP it is the next.
LEMMA AddStat ==
  ASSUME NEW ts, ts \in [received : Nat, lowestSeq : Nat \cup {-1}, highestSeq : Nat \cup {-1}],
         NEW h \in Nat, StatOK(ts), ts.highestSeq < h,
         proto = "tcp" /\ ts.highestSeq >= 0 => h = ts.highestSeq + 1
  PROVE  StatOK(Add(ts, h)) /\ Add(ts, h).highestSeq = h
  <1> DEFINE a == Add(ts, h)
  <1>1. /\ ts.received \in Nat /\ ts.lowestSeq \in Nat \cup {-1} /\ ts.highestSeq \in Nat \cup {-1}
    OBVIOUS
  <1>2. /\ a.received = ts.received + 1
        /\ a.lowestSeq = (IF ts.lowestSeq < 0 \/ h < ts.lowestSeq THEN h ELSE ts.lowestSeq)
        /\ a.highestSeq = (IF h > ts.highestSeq THEN h ELSE ts.highestSeq)
    BY DEF Add
  <1> HIDE DEF a
  <1>3. a.highestSeq = h
    BY <1>1, <1>2
  <1>4. CASE ts.received = 0
    <2>1. ts.lowestSeq = -1
      BY <1>4 DEF StatOK, NoStat
    <2>2. a.lowestSeq = h /\ a.received = 1
      BY <1>2, <1>4, <2>1
    <2> QED BY <1>3, <2>2 DEF StatOK, InternalGaps, a
  <1>5. CASE ts.received # 0
    <2>1. /\ ts.lowestSeq >= 0 /\ ts.lowestSeq <= ts.highestSeq
          /\ ts.highestSeq - ts.lowestSeq + 1 - ts.received >= 0
          /\ proto = "tcp" => ts.highestSeq - ts.lowestSeq + 1 - ts.received = 0
      BY <1>5 DEF StatOK, InternalGaps
    <2>2. a.lowestSeq = ts.lowestSeq /\ a.received = ts.received + 1 /\ a.received # 0
      BY <1>1, <1>2, <2>1
    <2>3. a.lowestSeq >= 0 /\ a.lowestSeq <= a.highestSeq
      BY <1>1, <1>3, <2>1, <2>2
    <2>4. a.highestSeq - a.lowestSeq + 1 - a.received >= 0
      BY <1>1, <1>3, <2>1, <2>2
    <2>5. proto = "tcp" => a.highestSeq - a.lowestSeq + 1 - a.received = 0
      BY <1>1, <1>3, <2>1, <2>2
    <2> QED BY <1>3, <2>2, <2>3, <2>4, <2>5 DEF StatOK, InternalGaps, a
  <1> QED BY <1>4, <1>5

\* Recording a message keeps the four invariants of the messages.
LEMMA OnMessageOrder ==
  ASSUME BrokerInv, OrderInv, JoinedInv, WholeInv, StatsInv,
         NEW r \in Subscribers, OnMessage(r)
  PROVE  OrderInv' /\ JoinedInv' /\ WholeInv' /\ StatsInv'
  <1>1. PICK u \in Topics : \E h \in Nat : Records(r, u, h)
    BY OnMessageRecords
  <1>2. PICK h \in Nat : Records(r, u, h)
    BY <1>1
  <1>3. /\ UNCHANGED <<proto, client, sockets, nextSequence, subscribersByTopic, fanOut>>
        /\ \A t \in Topics : /\ Incoming(t)' = Incoming(t) /\ (Cut(t)' <=> Cut(t))
                             /\ Fanned(t)' = Fanned(t)
                             /\ Ascending(toBroker'[PublisherOf[t]], t)
                                <=> Ascending(toBroker[PublisherOf[t]], t)
        /\ \A s \in Subscribers, t \in Topics : FannedTo(s, t)' = FannedTo(s, t)
    BY <1>2, NumberTypes DEF Records, Incoming, Cut, Fanned, FannedTo
  <1>4. ASSUME NEW s \in Subscribers, NEW t \in Topics, t \in Filters[s], ~(s = r /\ t = u)
        PROVE  /\ Ascending(toClient'[s], t) /\ Numbers(toClient'[s], t) = Numbers(toClient[s], t)
               /\ stats'[s][t] = stats[s][t]
               /\ Delivered(s, t)' = Delivered(s, t) /\ Coming(s, t)' = Coming(s, t)
    <2>1. /\ Ascending(toClient'[s], t) /\ Numbers(toClient'[s], t) = Numbers(toClient[s], t)
          /\ stats'[s][t] = stats[s][t]
      BY <1>2, <1>4 DEF Records
    <2>2. Incoming(t)' = Incoming(t) /\ FannedTo(s, t)' = FannedTo(s, t)
      BY <1>3
    <2> QED BY <2>1, <2>2 DEF Delivered, Coming
  <1>5. /\ u \in Filters[r] /\ client[r] = "connected"
        /\ SinkOrder(r, u) /\ SourceOrder(u)
        /\ nextSequence[u] \in Nat /\ Coming(r, u) \subseteq Nat
        /\ Delivered(r, u) \subseteq Nat \cup {-1}
        /\ stats[r][u].highestSeq \in Delivered(r, u)
    BY <1>2, NumberTypes DEF OrderInv, Records, Delivered
  <1>6. /\ Numbers(toClient[r], u) = Numbers(toClient'[r], u) \cup {h}
        /\ \A n \in Numbers(toClient'[r], u) : h < n
        /\ Ascending(toClient'[r], u) /\ stats'[r][u] = Add(stats[r][u], h)
    BY <1>2, <1>5 DEF Records
  <1>7. stats[r][u].highestSeq < h
    BY <1>5, <1>6 DEF SinkOrder
  <1>8. /\ StatOK(stats[r][u])
        /\ stats[r][u] \in [received : Nat, lowestSeq : Nat \cup {-1}, highestSeq : Nat \cup {-1}]
    BY <1>5 DEF StatsInv, BrokerInv, TypeOK
  <1>9. ASSUME proto = "tcp", stats[r][u].highestSeq >= 0
        PROVE  h = stats[r][u].highestSeq + 1
    <2> DEFINE n == stats[r][u].highestSeq + 1
    <2>1. r \in subscribersByTopic[u]
      BY <1>5, <1>9 DEF JoinedInv
    <2>2. h \in Delivered(r, u) /\ h \in Coming(r, u)
      BY <1>6 DEF Delivered, Coming
    <2>3. h < nextSequence[u]
      BY <1>5, <2>2 DEF SinkOrder
    <2>4. stats[r][u].highestSeq \in Nat
      BY <1>5, <1>9
    <2>5. n \in stats[r][u].highestSeq + 1 .. nextSequence[u] - 1 /\ n <= h /\ n \in Nat
      BY <1>5, <1>7, <2>3, <2>4
    <2> HIDE DEF n
    <2>6. n \in Coming(r, u) \/ \A k \in Coming(r, u) : k < n
      BY <1>5, <1>9, <2>1, <2>5 DEF WholeInv, SinkWhole
    <2>7. n \in Coming(r, u)
      BY <2>2, <2>5, <2>6
    <2>8. CASE n \in Numbers(toClient[r], u)
      BY <1>6, <2>5, <2>8 DEF n
    <2>9. CASE n \in FannedTo(r, u) \cup Incoming(u)
      <3>1. h < n
        BY <1>5, <2>2, <2>9 DEF SinkOrder
      <3> QED BY <2>5, <3>1
    <2> QED BY <2>7, <2>8, <2>9 DEF Coming
  <1>10. StatOK(stats'[r][u]) /\ stats'[r][u].highestSeq = h
    BY <1>6, <1>7, <1>8, <1>9, AddStat
  <1>11. StatsInv'
    <2> SUFFICES ASSUME NEW s \in Subscribers, NEW t \in Filters[s]
                 PROVE  StatOK(stats'[s][t])
      BY <1>3 DEF StatsInv, StatOK
    <2>1. t \in Topics
      BY BrokerAssumption DEF BrokerAssumption
    <2> QED BY <1>4, <1>10, <2>1 DEF StatsInv
  <1>12. Delivered(r, u)' = Numbers(toClient'[r], u) \cup {h}
    BY <1>10 DEF Delivered
  <1>13. Delivered(r, u)' \subseteq Delivered(r, u)
    BY <1>6, <1>12 DEF Delivered
  <1>14. SinkOrder(r, u)'
    BY <1>3, <1>5, <1>6, <1>10, <1>13 DEF SinkOrder
  <1>15. OrderInv'
    <2>1. ASSUME NEW t \in Topics
          PROVE  SourceOrder(t)'
      BY <1>3 DEF OrderInv, SourceOrder
    <2>2. ASSUME NEW s \in Subscribers, NEW t \in Filters[s]
          PROVE  SinkOrder(s, t)'
      <3>1. t \in Topics /\ SinkOrder(s, t)
        BY BrokerAssumption DEF BrokerAssumption, OrderInv
      <3>2. CASE ~(s = r /\ t = u)
        BY <1>3, <1>4, <3>1, <3>2 DEF SinkOrder
      <3> QED BY <1>14, <3>2
    <2> QED BY <2>1, <2>2 DEF OrderInv
  <1>16. ASSUME NEW s \in Subscribers, NEW t \in Filters[s]
         PROVE  Delivered(s, t)' \subseteq Delivered(s, t)
    <2>1. t \in Topics
      BY BrokerAssumption DEF BrokerAssumption
    <2> QED BY <1>4, <1>13, <2>1
  <1>17. JoinedInv'
    BY <1>3, <1>16 DEF JoinedInv
  <1>18. WholeInv'
    <2> SUFFICES ASSUME proto = "tcp"
                 PROVE  /\ \A t \in Topics : SourceWhole(t)'
                        /\ \A t \in Topics : \A s \in subscribersByTopic[t] : SinkWhole(s, t)'
      BY <1>3 DEF WholeInv
    <2>1. ASSUME NEW t \in Topics
          PROVE  SourceWhole(t)'
      BY <1>3 DEF WholeInv, SourceWhole
    <2>2. ASSUME NEW t \in Topics, NEW s \in subscribersByTopic[t]
          PROVE  SinkWhole(s, t)'
      <3>1. SinkWhole(s, t) /\ s \in Subscribers /\ t \in Filters[s]
        BY DEF WholeInv, BrokerInv, TypeOK
      <3>2. CASE ~(s = r /\ t = u)
        BY <1>3, <1>4, <3>1, <3>2 DEF SinkWhole
      <3>3. CASE s = r /\ t = u
        <4>1. Coming(r, u) = Coming(r, u)' \cup {h}
          <5>1. Incoming(u)' = Incoming(u) /\ FannedTo(r, u)' = FannedTo(r, u)
            BY <1>3
          <5> QED BY <1>6, <5>1 DEF Coming
        <4> SUFFICES ASSUME NEW m \in Delivered(r, u)', m >= 0,
                            NEW n \in m + 1 .. nextSequence[u] - 1
                     PROVE  n \in Coming(r, u)' \/ (Cut(u) /\ \A k \in Coming(r, u)' : k < n)
          BY <1>3, <3>3 DEF SinkWhole
        <4>2. n \in Coming(r, u) \/ (Cut(u) /\ \A k \in Coming(r, u) : k < n)
          BY <1>13, <3>1, <3>3 DEF SinkWhole
        <4>3. n # h
          <5>1. m \in Int /\ h <= m
            BY <1>5, <1>6, <1>12, <1>13
          <5> QED BY <1>5, <5>1
        <4> QED BY <4>1, <4>2, <4>3
      <3> QED BY <3>2, <3>3
    <2> QED BY <2>1, <2>2
  <1> QED BY <1>11, <1>15, <1>17, <1>18

-----------------------------------------------------------------------------

\* It holds at the start.
LEMMA GapsInit == Init => GapsInv
  <1> SUFFICES ASSUME Init  PROVE GapsInv
    OBVIOUS
  <1>1. /\ \A c \in Clients : toBroker[c] = <<>> /\ toClient[c] = <<>>
        /\ \A s \in Subscribers : s \in Clients
        /\ \A t \in Topics : PublisherOf[t] \in Clients
    BY BrokerAssumption DEF Init, BrokerAssumption, Clients
  <1>2. \A s \in Subscribers : \A t \in Filters[s] : stats[s][t] = NoStat /\ t \in Topics
    BY BrokerAssumption DEF Init, BrokerAssumption
  <1>3. /\ fanOut = Nothing /\ Nothing.topic = None /\ Nothing.to = {} /\ None \notin Topics
        /\ \A t \in Topics : nextSequence[t] = 0
        /\ \A t \in Topics : subscribersByTopic[t] = {}
    BY BrokerAssumption DEF Init, BrokerAssumption, Nothing
  <1>4. NoStat.received = 0 /\ NoStat.highestSeq = -1
    BY DEF NoStat
  <1>5. \A t \in Topics : Incoming(t) = {} /\ Fanned(t) = {} /\ \A s : FannedTo(s, t) = {}
    BY <1>1, <1>3, NumbersEmpty DEF Incoming, Fanned, FannedTo
  <1>6. \A s \in Subscribers : \A t \in Filters[s] : Delivered(s, t) = {-1}
    BY <1>1, <1>2, <1>4, NumbersEmpty DEF Delivered
  <1>7. RegistryInv
    <2>1. On(<<>>) = {}
      BY EmptySeq DEF On
    <2> QED BY <1>1, <1>3, <2>1 DEF RegistryInv, FanInv
  <1>8. OrderInv
    <2>1. \A t \in Topics : SourceOrder(t)
      BY <1>1, <1>5, NumbersEmpty DEF SourceOrder
    <2>2. ASSUME NEW s \in Subscribers, NEW t \in Filters[s]
          PROVE  SinkOrder(s, t)
      <3>1. Ascending(toClient[s], t) /\ Numbers(toClient[s], t) = {}
        BY <1>1, NumbersEmpty
      <3> QED BY <1>2, <1>3, <1>5, <1>6, <3>1 DEF SinkOrder
    <2> QED BY <2>1, <2>2 DEF OrderInv
  <1>9. WholeInv
    BY <1>3, <1>5 DEF WholeInv, SourceWhole
  <1>10. JoinedInv
    BY <1>6 DEF JoinedInv
  <1>11. StatsInv
    BY <1>2, <1>4 DEF StatsInv, StatOK
  <1> QED BY <1>7, <1>8, <1>9, <1>10, <1>11 DEF GapsInv

\* What the steps keep beside the registry.
MessagesInv == OrderInv /\ JoinedInv /\ WholeInv /\ StatsInv

\* Every step keeps the invariant: the registry by itself, the messages step by step.
LEMMA GapsNext == BrokerInv /\ BrokerInv' /\ GapsInv /\ [Next]_vars => GapsInv'
  <1> SUFFICES ASSUME BrokerInv, BrokerInv', GapsInv, [Next]_vars
               PROVE  GapsInv'
    OBVIOUS
  <1>0. RegistryInv /\ OrderInv /\ WholeInv /\ JoinedInv /\ StatsInv
    BY DEF GapsInv
  <1>1. RegistryInv'
    BY <1>0, RegistryNext
  <1>2. ASSUME QuietStep  PROVE MessagesInv'
    BY <1>0, <1>2, QuietOrder, QuietWhole, QuietJoined, QuietStats DEF MessagesInv
  <1>3. ASSUME NEW c \in Clients, Broker(c)
        PROVE  MessagesInv'
    BY <1>0, <1>2, <1>3, BrokerQuiet, OnPublishOrder DEF Broker, MessagesInv
  <1>4. ASSUME NEW c \in Clients, Client(c)
        PROVE  MessagesInv'
    BY <1>0, <1>2, <1>4, ClientQuiet, OnMessageOrder DEF Client, MessagesInv
  <1>5. ASSUME NEW c \in Clients, Connect(c) \/ Leave(c) \/ SocketClosed(c)
        PROVE  MessagesInv'
    BY <1>0, <1>2, <1>5, ConnectQuiet, LeaveQuiet, SocketClosedQuiet
  <1>6. ASSUME NEW s \in Subscribers, Forward(s)
        PROVE  MessagesInv'
    BY <1>0, <1>6, ForwardOrder DEF MessagesInv
  <1>7. ASSUME NEW t \in Topics, Publish(t)
        PROVE  MessagesInv'
    BY <1>0, <1>7, PublishOrder DEF MessagesInv
  <1>8. ASSUME UNCHANGED vars  PROVE MessagesInv'
    BY <1>0, <1>2, <1>8, StutterQuiet
  <1>9. ASSUME Next  PROVE MessagesInv'
    BY <1>3, <1>4, <1>5, <1>6, <1>7, <1>9 DEF Next
  <1> QED BY <1>1, <1>8, <1>9 DEF GapsInv, MessagesInv

\* And so it holds always.
LEMMA GapsAlways == Spec => []GapsInv
  BY GapsInit, GapsNext, BrokerAlways, PTL DEF Spec

\* The gaps a subscriber reports are never fewer than none, and over TCP there are none:
\* from the first message of a topic on it has all of them (recordMessage,
\* recordTrackStats), whoever leaves and whatever is under way.
THEOREM GapsAlwaysHonest == Spec => []GapsHonest
  <1>1. BrokerInv /\ GapsInv => GapsHonest
    BY DEF BrokerInv, TypeOK, GapsInv, StatsInv, StatOK, GapsHonest
  <1> QED BY BrokerAlways, GapsAlways, <1>1, PTL

-----------------------------------------------------------------------------
(* MqttFraming: what the encoders write the parsers read, for every packet,  *)
(* string and number, and however the bytes of a stream are cut.             *)

\* The digits are worth a natural number, and only the bytes they are in count.
LEMMA DigitsAre ==
  ASSUME NEW b \in Bytes, NEW n \in 1 .. 4, n <= Len(b)
  PROVE  /\ Digits(b, n) \in Nat
         /\ \A c \in Bytes : (\A i \in 1 .. n : c[i] = b[i]) => Digits(c, n) = Digits(b, n)
  <1> DEFINE Digit(a, i) == IF i <= n THEN (a[i] % 128) * Place[i] ELSE 0
  <1>1. \A a : Digits(a, n) = Digit(a, 1) + Digit(a, 2) + Digit(a, 3) + Digit(a, 4)
    BY DEF Digits
  <1>2. ASSUME NEW i \in 1 .. 4 PROVE Digit(b, i) \in Nat
    <2>1. Place[i] \in Nat
      BY DEF Place
    <2>2. CASE i <= n
      <3>1. b[i] \in Int
        BY <2>2, BytesAre
      <3>2. b[i] % 128 \in Nat
        BY <3>1
      <3>3. (b[i] % 128) * Place[i] \in Nat
        BY <2>1, <3>2
      <3> QED BY <2>2, <3>3
    <2>3. CASE ~(i <= n)
      BY <2>3
    <2> QED BY <2>2, <2>3
  <1>3. ASSUME NEW c \in Bytes, \A i \in 1 .. n : c[i] = b[i], NEW i \in 1 .. 4
        PROVE  Digit(c, i) = Digit(b, i)
    <2>1. CASE i <= n
      BY <1>3, <2>1
    <2>2. CASE ~(i <= n)
      BY <2>2
    <2> QED BY <2>1, <2>2
  <1> HIDE DEF Digit
  <1>4. Digits(b, n) \in Nat
    <2>1. Digit(b, 1) \in Nat /\ Digit(b, 2) \in Nat /\ Digit(b, 3) \in Nat /\ Digit(b, 4) \in Nat
      BY <1>2
    <2> QED BY <1>1, <2>1
  <1>5. ASSUME NEW c \in Bytes, \A i \in 1 .. n : c[i] = b[i]
        PROVE  Digits(c, n) = Digits(b, n)
    <2>1. /\ Digit(c, 1) = Digit(b, 1) /\ Digit(c, 2) = Digit(b, 2)
          /\ Digit(c, 3) = Digit(b, 3) /\ Digit(c, 4) = Digit(b, 4)
      BY <1>3, <1>5
    <2> QED BY <1>1, <2>1
  <1> QED BY <1>4, <1>5

\* Where the integer at the front of b ends, if it is there.
LEMMA VarIntAt ==
  ASSUME NEW b \in Bytes
  PROVE  LET r == GetVarInt(b)
         IN  /\ r.ok \in BOOLEAN
             /\ ~r.ok => r = NotYet /\ \A i \in 1 .. 4 : i <= Len(b) => b[i] >= 128
             /\ r.ok => /\ r.used \in 1 .. 4 /\ r.used <= Len(b) /\ b[r.used] < 128
                        /\ \A i \in 1 .. r.used - 1 : b[i] >= 128
                        /\ r.out = Digits(b, r.used) /\ r.out \in Nat
                        /\ r = [ok |-> TRUE, used |-> r.used, out |-> r.out]
  <1> DEFINE ends == {i \in 1 .. Len(b) : i <= 4 /\ b[i] < 128}
  <1>1. Len(b) \in Nat /\ \A i \in 1 .. Len(b) : b[i] \in Int /\ 0 <= b[i] /\ b[i] <= 255
    BY BytesAre
  <1>2. CASE ends = {}
    <2>1. GetVarInt(b) = NotYet
      BY <1>2 DEF GetVarInt
    <2>2. \A i \in 1 .. 4 : i <= Len(b) => b[i] >= 128
      <3> SUFFICES ASSUME NEW i \in 1 .. 4, i <= Len(b)  PROVE b[i] >= 128
        OBVIOUS
      <3>1. i \in 1 .. Len(b) /\ i <= 4 /\ b[i] \in Int
        BY <1>1
      <3>2. ~(b[i] < 128)
        BY <1>2, <3>1
      <3> HIDE DEF ends
      <3> QED BY <3>1, <3>2
    <2> QED BY <2>1, <2>2 DEF NotYet
  <1>3. CASE ends # {}
    <2>1. PICK m \in ends : \A x \in ends : m <= x
      <3>1. ends \in SUBSET Nat
        BY <1>1
      <3> HIDE DEF ends
      <3> QED BY <1>3, <3>1, LeastNat
    <2>2. Min(ends) = m
      <3>1. ends \in SUBSET Int
        BY <1>1
      <3> HIDE DEF ends
      <3> QED BY <2>1, <3>1, MinIs
    <2>3. GetVarInt(b) = [ok |-> TRUE, used |-> m, out |-> Digits(b, m)]
      BY <1>3, <2>2 DEF GetVarInt
    <2>4. m \in 1 .. 4 /\ m <= Len(b) /\ b[m] < 128
      BY <1>1, <2>1
    <2>5. Digits(b, m) \in Nat
      BY <2>4, DigitsAre
    <2>6. ASSUME NEW i \in 1 .. m - 1  PROVE b[i] >= 128
      <3>1. i \in 1 .. Len(b) /\ i <= 4 /\ b[i] \in Int /\ ~(m <= i)
        BY <1>1, <2>4
      <3>2. ~(b[i] < 128)
        BY <2>1, <3>1
      <3> HIDE DEF ends
      <3> QED BY <3>1, <3>2
    <2> HIDE DEF ends
    <2> QED BY <2>3, <2>4, <2>5, <2>6
  <1> QED BY <1>2, <1>3

\* What the integer is: it ends at n, and it is the sum of its digits.
LEMMA VarIntIs ==
  ASSUME NEW b \in Bytes, NEW n \in 1 .. 4, n <= Len(b), b[n] < 128,
         \A i \in 1 .. n - 1 : b[i] >= 128
  PROVE  GetVarInt(b) = [ok |-> TRUE, used |-> n, out |-> Digits(b, n)]
  <1> DEFINE ends == {i \in 1 .. Len(b) : i <= 4 /\ b[i] < 128}
  <1>1. Len(b) \in Nat /\ \A i \in 1 .. Len(b) : b[i] \in Int /\ 0 <= b[i] /\ b[i] <= 255
    BY BytesAre
  <1>2. n \in ends /\ \A x \in ends : n <= x
    <2>1. n \in ends
      BY <1>1
    <2>2. ASSUME NEW x \in ends, ~(n <= x)  PROVE FALSE
      <3>1. x \in 1 .. n - 1 /\ b[x] \in Int /\ b[x] < 128
        BY <1>1, <2>2
      <3>2. b[x] >= 128
        BY <3>1
      <3> HIDE DEF ends
      <3> QED BY <3>1, <3>2
    <2> QED BY <2>1, <2>2
  <1>3. Min(ends) = n
    <2>1. ends \in SUBSET Int
      BY <1>1
    <2> HIDE DEF ends
    <2> QED BY <1>2, <2>1, MinIs
  <1> QED BY <1>2, <1>3 DEF GetVarInt

\* More bytes change nothing of an integer that is there.
LEMMA VarIntStays ==
  ASSUME NEW b \in Bytes, NEW c \in Bytes, GetVarInt(b).ok
  PROVE  GetVarInt(b \o c) = GetVarInt(b)
  <1> DEFINE n == GetVarInt(b).used
  <1>1. /\ n \in 1 .. 4 /\ n <= Len(b) /\ b[n] < 128 /\ \A i \in 1 .. n - 1 : b[i] >= 128
    BY VarIntAt
  <1> HIDE DEF n
  <1>2. /\ b \o c \in Bytes /\ Len(b \o c) = Len(b) + Len(c)
        /\ Len(b) \in Nat /\ Len(c) \in Nat
        /\ \A i \in 1 .. n : (b \o c)[i] = b[i]
    BY <1>1, ConcatProperties DEF Bytes
  <1>3. n <= Len(b \o c) /\ (b \o c)[n] < 128 /\ \A i \in 1 .. n - 1 : (b \o c)[i] >= 128
    BY <1>1, <1>2
  <1>4. GetVarInt(b) = [ok |-> TRUE, used |-> n, out |-> Digits(b, n)]
    BY <1>1, VarIntIs
  <1>5. GetVarInt(b \o c) = [ok |-> TRUE, used |-> n, out |-> Digits(b \o c, n)]
    BY <1>1, <1>2, <1>3, VarIntIs
  <1>6. Digits(b \o c, n) = Digits(b, n)
    BY <1>1, <1>2, DigitsAre
  <1> QED BY <1>4, <1>5, <1>6

\* How many bytes putVarInt writes.
LEMMA VarIntSizeIs ==
  ASSUME NEW v \in Nat
  PROVE  VarIntSize(v) = IF v < 128 THEN 1 ELSE IF v < 16384 THEN 2 ELSE IF v < 2097152 THEN 3
                         ELSE IF v < 268435456 THEN 4 ELSE 5
  <1> DEFINE T == {5} \cup {n \in 1 .. 4 : v < Place[n + 1]}
  <1>1. Place[2] = 128 /\ Place[3] = 16384 /\ Place[4] = 2097152 /\ Place[5] = 268435456
    BY DEF Place
  <1>2. \A x \in T : x \in {1, 2, 3, 4, 5}
    OBVIOUS
  <1>3. T \in SUBSET Int
    BY <1>2
  <1>4. /\ 5 \in T /\ (4 \in T <=> v < 268435456) /\ (3 \in T <=> v < 2097152)
        /\ (2 \in T <=> v < 16384) /\ (1 \in T <=> v < 128)
    BY <1>1
  <1> HIDE DEF T
  <1>5. ASSUME NEW m \in T, \A x \in T : m <= x  PROVE Min(T) = m
    BY <1>3, <1>5, MinIs
  <1>6. CASE v < 128
    <2>1. \A x \in T : 1 <= x
      BY <1>2
    <2> QED BY <1>4, <1>5, <1>6, <2>1 DEF VarIntSize, T
  <1>7. CASE ~(v < 128) /\ v < 16384
    <2>1. \A x \in T : 2 <= x
      BY <1>2, <1>4, <1>7
    <2>2. 2 \in T
      BY <1>4, <1>7
    <2>3. Min(T) = 2
      BY <1>5, <2>1, <2>2
    <2> QED BY <1>7, <2>3 DEF VarIntSize, T
  <1>8. CASE ~(v < 16384) /\ v < 2097152
    <2>1. \A x \in T : 3 <= x
      BY <1>2, <1>4, <1>8
    <2>2. 3 \in T
      BY <1>4, <1>8
    <2>3. Min(T) = 3
      BY <1>5, <2>1, <2>2
    <2> QED BY <1>8, <2>3 DEF VarIntSize, T
  <1>9. CASE ~(v < 2097152) /\ v < 268435456
    <2>1. \A x \in T : 4 <= x
      BY <1>2, <1>4, <1>9
    <2>2. 4 \in T
      BY <1>4, <1>9
    <2>3. Min(T) = 4
      BY <1>5, <2>1, <2>2
    <2> QED BY <1>9, <2>3 DEF VarIntSize, T
  <1>10. CASE ~(v < 268435456)
    <2>1. \A x \in T : 5 <= x
      BY <1>2, <1>4, <1>10
    <2>2. Min(T) = 5
      BY <1>4, <1>5, <2>1
    <2> QED BY <1>10, <2>2 DEF VarIntSize, T
  <1> QED BY <1>6, <1>7, <1>8, <1>9, <1>10

\* The digits of a number below 2^28, in base 128.
LEMMA DigitsSum ==
  ASSUME NEW v \in Nat
  PROVE  /\ v < 128 => v % 128 = v
         /\ v < 16384 => (v % 128) + ((v \div 128) % 128) * 128 = v
         /\ v < 2097152 => (v % 128) + ((v \div 128) % 128) * 128
                           + ((v \div 16384) % 128) * 16384 = v
         /\ v < 268435456 => (v % 128) + ((v \div 128) % 128) * 128 + ((v \div 16384) % 128) * 16384
                             + ((v \div 2097152) % 128) * 2097152 = v
  OBVIOUS

\* What putVarInt writes: n bytes, the last below 128 and the others not.
LEMMA PutVarIntIs ==
  ASSUME NEW v \in Nat
  PROVE  LET n == VarIntSize(v)
         IN  /\ n \in 1 .. 5 /\ PutVarInt(v) \in Bytes /\ Len(PutVarInt(v)) = n
             /\ PutVarInt(v)[n] = (v \div Place[n]) % 128 /\ PutVarInt(v)[n] < 128
             /\ \A i \in 1 .. n - 1 : /\ PutVarInt(v)[i] = ((v \div Place[i]) % 128) + 128
                                      /\ PutVarInt(v)[i] >= 128
  <1> DEFINE n == VarIntSize(v)
             Put(i) == ((v \div Place[i]) % 128) + (IF i < n THEN 128 ELSE 0)
  <1>1. n \in 1 .. 5
    BY VarIntSizeIs
  <1>2. PutVarInt(v) = [i \in 1 .. n |-> Put(i)]
    BY DEF PutVarInt
  <1> HIDE DEF n
  <1>3. ASSUME NEW i \in 1 .. n
        PROVE  /\ Put(i) \in Byte
               /\ i < n => Put(i) = ((v \div Place[i]) % 128) + 128 /\ Put(i) >= 128
               /\ i = n => Put(i) = (v \div Place[i]) % 128 /\ Put(i) < 128
    <2>1. i \in {1, 2, 3, 4, 5}
      BY <1>1
    <2>2. Place[i] \in Nat /\ Place[i] > 0
      BY <2>1 DEF Place
    <2>3. PICK p \in Nat : p = Place[i] /\ p > 0
      BY <2>2
    <2>4. v \div p \in Int
      BY <2>3
    <2>5. (v \div p) % 128 \in Int /\ 0 <= (v \div p) % 128 /\ (v \div p) % 128 < 128
      BY <2>4
    <2>6. PICK d \in Int : d = (v \div p) % 128 /\ 0 <= d /\ d < 128
      BY <2>5
    <2>7. Put(i) = d + (IF i < n THEN 128 ELSE 0)
      BY <2>3, <2>6
    <2> HIDE DEF Put
    <2>8. CASE i < n
      <3>1. Put(i) = d + 128
        BY <2>7, <2>8
      <3>2. Put(i) \in 0 .. 255 /\ Put(i) >= 128
        BY <2>6, <3>1
      <3>3. ~(i = n)
        BY <1>1, <2>8
      <3> QED BY <2>3, <2>6, <2>8, <3>1, <3>2, <3>3 DEF Byte
    <2>9. CASE ~(i < n)
      <3>1. Put(i) = d
        BY <2>6, <2>7, <2>9
      <3>2. Put(i) \in 0 .. 255 /\ Put(i) < 128
        BY <2>6, <3>1
      <3> QED BY <2>3, <2>6, <2>9, <3>1, <3>2 DEF Byte
    <2> QED BY <2>8, <2>9
  <1> HIDE DEF Put
  <1>4. /\ PutVarInt(v) \in Bytes /\ Len(PutVarInt(v)) = n
        /\ \A i \in 1 .. n : PutVarInt(v)[i] = Put(i)
    <2>1. [i \in 1 .. n |-> Put(i)] \in [1 .. n -> Byte]
      BY <1>3
    <2>2. n \in Nat
      BY <1>1
    <2>3. [i \in 1 .. n |-> Put(i)] \in Seq(Byte)
      BY <2>1, <2>2
    <2>4. DOMAIN [i \in 1 .. n |-> Put(i)] = 1 .. n
      OBVIOUS
    <2>5. Len([i \in 1 .. n |-> Put(i)]) = n
      BY <2>2, <2>3, <2>4, LenProperties
    <2> QED BY <1>2, <2>3, <2>5 DEF Bytes
  <1>5. n \in 1 .. n /\ \A i \in 1 .. n - 1 : i \in 1 .. n /\ i < n
    BY <1>1
  <1>6. PutVarInt(v)[n] = (v \div Place[n]) % 128 /\ PutVarInt(v)[n] < 128
    BY <1>3, <1>4, <1>5
  <1>7. ASSUME NEW i \in 1 .. n - 1
        PROVE  PutVarInt(v)[i] = ((v \div Place[i]) % 128) + 128 /\ PutVarInt(v)[i] >= 128
    <2>1. i \in 1 .. n /\ i < n
      BY <1>5
    <2>2. PutVarInt(v)[i] = Put(i)
      BY <1>4, <2>1
    <2>3. Put(i) = ((v \div Place[i]) % 128) + 128 /\ Put(i) >= 128
      BY <1>3, <2>1
    <2> QED BY <2>2, <2>3
  <1> QED BY <1>1, <1>4, <1>6, <1>7 DEF n

\* A number below 2^28 that putVarInt wrote is read by getVarInt, whatever is behind it.
LEMMA VarIntRead ==
  ASSUME NEW v \in Nat, v < Place[5], NEW rest \in Bytes
  PROVE  GetVarInt(PutVarInt(v) \o rest) = [ok |-> TRUE, used |-> VarIntSize(v), out |-> v]
  <1> DEFINE n == VarIntSize(v)
             b == PutVarInt(v)
             a == PutVarInt(v) \o rest
  <1>1. /\ n \in 1 .. 4
        /\ n = 1 => v < 128
        /\ n = 2 => v < 16384
        /\ n = 3 => v < 2097152
        /\ v < 268435456
    <2>1. v < 268435456
      BY DEF Place
    <2> QED BY <2>1, VarIntSizeIs
  <1>2. /\ b \in Bytes /\ Len(b) = n /\ b[n] = (v \div Place[n]) % 128 /\ b[n] < 128
        /\ \A i \in 1 .. n - 1 : b[i] = ((v \div Place[i]) % 128) + 128 /\ b[i] >= 128
    BY PutVarIntIs
  <1>3. a \in Bytes /\ Len(a) = n + Len(rest) /\ Len(rest) \in Nat /\ \A i \in 1 .. n : a[i] = b[i]
    BY <1>1, <1>2, ConcatProperties DEF Bytes
  <1> HIDE DEF a, b, n
  <1>4. n <= Len(a) /\ a[n] < 128 /\ \A i \in 1 .. n - 1 : a[i] >= 128
    BY <1>1, <1>2, <1>3
  <1>5. GetVarInt(a) = [ok |-> TRUE, used |-> n, out |-> Digits(a, n)]
    BY <1>1, <1>3, <1>4, VarIntIs
  <1>6. Digits(a, n) = Digits(b, n)
    <2>1. n <= Len(b) /\ b \in Bytes
      BY <1>1, <1>2
    <2>2. \A c \in Bytes : (\A i \in 1 .. n : c[i] = b[i]) => Digits(c, n) = Digits(b, n)
      BY <1>1, <2>1, DigitsAre
    <2> QED BY <1>3, <2>2
  <1>7. Digits(b, n) = v
    <2>1. Place[1] = 1 /\ Place[2] = 128 /\ Place[3] = 16384 /\ Place[4] = 2097152
      BY DEF Place
    <2>2. v \div 1 = v
      OBVIOUS
    <2>3. \A x \in Int : ((x % 128) + 128) % 128 = x % 128 /\ (x % 128) % 128 = x % 128
                         /\ (x % 128) * 1 = x % 128
      OBVIOUS
    <2>4. v \div 128 \in Int /\ v \div 16384 \in Int /\ v \div 2097152 \in Int
      OBVIOUS
    <2>5. CASE n = 1
      <3>1. b[1] % 128 = v % 128
        BY <1>2, <2>1, <2>2, <2>3, <2>5
      <3>2. Digits(b, n) = (b[1] % 128) * 1 + 0 + 0 + 0
        BY <2>1, <2>5 DEF Digits
      <3>3. Digits(b, n) = v % 128
        BY <3>1, <3>2
      <3> QED BY <1>1, <2>5, <3>3, DigitsSum
    <2>6. CASE n = 2
      <3>1. b[1] % 128 = v % 128 /\ b[2] % 128 = (v \div 128) % 128
        BY <1>2, <2>1, <2>2, <2>3, <2>4, <2>6
      <3>2. Digits(b, n) = (b[1] % 128) * 1 + (b[2] % 128) * 128 + 0 + 0
        BY <2>1, <2>6 DEF Digits
      <3>3. Digits(b, n) = (v % 128) + ((v \div 128) % 128) * 128
        BY <3>1, <3>2
      <3> QED BY <1>1, <2>6, <3>3, DigitsSum
    <2>7. CASE n = 3
      <3>1. /\ b[1] % 128 = v % 128 /\ b[2] % 128 = (v \div 128) % 128
            /\ b[3] % 128 = (v \div 16384) % 128
        BY <1>2, <2>1, <2>2, <2>3, <2>4, <2>7
      <3>2. Digits(b, n) = (b[1] % 128) * 1 + (b[2] % 128) * 128 + (b[3] % 128) * 16384 + 0
        BY <2>1, <2>7 DEF Digits
      <3>3. Digits(b, n) = (v % 128) + ((v \div 128) % 128) * 128 + ((v \div 16384) % 128) * 16384
        BY <3>1, <3>2
      <3> QED BY <1>1, <2>7, <3>3, DigitsSum
    <2>8. CASE n = 4
      <3>1. /\ b[1] % 128 = v % 128 /\ b[2] % 128 = (v \div 128) % 128
            /\ b[3] % 128 = (v \div 16384) % 128 /\ b[4] % 128 = (v \div 2097152) % 128
        BY <1>2, <2>1, <2>2, <2>3, <2>4, <2>8
      <3>2. Digits(b, n) = (b[1] % 128) * 1 + (b[2] % 128) * 128 + (b[3] % 128) * 16384
                           + (b[4] % 128) * 2097152
        BY <2>1, <2>8 DEF Digits
      <3>3. Digits(b, n) = (v % 128) + ((v \div 128) % 128) * 128 + ((v \div 16384) % 128) * 16384
                           + ((v \div 2097152) % 128) * 2097152
        BY <3>1, <3>2
      <3> QED BY <1>1, <3>3, DigitsSum
    <2> QED BY <1>1, <2>5, <2>6, <2>7, <2>8
  <1> QED BY <1>5, <1>6, <1>7 DEF a, n

\* No beginning of it is taken for it, and a larger number is never read.
LEMMA VarIntUnread ==
  ASSUME NEW v \in Nat, NEW k \in 0 .. VarIntSize(v), k < VarIntSize(v) \/ v >= Place[5]
  PROVE  ~GetVarInt(SubSeq(PutVarInt(v), 1, k)).ok
  <1> DEFINE n == VarIntSize(v)
             b == PutVarInt(v)
             a == SubSeq(PutVarInt(v), 1, k)
  <1>1. n \in 1 .. 5 /\ (v >= Place[5] => n = 5)
    <2>1. v >= Place[5] => v >= 268435456
      BY DEF Place
    <2> QED BY <2>1, VarIntSizeIs
  <1>2. b \in Bytes /\ Len(b) = n /\ \A i \in 1 .. n - 1 : b[i] >= 128
    BY <1>1, PutVarIntIs
  <1>3. a \in Bytes /\ Len(a) = k /\ \A i \in 1 .. k : a[i] = b[i]
    <2>1. \A i \in 1 .. k : b[i] \in Byte
      BY <1>1, <1>2 DEF Bytes
    <2>2. 1 \in Int /\ k \in Int
      BY <1>1
    <2>3. /\ a \in Seq(Byte) /\ Len(a) = (IF 1 <= k THEN k - 1 + 1 ELSE 0)
          /\ \A i \in 1 .. k - 1 + 1 : a[i] = b[1 + i - 1]
      BY <2>1, <2>2, SubSeqProperties
    <2> HIDE DEF a, b, n
    <2> QED BY <1>1, <2>3 DEF Bytes, n
  <1> HIDE DEF a, b, n
  <1>4. SUFFICES ASSUME GetVarInt(a).ok PROVE FALSE
    BY DEF a
  <1>5. PICK m \in 1 .. 4 : m <= Len(a) /\ a[m] < 128
    BY <1>3, <1>4, VarIntAt
  <1>6. m \in 1 .. k /\ m \in 1 .. n - 1
    BY <1>1, <1>3, <1>5 DEF n
  <1>7. a[m] = b[m] /\ b[m] >= 128 /\ b[m] \in Int
    <2>1. m \in 1 .. Len(b)
      BY <1>1, <1>2, <1>6 DEF n
    <2> QED BY <1>2, <1>3, <1>6, <2>1, BytesAre
  <1> QED BY <1>5, <1>7

-----------------------------------------------------------------------------
(* Packets.                                                                *)

\* The control packets whose length can be sent (MqttFraming.h).
ControlPackets ==
  {p \in [type : 0 .. 15, flags : 0 .. 15, body : Bytes] : Len(p.body) < Place[5]}

\* A frame of a body behind the byte h is read whole, whatever is behind it.
LEMMA FrameOf ==
  ASSUME NEW h \in Byte, NEW body \in Bytes, Len(body) < Place[5], NEW rest \in Bytes
  PROVE  LET F == <<h>> \o PutVarInt(Len(body)) \o body
         IN  /\ F \in Bytes /\ Len(F) \in Nat /\ Len(F) > 0
             /\ TryParse(F \o rest) =
                  [consumed |-> Len(F), frames |-> <<Packet(h \div 16, h % 16, body)>>]
  <1> DEFINE head  == <<h>>
             size  == PutVarInt(Len(body))
             front == head \o size
             F     == front \o body
             w     == VarIntSize(Len(body))
             b     == F \o rest
             more  == body \o rest
  <1>1. Len(body) \in Nat /\ Len(rest) \in Nat
    BY BytesAre
  <1>2. head \in Bytes /\ Len(head) = 1 /\ head[1] = h
    BY DEF Bytes
  <1>3. size \in Bytes /\ Len(size) = w /\ w \in 1 .. 4
    <2>1. Len(body) < 268435456
      BY DEF Place
    <2>2. w \in 1 .. 4
      BY <1>1, <2>1, VarIntSizeIs
    <2> QED BY <1>1, <2>2, PutVarIntIs
  <1>4. more \in Bytes
    BY ConcatProperties DEF Bytes
  <1>5. GetVarInt(size \o more) = [ok |-> TRUE, used |-> w, out |-> Len(body)]
    BY <1>1, <1>4, VarIntRead
  <1> HIDE DEF head, size, w
  <1>6. front \in Bytes /\ Len(front) = 1 + w
    <2>1. head \in Bytes /\ size \in Bytes
      BY <1>2, <1>3
    <2>2. head \o size \in Bytes /\ Len(head \o size) = Len(head) + Len(size)
      BY <2>1, BytesJoin
    <2> QED BY <1>2, <1>3, <2>2
  <1>7. b = head \o (size \o more)
    <2> HIDE DEF front
    <2>0. Assoc(front, body, rest)
      BY <1>6, BytesAssoc
    <2>1. b = front \o more
      BY <2>0 DEF Assoc
    <2> USE DEF front
    <2> HIDE DEF more
    <2>3. Assoc(head, size, more)
      BY <1>2, <1>3, <1>4, BytesAssoc
    <2>2. front \o more = head \o (size \o more)
      BY <2>3 DEF Assoc
    <2> QED BY <2>1, <2>2
  <1>8. SubSeq(b, 1 + w + 1, 1 + w + Len(body)) = body
    <2> HIDE DEF front
    <2>1. SubSeq((front \o body) \o rest, Len(front) + 1, Len(front) + Len(body)) = body
      BY <1>6, MiddleIs DEF Bytes
    <2> QED BY <1>6, <2>1
  <1>9. size \o more \in Bytes
    BY <1>3, <1>4, ConcatProperties DEF Bytes
  <1> HIDE DEF front, more
  <1>10. F \in Bytes /\ Len(F) = 1 + w + Len(body)
    BY <1>6, ConcatProperties DEF Bytes
  <1> HIDE DEF F
  <1>11. b \in Bytes /\ Len(b) = 1 + w + Len(body) + Len(rest)
    BY <1>10, ConcatProperties DEF Bytes
  <1> HIDE DEF b
  <1>12. b # <<>> /\ ~(Len(b) < 1 + w + Len(body)) /\ 1 + w + Len(body) > 0
    BY <1>1, <1>3, <1>11
  <1>13. b[1] = h
    <2> DEFINE y == size \o more
    <2>1. /\ Len(head \o y) = Len(head) + Len(y)
          /\ \A i \in 1 .. Len(head) + Len(y) :
               (head \o y)[i] = IF i <= Len(head) THEN head[i] ELSE y[i - Len(head)]
      BY <1>2, <1>9, ConcatProperties DEF Bytes
    <2>2. Len(y) \in Nat
      BY <1>9, BytesAre
    <2> HIDE DEF y
    <2>3. 1 \in 1 .. Len(head) + Len(y) /\ 1 <= Len(head)
      BY <1>2, <2>2
    <2> QED BY <1>2, <1>7, <2>1, <2>3 DEF y
  <1>14. Tail(b) = size \o more
    <2>1. Behind(b, 1) = size \o more
      BY <1>2, <1>7, <1>9, BehindPart DEF Bytes
    <2>2. Tail(b) = SubSeq(b, 2, Len(b))
      BY <1>11, <1>12, TailIsSubSeq DEF Bytes
    <2> QED BY <2>1, <2>2 DEF Behind
  <1>15. TryParse(b) = [consumed |-> 1 + w + Len(body),
                        frames |-> <<Packet(h \div 16, h % 16, body)>>]
    <2>0. GetVarInt(Tail(b)) = [ok |-> TRUE, used |-> w, out |-> Len(body)]
      BY <1>5, <1>14
    <2>1. /\ GetVarInt(Tail(b)).ok /\ GetVarInt(Tail(b)).used = w
          /\ GetVarInt(Tail(b)).out = Len(body)
      BY <2>0
    <2>2. TryParse(b) = [consumed |-> 1 + w + Len(body), frames |->
             <<Packet(b[1] \div 16, b[1] % 16, SubSeq(b, 1 + w + 1, 1 + w + Len(body)))>>]
      BY <1>12, <2>1 DEF TryParse
    <2> QED BY <1>8, <1>13, <2>2
  <1>16. Len(F) \in Nat /\ Len(F) > 0
    BY <1>1, <1>3, <1>10
  <1> QED BY <1>10, <1>15, <1>16 DEF b, F, front, head, size

\* A packet that a frame begins with is read as it was written, whatever is behind it.
LEMMA FrameRead ==
  ASSUME NEW p \in ControlPackets, NEW rest \in Bytes
  PROVE  /\ Frame(p) \in Bytes /\ Len(Frame(p)) \in Nat /\ Len(Frame(p)) > 0
         /\ TryParse(Frame(p) \o rest) = [consumed |-> Len(Frame(p)), frames |-> <<p>>]
  <1>1. PICK t \in 0 .. 15, f \in 0 .. 15, body \in Bytes :
          p = Packet(t, f, body) /\ Len(body) < Place[5]
    BY DEF ControlPackets, Packet
  <1>2. t * 16 + f \in 0 .. 255 /\ (t * 16 + f) \div 16 = t /\ (t * 16 + f) % 16 = f
    OBVIOUS
  <1>3. PICK h \in Byte : h = t * 16 + f
    BY <1>2, InByte
  <1>4. Frame(p) = <<h>> \o PutVarInt(Len(body)) \o body
    BY <1>1, <1>3 DEF Frame, Packet
  <1>5. Packet(h \div 16, h % 16, body) = p
    BY <1>1, <1>2, <1>3
  <1> DEFINE F == <<h>> \o PutVarInt(Len(body)) \o body
  <1>6. /\ F \in Bytes /\ Len(F) \in Nat /\ Len(F) > 0
        /\ TryParse(F \o rest) =
             [consumed |-> Len(F), frames |-> <<Packet(h \div 16, h % 16, body)>>]
    BY <1>1, FrameOf
  <1> QED BY <1>4, <1>5, <1>6

\* What TryParse returns.
LEMMA TryParseIs ==
  ASSUME NEW b \in Bytes
  PROVE  /\ TryParse(b).consumed = 0 => TryParse(b) = Incomplete
         /\ TryParse(b).consumed # 0 =>
              /\ b # <<>> /\ GetVarInt(Tail(b)).ok
              /\ TryParse(b).consumed \in 1 .. Len(b)
              /\ TryParse(b).consumed = 1 + GetVarInt(Tail(b)).used + GetVarInt(Tail(b)).out
              /\ TryParse(b) = [consumed |-> TryParse(b).consumed, frames |->
                   <<Packet(b[1] \div 16, b[1] % 16,
                            SubSeq(b, 2 + GetVarInt(Tail(b)).used, TryParse(b).consumed))>>]
  <1>1. CASE b = <<>> \/ ~GetVarInt(Tail(b)).ok
    BY <1>1 DEF TryParse, Incomplete
  <1>2. CASE ~(b = <<>> \/ ~GetVarInt(Tail(b)).ok)
    <2> DEFINE u == GetVarInt(Tail(b)).used
               o == GetVarInt(Tail(b)).out
    <2>1. Tail(b) \in Bytes /\ Len(b) \in Nat
      BY <1>2, HeadTailProperties, BytesAre DEF Bytes
    <2>2. u \in 1 .. 4 /\ o \in Nat
      BY <1>2, <2>1, VarIntAt
    <2>3. 1 + u + 1 = 2 + u
      BY <2>2
    <2>4. TryParse(b) = IF Len(b) < 1 + u + o THEN Incomplete
                        ELSE [consumed |-> 1 + u + o, frames |->
                               <<Packet(b[1] \div 16, b[1] % 16, SubSeq(b, 2 + u, 1 + u + o))>>]
      BY <1>2, <2>3 DEF TryParse
    <2> HIDE DEF u, o
    <2>5. CASE Len(b) < 1 + u + o
      BY <2>4, <2>5 DEF Incomplete
    <2>6. CASE ~(Len(b) < 1 + u + o)
      <3>1. 1 + u + o \in 1 .. Len(b)
        BY <2>1, <2>2, <2>6
      <3> QED BY <1>2, <2>4, <2>6, <3>1 DEF u, o
    <2> QED BY <2>5, <2>6
  <1> QED BY <1>1, <1>2

\* More bytes change nothing of a packet that is there whole.
LEMMA TryParseStays ==
  ASSUME NEW b \in Bytes, NEW c \in Bytes, TryParse(b).consumed # 0
  PROVE  TryParse(b \o c) = TryParse(b)
  <1> DEFINE r == TryParse(b)
             u == GetVarInt(Tail(b)).used
             o == GetVarInt(Tail(b)).out
  <1>1. /\ b # <<>> /\ GetVarInt(Tail(b)).ok
        /\ r.consumed \in 1 .. Len(b) /\ r.consumed = 1 + u + o
        /\ r = [consumed |-> r.consumed, frames |-> <<Packet(b[1] \div 16, b[1] % 16,
                  SubSeq(b, 2 + u, r.consumed))>>]
    BY TryParseIs
  <1>2. Tail(b) \in Bytes /\ Len(b) \in Nat /\ Len(c) \in Nat /\ u \in 1 .. 4 /\ o \in Nat
    BY <1>1, HeadTailProperties, BytesAre, VarIntAt DEF Bytes
  <1>3. /\ b \o c \in Bytes /\ Len(b \o c) = Len(b) + Len(c) /\ (b \o c)[1] = b[1]
    <2>1. /\ b \o c \in Seq(Byte) /\ Len(b \o c) = Len(b) + Len(c)
          /\ \A i \in 1 .. Len(b) + Len(c) :
               (b \o c)[i] = IF i <= Len(b) THEN b[i] ELSE c[i - Len(b)]
      BY ConcatProperties DEF Bytes
    <2>2. 1 \in 1 .. Len(b) + Len(c) /\ 1 <= Len(b)
      BY <1>1, <1>2
    <2> QED BY <2>1, <2>2 DEF Bytes
  <1>4. b \o c # <<>>
    BY <1>1, <1>2, <1>3
  <1>5. Tail(b \o c) = Tail(b) \o c
    <2>1. Tail(b \o c) = Behind(b \o c, 1) /\ Tail(b) = Behind(b, 1)
      BY <1>1, <1>3, <1>4, TailIsSubSeq DEF Bytes, Behind
    <2>2. 1 \in 0 .. Len(b)
      BY <1>1, <1>2
    <2> QED BY <2>1, <2>2, BehindConcat DEF Bytes
  <1>6. GetVarInt(Tail(b \o c)) = GetVarInt(Tail(b))
    BY <1>1, <1>2, <1>5, VarIntStays
  <1>7. SubSeq(b \o c, 2 + u, r.consumed) = SubSeq(b, 2 + u, r.consumed)
    <2> HIDE DEF r, u, o
    <2>1. CASE o = 0
      <3>1. r.consumed < 2 + u /\ 2 + u \in Int /\ r.consumed \in Int
        BY <1>1, <1>2, <2>1
      <3> QED BY <3>1, SubSeqEmpty
    <2>2. CASE o # 0
      <3>1. 2 + u \in 1 .. Len(b) /\ r.consumed \in 1 .. Len(b)
        BY <1>1, <1>2, <2>2
      <3> QED BY <3>1, SubSeqOfConcat1 DEF Bytes
    <2> QED BY <2>1, <2>2
  <1>8. ~(Len(b \o c) < 1 + u + o) /\ 1 + u + 1 = 2 + u
    BY <1>1, <1>2, <1>3
  <1>9. TryParse(b \o c) = [consumed |-> 1 + u + o, frames |->
           <<Packet(b[1] \div 16, b[1] % 16, SubSeq(b \o c, 2 + u, 1 + u + o))>>]
    BY <1>1, <1>3, <1>4, <1>6, <1>8 DEF TryParse
  <1> HIDE DEF r, u, o
  <1> QED BY <1>1, <1>7, <1>9 DEF r

-----------------------------------------------------------------------------
(* The parse loop.                                                         *)

\* The packets that TryParse can return.
AnyPackets == [type : Int, flags : Int, body : Bytes]

\* TryParse takes no more than there is, and does not change its mind when more comes.
LEMMA ParseIs == Parse \in Parsers(AnyPackets)
  <1>1. ASSUME NEW b \in Bytes
        PROVE  /\ Parse[b] = TryParse(b) /\ Parse[b] \in [consumed : Nat, frames : Seq(AnyPackets)]
               /\ Parse[b].consumed <= Len(b)
    <2> DEFINE r == TryParse(b)
    <2>1. Parse[b] = r
      BY DEF Parse
    <2>2. Len(b) \in Nat
      BY BytesAre
    <2>3. CASE r.consumed = 0
      <3>1. r = [consumed |-> 0, frames |-> <<>>]
        BY <2>3, TryParseIs DEF Incomplete
      <3>2. <<>> \in Seq(AnyPackets)
        OBVIOUS
      <3> QED BY <2>1, <2>2, <3>1, <3>2
    <2>4. CASE r.consumed # 0
      <3> DEFINE u == GetVarInt(Tail(b)).used
                 s == SubSeq(b, 2 + u, r.consumed)
                 p == Packet(b[1] \div 16, b[1] % 16, s)
      <3>1. /\ b # <<>> /\ GetVarInt(Tail(b)).ok /\ r.consumed \in 1 .. Len(b)
            /\ r = [consumed |-> r.consumed, frames |-> <<p>>]
        BY <2>4, TryParseIs
      <3>2. Tail(b) \in Bytes
        BY <3>1, HeadTailProperties DEF Bytes
      <3>3. u \in 1 .. 4
        BY <3>1, <3>2, VarIntAt
      <3> HIDE DEF u
      <3>4. s \in Bytes
        <4>1. /\ 2 + u \in Int /\ r.consumed \in Int
              /\ \A i \in 2 + u .. r.consumed : i \in 1 .. Len(b)
          BY <2>2, <3>1, <3>3
        <4>2. \A i \in 2 + u .. r.consumed : b[i] \in Byte
          BY <4>1 DEF Bytes
        <4> HIDE DEF r
        <4> QED BY <4>1, <4>2, SubSeqProperties DEF Bytes
      <3>5. b[1] \in Int
        <4>1. 1 \in 1 .. Len(b)
          BY <2>2, <3>1
        <4> QED BY <4>1, BytesAre
      <3>6. b[1] \div 16 \in Int /\ b[1] % 16 \in Int
        BY <3>5
      <3> HIDE DEF r, s
      <3>7. p \in AnyPackets
        BY <3>4, <3>6 DEF AnyPackets, Packet
      <3> HIDE DEF p
      <3>8. <<p>> \in Seq(AnyPackets)
        BY <3>7
      <3>9. r.consumed \in Nat /\ r.consumed <= Len(b)
        BY <2>2, <3>1
      <3> DEFINE f == <<p>>
                 c == r.consumed
      <3>10. r = [consumed |-> c, frames |-> f] /\ f \in Seq(AnyPackets) /\ c \in Nat
        BY <3>1, <3>8, <3>9
      <3>11. c <= Len(b)
        BY <3>9
      <3> HIDE DEF f, c
      <3>12. r \in [consumed : Nat, frames : Seq(AnyPackets)] /\ r.consumed <= Len(b)
        BY <3>10, <3>11
      <3> QED BY <2>1, <3>12 DEF r
    <2> QED BY <2>3, <2>4
  <1>2. ASSUME NEW b \in Bytes, NEW c \in Bytes, Parse[b].consumed # 0
        PROVE  Parse[b \o c] = Parse[b]
    <2>1. b \o c \in Bytes
      BY BytesJoin
    <2>2. TryParse(b \o c) = TryParse(b)
      BY <1>1, <1>2, TryParseStays
    <2> QED BY <1>1, <2>1, <2>2
  <1>3. Parse \in [Bytes -> [consumed : Nat, frames : Seq(AnyPackets)]]
    <2>1. Parse = [b \in Bytes |-> Parse[b]]
      BY DEF Parse
    <2> QED BY <1>1, <2>1
  <1> QED BY <1>1, <1>2, <1>3 DEF Parsers

\* They are more than what can be sent.
LEMMA PacketsAny == Seq(ControlPackets) \subseteq Seq(AnyPackets)
  <1>1. \A i \in 0 .. 15 : i \in Int
    OBVIOUS
  <1>2. ControlPackets \subseteq AnyPackets
    BY <1>1 DEF ControlPackets, AnyPackets
  <1>3. \A A, C : A \subseteq C => Seq(A) \subseteq Seq(C)
    OBVIOUS
  <1> QED BY <1>2, <1>3

\* handleIncoming reads the same packets and keeps the same bytes whether x and then y
\* arrive or both at once.
THEOREM ReceivedCut ==
  ASSUME NEW buffer \in Bytes, NEW x \in Bytes, NEW y \in Bytes
  PROVE  LET first == Received(buffer, x)
             rest  == Received(first.buffer, y)
         IN  Received(buffer, x \o y) = [frames |-> first.frames \o rest.frames,
                                         buffer |-> rest.buffer]
  BY ParseIs, ArrivalsCut DEF Received

-----------------------------------------------------------------------------
(* Streams of frames.                                                      *)

\* A stream of frames, read whole, is the packets written, each once and in order.
THEOREM FramesRead ==
  ASSUME NEW ps \in Seq(ControlPackets)
  PROVE  LET bytes == FlattenSeq([i \in DOMAIN ps |-> Frame(ps[i])])
         IN  bytes \in Bytes /\ Received(<<>>, bytes) = [frames |-> ps, buffer |-> <<>>]
  <1> DEFINE ws == [i \in DOMAIN ps |-> Frame(ps[i])]
             n  == Len(ps)
  <1>1. n \in Nat /\ DOMAIN ps = 1 .. n /\ \A i \in 1 .. n : ps[i] \in ControlPackets
    BY LenProperties
  <1> HIDE DEF n
  <1>2. ASSUME NEW p \in ControlPackets
        PROVE  Frame(p) \in Bytes /\ Writes(Parse, Frame(p), p)
    <2> DEFINE w == Frame(p)
    <2>1. <<>> \in Bytes
      BY DEF Bytes
    <2>2. /\ w \in Bytes /\ Len(w) \in Nat /\ Len(w) > 0
          /\ TryParse(w \o <<>>) = [consumed |-> Len(w), frames |-> <<p>>]
      BY <2>1, FrameRead
    <2> HIDE DEF w
    <2>3. w \o <<>> = w
      BY <2>2, ConcatEmptySeq DEF Bytes
    <2>4. w # <<>>
      BY <2>2
    <2>5. Parse[w] = TryParse(w)
      BY <2>2 DEF Parse
    <2>6. Writes(Parse, w, p)
      BY <2>2, <2>3, <2>4, <2>5 DEF Writes
    <2> QED BY <2>2, <2>6 DEF w
  <1>3. \A i \in 1 .. n : ws[i] = Frame(ps[i])
    BY <1>1
  <1>4. ws \in [1 .. n -> Bytes]
    BY <1>1, <1>2
  <1> HIDE DEF ws
  <1>5. ws \in Seq(Bytes) /\ Len(ws) = n
    BY <1>1, <1>4, LenProperties
  <1>6. \A i \in 1 .. Len(ps) : Writes(Parse, ws[i], ps[i])
    BY <1>1, <1>2, <1>3 DEF n
  <1>7. ps \in Seq(AnyPackets)
    BY PacketsAny
  <1>8. /\ FlattenSeq(ws) \in Bytes
        /\ Arrived(Parse, <<>>, FlattenSeq(ws)) = [frames |-> ps, buffer |-> <<>>]
    BY <1>5, <1>6, <1>7, ParseIs, StreamRead DEF n
  <1> QED BY <1>8 DEF Received, ws

\* However a stream of frames is cut in two, the packets written are read, each once and
\* in order, and nothing is left.
THEOREM FramesCut ==
  ASSUME NEW ps \in Seq(ControlPackets), NEW k \in Nat
  PROVE  LET bytes == FlattenSeq([i \in DOMAIN ps |-> Frame(ps[i])])
             first == Received(<<>>, SubSeq(bytes, 1, k))
             rest  == Received(first.buffer, SubSeq(bytes, k + 1, Len(bytes)))
         IN  k <= Len(bytes) => first.frames \o rest.frames = ps /\ rest.buffer = <<>>
  <1> DEFINE bytes == FlattenSeq([i \in DOMAIN ps |-> Frame(ps[i])])
  <1>1. bytes \in Bytes /\ Received(<<>>, bytes) = [frames |-> ps, buffer |-> <<>>]
    BY FramesRead
  <1> HIDE DEF bytes
  <1>2. Arrived(Parse, <<>>, bytes) = [frames |-> ps, buffer |-> <<>>]
    BY <1>1 DEF Received
  <1>3. ps \in Seq(AnyPackets)
    BY PacketsAny
  <1>4. k <= Len(bytes) =>
          LET first == Arrived(Parse, <<>>, SubSeq(bytes, 1, k))
              rest  == Arrived(Parse, first.buffer, SubSeq(bytes, k + 1, Len(bytes)))
          IN  first.frames \o rest.frames = ps /\ rest.buffer = <<>>
    BY <1>1, <1>2, <1>3, ParseIs, StreamCut
  <1> QED BY <1>4 DEF Received, bytes

-----------------------------------------------------------------------------
(* Numbers and strings, wherever they are.                                 *)

\* The bytes of a number, and the number of its bytes.
LEMMA ByteOf ==
  ASSUME NEW v \in Nat
  PROVE  /\ v % 256 \in Byte /\ (v \div 256) % 256 \in Byte
         /\ (v \div 65536) % 256 \in Byte /\ (v \div 16777216) % 256 \in Byte
  <1>1. \A x \in Int : x % 256 \in 0 .. 255
    BY SMT
  <1>2. v \div 256 \in Int /\ v \div 65536 \in Int /\ v \div 16777216 \in Int
    BY SMT
  <1> QED BY <1>1, <1>2, InByte, SMT

\* A number is the sum of its bytes.
LEMMA NumberOf16 ==
  \A v \in Nat : v <= 65535 => 256 * ((v \div 256) % 256) + (v % 256) = v
  BY SMT

LEMMA NumberOf32 ==
  \A v \in Nat : v \div 65536 < 65536 =>
    16777216 * ((v \div 16777216) % 256) + 65536 * ((v \div 65536) % 256)
      + 256 * ((v \div 256) % 256) + (v % 256) = v
  BY SMT

\* The numbers of 16 and of 32 bits.
Numbers16 == {v \in Nat : v <= 65535}

Numbers32 == {v \in Nat : v \div 65536 < 65536}

\* A 16-bit number is read where it was written.
LEMMA U16Read ==
  ASSUME NEW v \in Numbers16
  PROVE  /\ PutU16(v) \in Bytes /\ Len(PutU16(v)) = 2
         /\ \A x, z \in Bytes : GetU16((x \o PutU16(v)) \o z, Len(x) + 1) = v
  <1>0. v \in Nat /\ v <= 65535
    BY SMT DEF Numbers16
  <1>1. PICK c \in Byte, d \in Byte : c = (v \div 256) % 256 /\ d = v % 256
    BY <1>0, ByteOf, SMT
  <1>2. 256 * c + d = v
    BY <1>0, <1>1, NumberOf16, SMT
  <1> DEFINE y == <<c, d>>
  <1>3. y \in Bytes
    BY DEF Bytes
  <1>4. PutU16(v) = y /\ Len(y) = 2 /\ y[1] = c /\ y[2] = d
    BY <1>1 DEF PutU16
  <1> HIDE DEF y
  <1>5. ASSUME NEW x \in Bytes, NEW z \in Bytes
        PROVE  GetU16((x \o y) \o z, Len(x) + 1) = v
    <2> DEFINE b == (x \o y) \o z
    <2>1. b[Len(x) + 1] = c /\ b[Len(x) + 2] = d
      <3>1. 1 \in 1 .. Len(y) /\ 2 \in 1 .. Len(y)
        BY <1>4
      <3>2. \A k \in 1 .. Len(y) : b[Len(x) + k] = y[k]
        BY <1>3, BytesAt
      <3> HIDE DEF b
      <3> QED BY <1>4, <3>1, <3>2
    <2> HIDE DEF b
    <2>2. (Len(x) + 1) + 1 = Len(x) + 2
      BY BytesAre
    <2>3. GetU16(b, Len(x) + 1) = v
      BY <1>2, <2>1, <2>2 DEF GetU16
    <2> QED BY <2>3 DEF b
  <1> QED BY <1>3, <1>4, <1>5

\* So is a 32-bit number.
LEMMA U32Read ==
  ASSUME NEW v \in Numbers32
  PROVE  /\ PutU32(v) \in Bytes /\ Len(PutU32(v)) = 4
         /\ \A x, z \in Bytes : GetU32((x \o PutU32(v)) \o z, Len(x) + 1) = v
  <1>0. v \in Nat /\ v \div 65536 < 65536
    BY DEF Numbers32
  <1>1. PICK c \in Byte, d \in Byte, e \in Byte, f \in Byte :
          /\ c = (v \div 16777216) % 256 /\ d = (v \div 65536) % 256
          /\ e = (v \div 256) % 256 /\ f = v % 256
    BY <1>0, ByteOf, SMT
  <1>2. 16777216 * c + 65536 * d + 256 * e + f = v
    BY <1>0, <1>1, NumberOf32, SMT
  <1> DEFINE y == <<c, d, e, f>>
  <1>3. y \in Bytes
    BY DEF Bytes
  <1>4. /\ PutU32(v) = y /\ Len(y) = 4
        /\ y[1] = c /\ y[2] = d /\ y[3] = e /\ y[4] = f
    BY <1>1, SMT DEF PutU32
  <1> HIDE DEF y
  <1>5. ASSUME NEW x \in Bytes, NEW z \in Bytes
        PROVE  GetU32((x \o y) \o z, Len(x) + 1) = v
    <2> DEFINE b == (x \o y) \o z
    <2>1. b[Len(x) + 1] = c /\ b[Len(x) + 2] = d /\ b[Len(x) + 3] = e /\ b[Len(x) + 4] = f
      <3>1. 1 \in 1 .. Len(y) /\ 2 \in 1 .. Len(y) /\ 3 \in 1 .. Len(y) /\ 4 \in 1 .. Len(y)
        BY <1>4
      <3>2. \A k \in 1 .. Len(y) : b[Len(x) + k] = y[k]
        BY <1>3, BytesAt
      <3> HIDE DEF b
      <3> QED BY <1>4, <3>1, <3>2
    <2> HIDE DEF b
    <2>2. /\ (Len(x) + 1) + 1 = Len(x) + 2 /\ (Len(x) + 1) + 2 = Len(x) + 3
          /\ (Len(x) + 1) + 3 = Len(x) + 4
      BY BytesAre
    <2>3. GetU32(b, Len(x) + 1) = v
      BY <1>2, <2>1, <2>2, SMT DEF GetU32
    <2> QED BY <2>3 DEF b
  <1> QED BY <1>3, <1>4, <1>5

\* And a 64-bit one whose upper half is zero.
LEMMA I64Read ==
  ASSUME NEW v \in Numbers32
  PROVE  /\ PutI64(v) \in Bytes /\ Len(PutI64(v)) = 8
         /\ \A x, z \in Bytes : GetI64((x \o PutI64(v)) \o z, Len(x) + 1) = v
  <1> DEFINE o == <<0, 0, 0, 0>>
             n == PutU32(v)
  <1>1. o \in Bytes /\ Len(o) = 4
    <2>1. 0 \in Byte
      BY InByte
    <2> QED BY <2>1 DEF Bytes
  <1>2. /\ n \in Bytes /\ Len(n) = 4
        /\ \A x, z \in Bytes : GetU32((x \o n) \o z, Len(x) + 1) = v
    BY U32Read
  <1>3. PutI64(v) = o \o n
    BY DEF PutI64
  <1> HIDE DEF o, n
  <1>4. o \in Bytes /\ n \in Bytes
    BY <1>1, <1>2
  <1>5. o \o n \in Bytes /\ Len(o \o n) = 8
    <2>1. o \o n \in Bytes /\ Len(o \o n) = Len(o) + Len(n)
      BY <1>4, BytesJoin
    <2>2. Len(o) = 4 /\ Len(n) = 4
      BY <1>1, <1>2
    <2> QED BY <2>1, <2>2
  <1>6. ASSUME NEW x \in Bytes, NEW z \in Bytes
        PROVE  GetI64((x \o (o \o n)) \o z, Len(x) + 1) = v
    <2>0. Assoc(x, o, n)
      BY <1>4, BytesAssoc
    <2>1. (x \o o) \o n = x \o (o \o n)
      BY <2>0 DEF Assoc
    <2> DEFINE w == x \o o
    <2>2. w \in Bytes /\ Len(w) = Len(x) + Len(o)
      BY <1>4, BytesJoin
    <2> HIDE DEF w
    <2>3. GetU32((w \o n) \o z, Len(w) + 1) = v
      BY <1>2, <2>2
    <2>4. (Len(x) + 1) + 4 = Len(w) + 1
      BY <1>1, <2>2, BytesAre
    <2>5. GetI64((w \o n) \o z, Len(x) + 1) = v
      BY <2>3, <2>4 DEF GetI64
    <2> QED BY <2>1, <2>5 DEF w
  <1> QED BY <1>3, <1>5, <1>6

\* The strings whose length fits its field.
Strings == {s \in Bytes : Len(s) \in Numbers16}

\* A string is read where it was written.
LEMMA StringRead ==
  ASSUME NEW s \in Strings
  PROVE  /\ PutString(s) \in Bytes /\ Len(PutString(s)) = 2 + Len(s)
         /\ \A x, z \in Bytes :
              LET b == (x \o PutString(s)) \o z
              IN  /\ GetU16(b, Len(x) + 1) = Len(s)
                  /\ SubSeq(b, Len(x) + 3, Len(x) + 2 + Len(s)) = s
  <1> DEFINE n == PutU16(Len(s))
  <1>1. s \in Bytes /\ Len(s) \in Nat /\ Len(s) \in Numbers16
    BY BytesAre DEF Strings
  <1>2. /\ n \in Bytes /\ Len(n) = 2
        /\ \A x, z \in Bytes : GetU16((x \o n) \o z, Len(x) + 1) = Len(s)
    BY <1>1, U16Read
  <1>3. PutString(s) = n \o s
    BY DEF PutString
  <1> HIDE DEF n
  <1>4. n \in Bytes /\ n \o s \in Bytes /\ Len(n \o s) = Len(n) + Len(s)
    <2>1. n \in Bytes /\ s \in Bytes
      BY <1>1, <1>2
    <2> QED BY <2>1, BytesJoin
  <1>5. Len(n \o s) = 2 + Len(s)
    BY <1>2, <1>4
  <1>6. ASSUME NEW x \in Bytes, NEW z \in Bytes
        PROVE  LET b == (x \o (n \o s)) \o z
               IN  /\ GetU16(b, Len(x) + 1) = Len(s)
                   /\ SubSeq(b, Len(x) + 3, Len(x) + 2 + Len(s)) = s
    <2> DEFINE w == x \o n
               y == s \o z
    <2>1. w \in Bytes /\ Len(w) = Len(x) + Len(n) /\ y \in Bytes
      BY <1>1, <1>4, BytesJoin
    <2>2. x \o (n \o s) = w \o s /\ (w \o s) \o z = w \o y
      <3>1. Assoc(x, n, s) /\ Assoc(w, s, z)
        BY <1>1, <1>4, <2>1, BytesAssoc
      <3> QED BY <3>1 DEF Assoc
    <2>3. GetU16(w \o y, Len(x) + 1) = Len(s)
      BY <1>2, <2>1
    <2> HIDE DEF w, y
    <2>4. SubSeq((w \o s) \o z, Len(w) + 1, Len(w) + Len(s)) = s
      BY <1>1, <2>1, MiddleIs DEF Bytes
    <2>5. Len(w) + 1 = Len(x) + 3 /\ Len(w) + Len(s) = Len(x) + 2 + Len(s)
      BY <1>1, <1>2, <2>1, BytesAre
    <2> QED BY <2>2, <2>3, <2>4, <2>5
  <1> QED BY <1>3, <1>4, <1>5, <1>6

-----------------------------------------------------------------------------
(* PUBLISH.                                                                *)

\* The messages that PUBLISH can carry.
Publishable ==
  [topic : Strings, qos : 0 .. 3, packetId : Numbers16, expiry : Numbers32,
   creationTime : Numbers32, sequence : Numbers32, payloadLength : Nat]

\* A message comes out of PUBLISH as it went in.
THEOREM PublishRead ==
  ASSUME NEW m \in Publishable
  PROVE  /\ ParsePublish(EncodePublish(m)) = Sent(m)
         /\ EncodePublish(m).body \in Bytes
         /\ Len(EncodePublish(m).body) <= m.payloadLength + Len(m.topic) + 26
  <1>1. /\ m.topic \in Strings /\ m.qos \in 0 .. 3 /\ m.packetId \in Numbers16
        /\ m.expiry \in Numbers32 /\ m.creationTime \in Numbers32 /\ m.sequence \in Numbers32
        /\ m.payloadLength \in Nat
    BY DEF Publishable
  <1> DEFINE l == Len(m.topic)
  <1>0. l \in Nat /\ m.expiry \in Nat
    <2>1. m.topic \in Bytes
      BY <1>1 DEF Strings
    <2>2. m.expiry \in Nat
      BY <1>1 DEF Numbers32
    <2> QED BY <2>1, <2>2, BytesAre
  <1> HIDE DEF l
  <1>2. PICK T :
          /\ T \in Bytes /\ T = PutString(m.topic) /\ Len(T) = 2 + l
          /\ \A z \in Bytes : /\ GetU16((<<>> \o T) \o z, 1) = l
                              /\ SubSeq((<<>> \o T) \o z, 3, 2 + l) = m.topic
    <2> DEFINE T == PutString(m.topic)
    <2>1. /\ T \in Bytes /\ Len(T) = 2 + l
          /\ \A x, z \in Bytes :
               LET b == (x \o T) \o z
               IN  GetU16(b, Len(x) + 1) = l /\ SubSeq(b, Len(x) + 3, Len(x) + 2 + l) = m.topic
      BY <1>1, StringRead DEF l
    <2> HIDE DEF T
    <2>2. <<>> \in Bytes /\ Len(<<>>) = 0
      BY DEF Bytes
    <2>3. 0 + 1 = 1 /\ 0 + 3 = 3 /\ 0 + 2 + l = 2 + l
      BY <1>0
    <2>4. ASSUME NEW z \in Bytes
          PROVE  GetU16((<<>> \o T) \o z, 1) = l /\ SubSeq((<<>> \o T) \o z, 3, 2 + l) = m.topic
      <3>1. /\ GetU16((<<>> \o T) \o z, Len(<<>>) + 1) = l
            /\ SubSeq((<<>> \o T) \o z, Len(<<>>) + 3, Len(<<>>) + 2 + l) = m.topic
        BY <2>1, <2>2
      <3> QED BY <2>2, <2>3, <3>1
    <2> QED BY <2>1, <2>4 DEF T
  <1>3. PICK I :
          /\ I \in Bytes /\ I = IF m.qos > 0 THEN PutU16(m.packetId) ELSE <<>>
          /\ m.qos > 0 => Len(I) = 2
          /\ m.qos > 0 => \A x, z \in Bytes : GetU16((x \o I) \o z, Len(x) + 1) = m.packetId
          /\ ~(m.qos > 0) => Len(I) = 0
    <2>1. CASE m.qos > 0
      <3> QED BY <1>1, <2>1, U16Read
    <2>2. CASE ~(m.qos > 0)
      <3>1. <<>> \in Bytes /\ Len(<<>>) = 0
        BY DEF Bytes
      <3> QED BY <2>2, <3>1
    <2> QED BY <2>1, <2>2
  <1>4. PICK N :
          /\ N \in Bytes /\ N = PutU32(m.expiry) /\ Len(N) = 4
          /\ \A x, z \in Bytes : GetU32((x \o N) \o z, Len(x) + 1) = m.expiry
    BY <1>1, U32Read
  <1>5. PICK D : D \in Bytes /\ D = <<MESSAGE_EXPIRY_INTERVAL>> /\ Len(D) = 1
    <2>1. PICK v \in Byte : v = MESSAGE_EXPIRY_INTERVAL
      BY InByte DEF MESSAGE_EXPIRY_INTERVAL
    <2>2. <<v>> \in Seq(Byte) /\ Len(<<v>>) = 1
      OBVIOUS
    <2> QED BY <2>1, <2>2 DEF Bytes
  <1>6. PICK W :
          /\ W \in Bytes
          /\ W = IF m.expiry > 0 THEN <<MESSAGE_EXPIRY_INTERVAL>> \o PutU32(m.expiry) ELSE <<>>
          /\ m.expiry > 0 => W = D \o N /\ Len(W) = 5
          /\ ~(m.expiry > 0) => Len(W) = 0
    <2>1. CASE m.expiry > 0
      <3>0. D \in Bytes /\ N \in Bytes /\ Len(D) = 1 /\ Len(N) = 4
        BY <1>4, <1>5
      <3>1. D \o N \in Bytes /\ Len(D \o N) = Len(D) + Len(N)
        BY <3>0, BytesJoin
      <3>2. D \o N = <<MESSAGE_EXPIRY_INTERVAL>> \o PutU32(m.expiry)
        BY <1>4, <1>5
      <3>3. Len(D \o N) = 5
        BY <3>0, <3>1
      <3> QED BY <2>1, <3>1, <3>2, <3>3
    <2>2. CASE ~(m.expiry > 0)
      <3>1. <<>> \in Bytes /\ Len(<<>>) = 0
        BY DEF Bytes
      <3> QED BY <2>2, <3>1
    <2> QED BY <2>1, <2>2
  <1>7. PICK V :
          /\ V \in Bytes /\ V = PutVarInt(Len(W)) /\ Len(V) = 1
          /\ \A z \in Bytes : GetVarInt(V \o z) = [ok |-> TRUE, used |-> 1, out |-> Len(W)]
    <2>1. Len(W) \in Nat /\ Len(W) < 128
      BY <1>6
    <2>2. VarIntSize(Len(W)) = 1
      BY <2>1, VarIntSizeIs
    <2>3. Len(W) < Place[5]
      BY <2>1 DEF Place
    <2>4. PutVarInt(Len(W)) \in Bytes /\ Len(PutVarInt(Len(W))) = 1
      BY <2>1, <2>2, PutVarIntIs
    <2>5. \A z \in Bytes : GetVarInt(PutVarInt(Len(W)) \o z) =
                             [ok |-> TRUE, used |-> 1, out |-> Len(W)]
      BY <2>1, <2>2, <2>3, VarIntRead
    <2> QED BY <2>4, <2>5
  <1>8. PICK C :
          /\ C \in Bytes /\ C = PutI64(m.creationTime) /\ Len(C) = 8
          /\ \A x, z \in Bytes : GetI64((x \o C) \o z, Len(x) + 1) = m.creationTime
    BY <1>1, I64Read
  <1>9. PICK Q :
          /\ Q \in Bytes /\ Q = PutI64(m.sequence) /\ Len(Q) = 8
          /\ \A x, z \in Bytes : GetI64((x \o Q) \o z, Len(x) + 1) = m.sequence
    BY <1>1, I64Read
  <1>10. PICK Z :
           Z \in Bytes /\ Z = [i \in 1 .. m.payloadLength |-> 0] /\ Len(Z) = m.payloadLength
    <2>1. 0 \in Byte
      BY InByte
    <2> QED BY <1>1, <2>1, BytesOf
  <1>11. PICK P2 : P2 \in Bytes /\ P2 = T \o I /\ Len(P2) = Len(T) + Len(I)
    <2>1. T \in Bytes /\ I \in Bytes
      BY <1>2, <1>3
    <2> QED BY <2>1, BytesJoined
  <1>12. PICK P3 : P3 \in Bytes /\ P3 = P2 \o V /\ Len(P3) = Len(P2) + Len(V)
    <2>1. P2 \in Bytes /\ V \in Bytes
      BY <1>7, <1>11
    <2> QED BY <2>1, BytesJoined
  <1>13. PICK P4 : P4 \in Bytes /\ P4 = P3 \o W /\ Len(P4) = Len(P3) + Len(W)
    <2>1. P3 \in Bytes /\ W \in Bytes
      BY <1>6, <1>12
    <2> QED BY <2>1, BytesJoined
  <1>14. PICK P5 : P5 \in Bytes /\ P5 = P4 \o C /\ Len(P5) = Len(P4) + Len(C)
    <2>1. P4 \in Bytes /\ C \in Bytes
      BY <1>8, <1>13
    <2> QED BY <2>1, BytesJoined
  <1>15. PICK P6 : P6 \in Bytes /\ P6 = P5 \o Q /\ Len(P6) = Len(P5) + Len(Q)
    <2>1. P5 \in Bytes /\ Q \in Bytes
      BY <1>9, <1>14
    <2> QED BY <2>1, BytesJoined
  <1>16. PICK b : b \in Bytes /\ b = P6 \o Z /\ Len(b) = Len(P6) + Len(Z)
    <2>1. P6 \in Bytes /\ Z \in Bytes
      BY <1>10, <1>15
    <2> QED BY <2>1, BytesJoined
  <1>17. EncodePublish(m) = Packet(PUBLISH, m.qos * 2, b)
    <2>1. b = (((((T \o I) \o V) \o W) \o C) \o Q) \o Z
      BY <1>11, <1>12, <1>13, <1>14, <1>15, <1>16
    <2>2. EncodePublish(m) =
            Packet(PUBLISH, m.qos * 2,
                   (((((T \o I) \o PutVarInt(Len(W))) \o W) \o C) \o Q) \o Z)
      BY <1>2, <1>3, <1>6, <1>8, <1>9, <1>10 DEF EncodePublish
    <2> QED BY <1>7, <2>1, <2>2
  <1>18. /\ Len(T) = 2 + l /\ Len(P2) \in Nat /\ Len(I) \in Nat /\ Len(W) \in Nat
         /\ Len(P3) = Len(P2) + 1 /\ Len(P4) = Len(P3) + Len(W) /\ Len(P5) = Len(P4) + 8
         /\ Len(b) = Len(P4) + 16 + m.payloadLength
    <2>1. /\ Len(V) = 1 /\ Len(C) = 8 /\ Len(Q) = 8 /\ Len(Z) = m.payloadLength
          /\ P2 \in Bytes /\ I \in Bytes /\ W \in Bytes
      BY <1>3, <1>6, <1>7, <1>8, <1>9, <1>10, <1>11
    <2>2. Len(P2) \in Nat /\ Len(I) \in Nat /\ Len(W) \in Nat
      BY <2>1, BytesAre
    <2> QED BY <1>1, <1>2, <1>12, <1>13, <1>14, <1>15, <1>16, <2>1, <2>2
  <1>19. Between(b, P5, Q, Z)
    BY <1>9, <1>10, <1>14, <1>15, <1>16 DEF Between
  <1>20. PICK r5 : Between(b, P4, C, r5)
    BY <1>8, <1>13, <1>14, <1>19, BetweenBack
  <1>21. PICK r4 : Between(b, P3, W, r4)
    BY <1>6, <1>12, <1>13, <1>20, BetweenBack
  <1>22. PICK r3 : Between(b, P2, V, r3)
    BY <1>7, <1>11, <1>12, <1>21, BetweenBack
  <1>23. PICK r2 : Between(b, T, I, r2)
    BY <1>2, <1>3, <1>11, <1>22, BetweenBack
  <1>24. PICK r1 : Between(b, <<>>, T, r1)
    <2>1. <<>> \in Bytes /\ <<>> \o T = T
      BY <1>2 DEF Bytes
    <2>2. Between(b, <<>> \o T, I, r2) /\ T \in Bytes
      BY <1>2, <1>23, <2>1
    <2> QED BY <2>1, <2>2, BetweenBack
  <1>25. GetU16(b, 1) = l /\ SubSeq(b, 3, 2 + l) = m.topic
    BY <1>2, <1>24 DEF Between
  <1>26. m.qos > 0 => GetU16(b, 2 + l + 1) = m.packetId
    BY <1>3, <1>18, <1>23 DEF Between
  <1>27. GetVarInt(Behind(b, Len(P2))) = [ok |-> TRUE, used |-> 1, out |-> Len(W)]
    <2>1. r3 \in Bytes /\ b = (P2 \o V) \o r3 /\ P2 \in Bytes /\ V \in Bytes
      BY <1>22 DEF Between
    <2>2. b = P2 \o (V \o r3)
      BY <2>1, BytesAssoc DEF Assoc
    <2>3. Behind(b, Len(P2)) = V \o r3
      <3>1. PICK y : y \in Bytes /\ y = V \o r3
        BY <2>1, BytesJoin
      <3>2. P2 \in Seq(Byte) /\ y \in Seq(Byte)
        BY <2>1, <3>1 DEF Bytes
      <3>3. Behind(P2 \o y, Len(P2)) = y
        BY <3>2, BehindPart
      <3> QED BY <2>2, <3>1, <3>3
    <2> QED BY <1>7, <2>1, <2>3
  <1>28. m.expiry > 0 => GetU32(b, Len(P3) + 2) = m.expiry
    <2> SUFFICES ASSUME m.expiry > 0
                 PROVE  GetU32(b, Len(P3) + 2) = m.expiry
      OBVIOUS
    <2>1. Between(b, P3, D \o N, r4)
      BY <1>6, <1>21
    <2>2. PICK X : X \in Bytes /\ X = P3 \o D /\ Len(X) = Len(P3) + Len(D)
      <3>1. P3 \in Bytes /\ D \in Bytes
        BY <1>5, <1>12
      <3> QED BY <3>1, BytesJoined
    <2>3. X \o N = P3 \o (D \o N)
      BY <1>4, <1>5, <1>12, <2>2, BytesAssoc DEF Assoc
    <2>4. b = (X \o N) \o r4 /\ r4 \in Bytes
      BY <2>1, <2>3 DEF Between
    <2>5. Len(X) + 1 = Len(P3) + 2
      <3>1. Len(D) = 1 /\ P3 \in Bytes
        BY <1>5, <1>12
      <3>2. Len(P3) \in Nat
        BY <3>1, BytesAre
      <3> QED BY <2>2, <3>1, <3>2
    <2> QED BY <1>4, <2>2, <2>4, <2>5
  <1>29. GetI64(b, Len(P4) + 1) = m.creationTime
    BY <1>8, <1>20 DEF Between
  <1>30. GetI64(b, Len(P4) + 9) = m.sequence
    <2>1. Len(P4) + 9 = Len(P5) + 1
      BY <1>18
    <2> QED BY <1>9, <1>19, <2>1 DEF Between
  <1>31. m = [topic |-> m.topic, qos |-> m.qos, packetId |-> m.packetId, expiry |-> m.expiry,
              creationTime |-> m.creationTime, sequence |-> m.sequence,
              payloadLength |-> m.payloadLength]
    BY DEF Publishable
  <1>32. ParsePublish(EncodePublish(m)) = Sent(m)
    <2> DEFINE p == EncodePublish(m)
    <2>1. p.body = b /\ (p.flags \div 2) % 4 = m.qos
      <3>1. p.body = b /\ p.flags = m.qos * 2
        BY <1>17 DEF Packet
      <3>2. ((m.qos * 2) \div 2) % 4 = m.qos
        BY <1>1, SMT
      <3> QED BY <3>1, <3>2
    <2> HIDE DEF p
    <2>2. (IF m.qos > 0 THEN (2 + l) + 2 ELSE 2 + l) = Len(P2)
      <3>1. CASE m.qos > 0
        BY <1>0, <1>3, <1>11, <1>18, <3>1
      <3>2. CASE ~(m.qos > 0)
        BY <1>0, <1>3, <1>11, <1>18, <3>2
      <3> QED BY <3>1, <3>2
    <2>3. /\ GetU16(b, 1) = l /\ SubSeq(b, 3, 2 + l) = m.topic
          /\ (IF m.qos > 0 THEN GetU16(b, (2 + l) + 1) ELSE 0) = Sent(m).packetId
      <3>1. Sent(m).packetId = IF m.qos > 0 THEN m.packetId ELSE 0
        BY <1>31 DEF Sent
      <3> QED BY <1>25, <1>26, <3>1
    <2>4. /\ GetVarInt(Behind(b, Len(P2))).used = 1
          /\ GetVarInt(Behind(b, Len(P2))).out = Len(W)
          /\ Len(P2) + 1 = Len(P3) /\ Len(P3) + Len(W) = Len(P4)
      BY <1>18, <1>27
    <2>5. (IF Len(W) > 0 THEN GetU32(b, Len(P3) + 2) ELSE 0) = m.expiry
      <3>1. CASE m.expiry > 0
        BY <1>6, <1>28, <3>1
      <3>2. CASE ~(m.expiry > 0)
        BY <1>0, <1>6, <3>2
      <3> QED BY <3>1, <3>2
    <2>6. Len(b) - Len(P4) - 16 = m.payloadLength
      <3>1. Len(P4) \in Nat
        BY <1>13, BytesAre
      <3> QED BY <1>1, <1>18, <3>1
    <2> DEFINE r == [topic |-> m.topic, qos |-> m.qos, packetId |-> Sent(m).packetId,
                     expiry |-> m.expiry, creationTime |-> m.creationTime,
                     sequence |-> m.sequence, payloadLength |-> m.payloadLength]
    <2>7. ParsePublish(p) = r
      BY <1>29, <1>30, <2>1, <2>2, <2>3, <2>4, <2>5, <2>6, ZenonT(40) DEF ParsePublish
    <2>8. Sent(m) = r
      BY <1>31 DEF Sent
    <2> QED BY <2>7, <2>8 DEF p
  <1>33. Len(b) <= m.payloadLength + l + 26
    <2>0. /\ Len(b) = Len(P4) + 16 + m.payloadLength
          /\ Len(P4) = 2 + l + Len(I) + 1 + Len(W)
      BY <1>11, <1>18
    <2>3. /\ l \in Nat /\ Len(I) \in Nat /\ Len(W) \in Nat /\ m.payloadLength \in Nat
      BY <1>0, <1>1, <1>18
    <2>1. Len(I) <= 2
      <3>1. Len(I) = 2 \/ Len(I) = 0
        BY <1>3
      <3> QED BY <3>1
    <2>2. Len(W) <= 5
      BY <1>0, <1>6, <1>18
    <2> QED BY <2>0, <2>1, <2>2, <2>3
  <1>34. EncodePublish(m).body = b
    BY <1>17 DEF Packet
  <1> QED BY <1>16, <1>32, <1>33, <1>34 DEF l

-----------------------------------------------------------------------------
(* SUBSCRIBE.                                                              *)

\* The step of parseSubscribe's loop at place i of the bytes b, where f is what it does later.
TopicsAt(b, i, f) ==
  LET n == GetU16(b, i + 1)
  IN  IF i + 2 > Len(b) \/ i + 3 + n > Len(b) THEN <<>>
      ELSE <<SubSeq(b, i + 3, i + 2 + n)>> \o f[i + 3 + n]

\* A 16-bit number that is there is a number.
LEMMA GetU16Is ==
  ASSUME NEW b \in Bytes, NEW i \in Nat, i + 2 <= Len(b)
  PROVE  GetU16(b, i + 1) \in Nat
  <1>0. Len(b) \in Nat /\ \A k \in 1 .. Len(b) : b[k] \in Byte
    BY DEF Bytes
  <1>1. i + 1 \in 1 .. Len(b) /\ i + 2 \in 1 .. Len(b) /\ (i + 1) + 1 = i + 2
    BY <1>0
  <1>2. b[i + 1] \in Byte /\ b[i + 2] \in Byte /\ (i + 1) + 1 = i + 2
    BY <1>0, <1>1
  <1>3. b[i + 1] \in Nat /\ b[i + 2] \in Nat
    BY <1>2, ByteIs
  <1> QED BY <1>2, <1>3 DEF GetU16

\* The loop's function exists.
LEMMA TopicsExist ==
  ASSUME NEW b \in Bytes
  PROVE  \E f : f = [i \in 0 .. Len(b) |-> TopicsAt(b, i, f)]
  <1> DEFINE l == Len(b)
             OK(n) == \E f : f = [i \in l - n .. l |-> TopicsAt(b, i, f)]
             Good  == {n \in Nat : n <= l => OK(n)}
  <1>1. l \in Nat
    BY BytesAre
  <1>2. 0 \in Good
    <2> DEFINE f == [i \in l - 0 .. l |-> <<>>]
    <2>1. ASSUME NEW i \in l - 0 .. l
          PROVE  TopicsAt(b, i, f) = <<>>
      <3>1. i + 2 > Len(b)
        BY <1>1
      <3> HIDE DEF f
      <3> QED BY <3>1 DEF TopicsAt
    <2>2. f = [i \in l - 0 .. l |-> TopicsAt(b, i, f)]
      BY <2>1
    <2> QED BY <2>2
  <1>3. ASSUME NEW n \in Nat, n \in Good PROVE n + 1 \in Good
    <2> SUFFICES ASSUME n + 1 <= l PROVE OK(n + 1)
      OBVIOUS
    <2>1. PICK f : f = [i \in l - n .. l |-> TopicsAt(b, i, f)]
      BY <1>1, <1>3
    <2> DEFINE g == [i \in l - (n + 1) .. l |-> TopicsAt(b, i, f)]
    <2>2. \A j \in l - n .. l : j \in l - (n + 1) .. l
      BY <1>1
    <2>3. \A j \in l - n .. l : g[j] = f[j]
      BY <2>1, <2>2
    <2>4. ASSUME NEW i \in l - (n + 1) .. l PROVE TopicsAt(b, i, f) = TopicsAt(b, i, g)
      <3> DEFINE k == GetU16(b, i + 1)
      <3>1. i \in Nat /\ i <= l
        BY <1>1
      <3>2. CASE i + 2 > Len(b) \/ i + 3 + k > Len(b)
        BY <3>2 DEF TopicsAt
      <3>3. CASE ~(i + 2 > Len(b) \/ i + 3 + k > Len(b))
        <4>1. k \in Nat
          BY <1>1, <3>1, <3>3, GetU16Is
        <4> HIDE DEF k, g
        <4>2. i + 3 + k \in l - n .. l
          BY <1>1, <3>1, <3>3, <4>1
        <4>3. g[i + 3 + k] = f[i + 3 + k]
          BY <2>3, <4>2
        <4> HIDE DEF l
        <4> QED BY <3>3, <4>3 DEF TopicsAt, k
      <3> QED BY <3>2, <3>3
    <2>5. g = [i \in l - (n + 1) .. l |-> TopicsAt(b, i, g)]
      BY <2>4
    <2> QED BY <2>5
  <1> HIDE DEF Good
  <1>4. l \in Good
    BY <1>1, <1>2, <1>3, NatInductionOn
  <1>5. OK(l) /\ l - l = 0
    BY <1>1, <1>4 DEF Good
  <1> QED BY <1>5

\* What a SUBSCRIBE that starts with its identifier and no properties says of its topics.
LEMMA SubscribeIs ==
  ASSUME NEW p, p.body \in Bytes
  PROVE  \E f : /\ f = [i \in 0 .. Len(p.body) |-> TopicsAt(p.body, i, f)]
                /\ ParseSubscribe(p) = [packetId |-> GetU16(p.body, 1), topics |-> f[3],
                                        qos |-> p.body[Len(p.body)] % 4]
  <1> DEFINE b == p.body
             f == CHOOSE g : g = [i \in 0 .. Len(b) |->
                    LET n == GetU16(b, i + 1)
                    IN  IF i + 2 > Len(b) \/ i + 3 + n > Len(b) THEN <<>>
                        ELSE <<SubSeq(b, i + 3, i + 2 + n)>> \o g[i + 3 + n]]
  <1>1. f = CHOOSE g : g = [i \in 0 .. Len(b) |-> TopicsAt(b, i, g)]
    BY DEF TopicsAt
  <1>2. ParseSubscribe(p) = [packetId |-> GetU16(b, 1), topics |-> f[3], qos |-> b[Len(b)] % 4]
    BY DEF ParseSubscribe
  <1> HIDE DEF f
  <1>3. f = [i \in 0 .. Len(b) |-> TopicsAt(b, i, f)]
    BY <1>1, TopicsExist
  <1> QED BY <1>2, <1>3

\* What SUBSCRIBE holds for a topic.
TopicPart(t, qos) == PutString(t) \o <<qos>>

\* It is a string and one byte.
LEMMA TopicPartIs ==
  ASSUME NEW t \in Strings, NEW qos \in Byte
  PROVE  /\ TopicPart(t, qos) \in Bytes /\ Len(TopicPart(t, qos)) = 3 + Len(t)
         /\ <<qos>> \in Bytes /\ Len(<<qos>>) = 1
  <1>1. <<qos>> \in Bytes /\ Len(<<qos>>) = 1
    BY DEF Bytes
  <1>2. PutString(t) \in Bytes /\ Len(PutString(t)) = 2 + Len(t)
    BY StringRead
  <1>3. Len(t) \in Nat
    BY BytesAre DEF Strings
  <1> DEFINE x == PutString(t)
             y == <<qos>>
  <1>4. x \o y \in Bytes /\ Len(x \o y) = Len(x) + Len(y)
    BY <1>1, <1>2, BytesJoin
  <1> HIDE DEF x, y
  <1>5. Len(x \o y) = 3 + Len(t)
    BY <1>1, <1>2, <1>3, <1>4 DEF x, y
  <1> QED BY <1>1, <1>4, <1>5 DEF TopicPart, x, y

\* The body of a SUBSCRIBE, from its first topic to its last.
LEMMA SubscribeBody ==
  ASSUME NEW id \in Numbers16, NEW topics \in Seq(Strings), NEW qos \in Byte, topics # <<>>
  PROVE  \E H, P :
           /\ H \in Bytes /\ H = PutU16(id) \o <<0>> /\ Len(H) = 3
           /\ P[0] = H /\ \A i \in 0 .. Len(topics) : P[i] \in Bytes
           /\ \A i \in 1 .. Len(topics) :
                P[i] = P[i - 1] \o TopicPart(topics[i], qos)
           /\ EncodeSubscribe(id, topics, qos) = Packet(SUBSCRIBE, 2, P[Len(topics)])
  <1> DEFINE n  == Len(topics)
             E  == [i \in DOMAIN topics |-> PutString(topics[i]) \o <<qos>>]
             H  == PutU16(id) \o <<0>>
  <1>1. n \in Nat \ {0} /\ DOMAIN topics = 1 .. n /\ \A i \in 1 .. n : topics[i] \in Strings
    BY LenProperties, EmptySeq
  <1>2. \A i \in 1 .. n : E[i] = TopicPart(topics[i], qos) /\ E[i] \in Bytes
    BY <1>1, TopicPartIs DEF TopicPart
  <1>3. E \in Seq(Bytes) /\ Len(E) = n
    <2>1. E \in [1 .. n -> Bytes]
      BY <1>1, <1>2
    <2> HIDE DEF E
    <2> QED BY <1>1, <2>1, LenProperties
  <1>4. H \in Bytes /\ Len(H) = 3
    <2>1. <<0>> \in Bytes /\ Len(<<0>>) = 1
      <3>1. 0 \in Byte
        BY InByte
      <3> QED BY <3>1 DEF Bytes
    <2>2. PutU16(id) \in Bytes /\ Len(PutU16(id)) = 2
      BY U16Read
    <2> DEFINE x == PutU16(id)
               y == <<0>>
    <2>3. x \o y \in Bytes /\ Len(x \o y) = Len(x) + Len(y)
      BY <2>1, <2>2, BytesJoin
    <2> HIDE DEF x, y
    <2>4. Len(x \o y) = 3
      BY <2>1, <2>2, <2>3 DEF x, y
    <2> QED BY <2>3, <2>4 DEF x, y
  <1>5. EncodeSubscribe(id, topics, qos) = Packet(SUBSCRIBE, 2, H \o FlattenSeq(E))
    BY DEF EncodeSubscribe
  <1> HIDE DEF n, E, H
  <1>6. PICK f : /\ f = [i \in 1 .. Len(E) |-> IF i = 1 THEN E[i] ELSE f[i - 1] \o E[i]]
                 /\ FlattenSeq(E) = f[Len(E)]
    BY <1>1, <1>3, FlattenIs
  <1> DEFINE P == [i \in 0 .. n |-> IF i = 0 THEN H ELSE H \o f[i]]
             Good == {i \in Nat : i + 1 <= n => f[i + 1] \in Bytes}
  <1>7. f[1] = E[1] /\ \A i \in 2 .. n : f[i] = f[i - 1] \o E[i]
    <2>1. Len(E) = n /\ n \in Nat /\ 1 \in 1 .. n /\ \A i \in 2 .. n : i \in 1 .. n /\ i # 1
      BY <1>1, <1>3
    <2>2. \A i \in 1 .. n : f[i] = IF i = 1 THEN E[i] ELSE f[i - 1] \o E[i]
      BY <1>6, <2>1, Zenon
    <2>3. f[1] = E[1]
      BY <2>1, <2>2, Zenon
    <2>4. \A i \in 2 .. n : f[i] = f[i - 1] \o E[i]
      BY <2>1, <2>2, Zenon
    <2> QED BY <2>3, <2>4
  <1>8. \A i \in 1 .. n : f[i] \in Bytes
    <2>1. 0 \in Good
      BY <1>1, <1>2, <1>7
    <2>2. ASSUME NEW i \in Nat, i \in Good PROVE i + 1 \in Good
      <3> SUFFICES ASSUME (i + 1) + 1 <= n PROVE f[(i + 1) + 1] \in Bytes
        OBVIOUS
      <3>1. (i + 1) + 1 \in 2 .. n /\ ((i + 1) + 1) - 1 = i + 1 /\ (i + 1) + 1 \in 1 .. n
        BY <1>1
      <3>2. f[i + 1] \in Bytes /\ E[(i + 1) + 1] \in Bytes
        BY <1>1, <1>2, <2>2, <3>1
      <3>3. f[(i + 1) + 1] = f[i + 1] \o E[(i + 1) + 1]
        BY <1>7, <3>1
      <3> QED BY <3>2, <3>3, BytesJoin
    <2> HIDE DEF Good
    <2>3. \A i \in Nat : i \in Good
      BY <2>1, <2>2, NatInductionOn
    <2>4. ASSUME NEW i \in 1 .. n PROVE f[i] \in Bytes
      <3>1. i - 1 \in Good /\ (i - 1) + 1 = i /\ i <= n
        BY <1>1, <2>3
      <3> QED BY <3>1 DEF Good
    <2> QED BY <2>4
  <1>9. P[0] = H /\ \A i \in 1 .. n : P[i] = H \o f[i]
    BY <1>1
  <1> HIDE DEF P
  <1>10. ASSUME NEW i \in 0 .. n PROVE P[i] \in Bytes
    <2>1. CASE i = 0
      BY <1>4, <1>9, <2>1
    <2>2. CASE i # 0
      <3>1. i \in 1 .. n
        BY <1>1, <2>2
      <3>2. P[i] = H \o f[i] /\ f[i] \in Bytes
        BY <1>8, <1>9, <3>1
      <3> QED BY <1>4, <3>2, BytesJoin
    <2> QED BY <2>1, <2>2
  <1>11. ASSUME NEW i \in 1 .. n PROVE P[i] = P[i - 1] \o E[i]
    <2>1. CASE i = 1
      <3>1. i - 1 = 0 /\ 1 \in 1 .. n
        BY <1>1, <2>1
      <3>2. P[0] = H /\ P[1] = H \o f[1] /\ f[1] = E[1]
        BY <1>7, <1>9, <3>1, Zenon
      <3> QED BY <2>1, <3>1, <3>2
    <2>2. CASE i # 1
      <3>1. i - 1 \in 1 .. n /\ i \in 2 .. n
        BY <1>1, <2>2
      <3>2. P[i - 1] = H \o f[i - 1] /\ P[i] = H \o f[i] /\ f[i] = f[i - 1] \o E[i]
        BY <1>7, <1>9, <3>1
      <3>3. H \in Bytes /\ f[i - 1] \in Bytes /\ E[i] \in Bytes
        BY <1>2, <1>4, <1>8, <3>1
      <3>4. Assoc(H, f[i - 1], E[i])
        BY <3>3, BytesAssoc
      <3> QED BY <3>2, <3>4 DEF Assoc
    <2> QED BY <2>1, <2>2
  <1>12. EncodeSubscribe(id, topics, qos) = Packet(SUBSCRIBE, 2, P[n])
    <2>1. n \in 1 .. n
      BY <1>1
    <2> QED BY <1>3, <1>5, <1>6, <1>9, <2>1
  <1>13. \A i \in 1 .. n : P[i] = P[i - 1] \o TopicPart(topics[i], qos)
    BY <1>2, <1>11
  <1> QED BY <1>4, <1>9, <1>10, <1>12, <1>13 DEF H, n

\* f is the loop's function of b.
Looped(b, f) == \A i \in 0 .. Len(b) : f[i] = TopicsAt(b, i, f)

\* f has t behind p, and then what it has behind them.
Reads(f, p, t, qos) == f[Len(p)] = <<t>> \o f[Len(p \o TopicPart(t, qos))]

\* The loop reads a topic where it is.
LEMMA TopicsStep ==
  ASSUME NEW b, NEW f, NEW p, NEW t \in Strings, NEW qos \in Byte, NEW r,
         Between(b, p, TopicPart(t, qos), r), Looped(b, f)
  PROVE  Reads(f, p, t, qos)
  <1> DEFINE s == PutString(t)
             e == TopicPart(t, qos)
             z == <<qos>> \o r
             l == Len(t)
  <1>0. p \in Bytes /\ r \in Bytes /\ b = (p \o TopicPart(t, qos)) \o r
    BY DEF Between
  <1>1. /\ s \in Bytes /\ Len(s) = 2 + l /\ <<qos>> \in Bytes /\ e \in Bytes /\ Len(e) = 3 + l
        /\ e = s \o <<qos>>
    BY StringRead, TopicPartIs DEF TopicPart
  <1>2. l \in Nat /\ Len(p) \in Nat /\ Len(r) \in Nat
    BY <1>0, BytesAre DEF Strings
  <1> HIDE DEF e
  <1>3. z \in Bytes
    BY <1>0, <1>1, BytesJoin
  <1>4. b = (p \o s) \o z
    <2> DEFINE q == <<qos>>
    <2>1. s \in Bytes /\ q \in Bytes /\ p \in Bytes /\ r \in Bytes
      BY <1>0, <1>1
    <2> HIDE DEF q, s
    <2>2. p \o s \in Bytes /\ s \o q \in Bytes
      BY <2>1, BytesJoin
    <2>3. PICK x : x \in Bytes /\ x = p \o s
      BY <2>2
    <2>4. Assoc(p, s, q) /\ Assoc(x, q, r)
      BY <2>1, <2>3, BytesAssoc
    <2>5. p \o e = x \o q
      BY <1>1, <2>3, <2>4 DEF Assoc, q
    <2>6. b = (x \o q) \o r
      BY <1>0, <2>5 DEF e
    <2>7. b = x \o (q \o r)
      BY <2>4, <2>6 DEF Assoc
    <2> QED BY <2>3, <2>7 DEF q
  <1>5. GetU16(b, Len(p) + 1) = l /\ SubSeq(b, Len(p) + 3, Len(p) + 2 + l) = t
    <2>1. \A x, y \in Bytes :
            LET c == (x \o s) \o y
            IN  GetU16(c, Len(x) + 1) = l /\ SubSeq(c, Len(x) + 3, Len(x) + 2 + l) = t
      BY StringRead
    <2> HIDE DEF s, z, l
    <2> QED BY <1>0, <1>3, <1>4, <2>1
  <1>6. Len(p \o e) = Len(p) + (3 + l) /\ Len(b) = Len(p) + (3 + l) + Len(r)
    <2>1. p \o e \in Bytes /\ Len(p \o e) = Len(p) + Len(e)
      BY <1>0, <1>1, BytesJoin
    <2>2. Len(b) = Len(p \o e) + Len(r)
      BY <1>0, <2>1, BytesJoin DEF e
    <2> QED BY <1>1, <2>1, <2>2
  <1> HIDE DEF s, z, l
  <1>7. f[Len(p)] = TopicsAt(b, Len(p), f)
    <2>1. Len(p) \in 0 .. Len(b)
      BY <1>2, <1>6
    <2> QED BY <2>1 DEF Looped
  <1>8. /\ ~(Len(p) + 2 > Len(b) \/ Len(p) + 3 + l > Len(b))
        /\ Len(p) + 3 + l = Len(p \o e)
    BY <1>2, <1>6
  <1>9. TopicsAt(b, Len(p), f) = <<t>> \o f[Len(p) + 3 + l]
    BY <1>5, <1>8 DEF TopicsAt
  <1> QED BY <1>7, <1>8, <1>9 DEF e, Reads

\* Topics come out of SUBSCRIBE as they went in, with their identifier and QoS.
THEOREM SubscribeRead ==
  ASSUME NEW id \in Numbers16, NEW topics \in Seq(Strings), NEW qos \in Byte, qos <= 3,
         topics # <<>>
  PROVE  ParseSubscribe(EncodeSubscribe(id, topics, qos)) =
           [packetId |-> id, topics |-> topics, qos |-> qos]
  <1> DEFINE n == Len(topics)
             e(i) == TopicPart(topics[i], qos)
  <1>1. n \in Nat \ {0} /\ \A i \in 1 .. n : topics[i] \in Strings
    BY LenProperties, EmptySeq
  <1>2. qos \in Byte
    OBVIOUS
  <1>3. PICK H, P :
          /\ H \in Bytes /\ H = PutU16(id) \o <<0>> /\ Len(H) = 3
          /\ P[0] = H /\ \A i \in 0 .. n : P[i] \in Bytes
          /\ \A i \in 1 .. n : P[i] = P[i - 1] \o TopicPart(topics[i], qos)
          /\ EncodeSubscribe(id, topics, qos) = Packet(SUBSCRIBE, 2, P[n])
    BY <1>2, SubscribeBody
  <1> DEFINE b == P[n]
             p == EncodeSubscribe(id, topics, qos)
  <1>4. b \in Bytes /\ p.body = b
    <2>1. n \in 0 .. n
      BY <1>1
    <2> QED BY <1>3, <2>1 DEF Packet
  <1>5. PICK f : /\ f = [i \in 0 .. Len(b) |-> TopicsAt(b, i, f)]
                 /\ ParseSubscribe(p) = [packetId |-> GetU16(b, 1), topics |-> f[3],
                                         qos |-> b[Len(b)] % 4]
    BY <1>4, SubscribeIs
  <1> HIDE DEF n, b, p
  <1> DEFINE OK(k) == /\ \E r \in Bytes : b = P[k] \o r
                      /\ f[Len(P[k])] = SubSeq(topics, k + 1, n)
             Good == {j \in Nat : j <= n => OK(n - j)}
  <1>6. OK(n)
    <2>1. <<>> \in Bytes /\ b \o <<>> = b
      BY <1>4, ConcatEmptySeq DEF Bytes
    <2>2. f[Len(b)] = <<>>
      <3>1. Len(b) \in Nat
        BY <1>4, BytesAre
      <3>2. Len(b) \in 0 .. Len(b) /\ Len(b) + 2 > Len(b)
        BY <3>1
      <3> QED BY <1>5, <3>2 DEF TopicsAt
    <2>3. SubSeq(topics, n + 1, n) = <<>>
      BY <1>1, SubSeqEmpty
    <2> QED BY <2>1, <2>2, <2>3 DEF b
  <1>7. ASSUME NEW j \in Nat, j \in Good PROVE j + 1 \in Good
    <2> SUFFICES ASSUME j + 1 <= n PROVE OK(n - (j + 1))
      OBVIOUS
    <2> DEFINE k == n - j
    <2>1. k \in 1 .. n /\ n - (j + 1) = k - 1 /\ k - 1 \in 0 .. n /\ OK(k)
      <3>1. j \in Nat /\ n \in Nat /\ j <= n /\ n - j \in 1 .. n
        BY <1>1
      <3>2. n - (j + 1) = n - j - 1 /\ (n - j) - 1 \in 0 .. n
        BY <3>1
      <3>3. OK(n - j)
        <4>1. j <= n => OK(n - j)
          <5> HIDE DEF OK
          <5> QED BY <1>7
        <4> QED BY <3>1, <4>1
      <3> QED BY <3>1, <3>2, <3>3
    <2>2. topics[k] \in Strings /\ P[k] = P[k - 1] \o e(k) /\ P[k - 1] \in Bytes
      BY <1>1, <1>3, <2>1
    <2> HIDE DEF k
    <2>12. PICK t \in Strings : t = topics[k]
      BY <2>2
    <2>3. PICK r \in Bytes : b = (P[k - 1] \o e(k)) \o r
      BY <2>1, <2>2
    <2>4. \E s \in Bytes : b = P[k - 1] \o s
      <3>1. PICK x : x \in Bytes /\ x = e(k)
        BY <1>2, <2>2, TopicPartIs
      <3>2. Assoc(P[k - 1], x, r)
        BY <2>2, <3>1, BytesAssoc
      <3>3. b = P[k - 1] \o (x \o r) /\ x \o r \in Bytes
        BY <2>3, <3>1, <3>2, BytesJoin DEF Assoc
      <3> QED BY <3>3
    <2>5. f[Len(P[k - 1])] = <<t>> \o f[Len(P[k - 1] \o e(k))]
      <3>0. t \in Strings
        OBVIOUS
      <3>1. Looped(b, f)
        BY <1>5 DEF Looped
      <3>2. PICK x : x \in Bytes /\ x = P[k - 1]
        BY <2>2
      <3>3. Between(b, x, TopicPart(t, qos), r)
        BY <1>2, <2>3, <2>12, <3>0, <3>2, TopicPartIs DEF Between
      <3>4. Reads(f, x, t, qos)
        BY <1>2, <3>0, <3>1, <3>3, TopicsStep
      <3> QED BY <2>12, <3>2, <3>4 DEF Reads
    <2>6. f[Len(P[k])] = SubSeq(topics, k + 1, n)
      BY <2>1
    <2>7. SubSeq(topics, k, n) = <<t>> \o SubSeq(topics, k + 1, n)
      <3>1. k \in 1 .. Len(topics) /\ n \in k .. Len(topics)
        BY <1>1, <2>1 DEF n
      <3> QED BY <2>12, <3>1, SubSeqRecursiveFirst
    <2>8. f[Len(P[k - 1])] = SubSeq(topics, k, n)
      BY <2>2, <2>5, <2>6, <2>7
    <2>9. (k - 1) + 1 = k
      BY <1>1, <2>1
    <2> QED BY <2>1, <2>4, <2>8, <2>9
  <1>8. OK(0)
    <2>1. 0 \in Good
      <3>1. n - 0 = n
        BY <1>1
      <3> QED BY <1>6, <3>1
    <2> HIDE DEF Good, OK
    <2>2. n \in Good
      BY <1>1, <1>7, <2>1, NatInductionOn
    <2>3. n <= n /\ n - n = 0
      BY <1>1
    <2> QED BY <2>2, <2>3 DEF Good
  <1>9. PICK r \in Bytes : b = H \o r
    BY <1>3, <1>8
  <1>10. f[3] = topics
    <2>1. SubSeq(topics, 0 + 1, n) = topics
      BY SubSeqFull DEF n
    <2> QED BY <1>3, <1>8, <2>1
  <1>11. GetU16(b, 1) = id
    <2> DEFINE u == PutU16(id)
               o == <<0>>
    <2>1. u \in Bytes /\ \A x, z \in Bytes : GetU16((x \o u) \o z, Len(x) + 1) = id
      BY U16Read
    <2>2. o \in Bytes
      <3>1. 0 \in Byte
        BY InByte
      <3> QED BY <3>1 DEF Bytes
    <2> HIDE DEF u, o
    <2>3. Assoc(u, o, r)
      BY <2>1, <2>2, BytesAssoc
    <2>4. b = u \o (o \o r) /\ o \o r \in Bytes
      BY <1>3, <1>9, <2>2, <2>3, BytesJoin DEF Assoc, u, o
    <2>5. <<>> \in Bytes /\ <<>> \o u = u /\ Len(<<>>) + 1 = 1
      BY <2>1, ConcatEmptySeq DEF Bytes
    <2>6. GetU16((<<>> \o u) \o (o \o r), Len(<<>>) + 1) = id
      BY <2>1, <2>4, <2>5
    <2> QED BY <2>4, <2>5, <2>6
  <1>12. b[Len(b)] % 4 = qos
    <2> DEFINE s == PutString(topics[n])
               q == <<qos>>
    <2>1. n \in 1 .. n /\ n - 1 \in 0 .. n
      BY <1>1
    <2>2. topics[n] \in Strings /\ P[n - 1] \in Bytes
      BY <1>1, <1>3, <2>1
    <2>3. s \in Bytes /\ q \in Bytes /\ Len(q) = 1 /\ q[1] = qos
      BY <1>2, <2>2, StringRead, TopicPartIs
    <2>4. b = P[n - 1] \o (s \o q)
      BY <1>3, <2>1 DEF b, TopicPart
    <2> HIDE DEF s, q
    <2>5. PICK x : x \in Bytes /\ x = P[n - 1] \o s
      BY <2>2, <2>3, BytesJoin
    <2>6. Assoc(P[n - 1], s, q)
      BY <2>2, <2>3, BytesAssoc
    <2>7. b = x \o q /\ Len(b) = Len(x) + 1
      <3>1. b = x \o q
        BY <2>4, <2>5, <2>6 DEF Assoc
      <3>2. Len(x \o q) = Len(x) + Len(q)
        BY <2>3, <2>5, BytesJoin
      <3> QED BY <2>3, <3>1, <3>2
    <2>8. <<>> \in Bytes /\ b \o <<>> = b
      BY <1>4, ConcatEmptySeq DEF Bytes
    <2>9. 1 \in 1 .. Len(q)
      BY <2>3
    <2>10. ((x \o q) \o <<>>)[Len(x) + 1] = q[1]
      <3>1. x \in Bytes /\ q \in Bytes /\ <<>> \in Bytes
        BY <2>3, <2>5, <2>8
      <3>2. \A k \in 1 .. Len(q) : ((x \o q) \o <<>>)[Len(x) + k] = q[k]
        BY <3>1, BytesAt
      <3> QED BY <2>9, <3>2
    <2>11. b[Len(b)] = qos
      BY <2>3, <2>7, <2>8, <2>10
    <2>12. qos % 4 = qos
      <3>1. qos \in 0 .. 3
        BY ByteIs
      <3> QED BY <3>1, SMT
    <2> QED BY <2>11, <2>12
  <1>13. ParseSubscribe(p) = [packetId |-> id, topics |-> topics, qos |-> qos]
    BY <1>5, <1>10, <1>11, <1>12
  <1> QED BY <1>13 DEF p

-----------------------------------------------------------------------------
(* The encoders make control packets.                                      *)

\* The numbers, whatever they are.
LEMMA ShortNumbers ==
  ASSUME NEW v \in Nat
  PROVE  Short(PutU16(v), 2) /\ Short(PutU32(v), 4) /\ Short(PutI64(v), 8) /\ Short(PutVarInt(v), 5)
  <1>1. PICK c \in Byte, d \in Byte, e \in Byte, f \in Byte :
          /\ c = (v \div 16777216) % 256 /\ d = (v \div 65536) % 256
          /\ e = (v \div 256) % 256 /\ f = v % 256
    BY ByteOf, SMT
  <1>2. PutU16(v) = <<e, f>> /\ PutU32(v) = <<c, d, e, f>>
    BY <1>1, SMT DEF PutU16, PutU32
  <1>3. Short(PutU16(v), 2)
    BY <1>2, ShortBytes
  <1>5. Short(PutU32(v), 4)
    BY <1>2, ShortFour
  <1>6. Short(PutI64(v), 8)
    <2>1. Short(<<0, 0, 0, 0>>, 4)
      <3>1. 0 \in Byte
        BY InByte
      <3> QED BY <3>1, ShortFour
    <2>2. 4 + 4 <= 8
      OBVIOUS
    <2> QED BY <1>5, <2>1, <2>2, ShortJoin DEF PutI64
  <1>7. Short(PutVarInt(v), 5)
    <2>1. /\ VarIntSize(v) \in 1 .. 5 /\ PutVarInt(v) \in Bytes
          /\ Len(PutVarInt(v)) = VarIntSize(v)
      BY PutVarIntIs
    <2> QED BY <2>1 DEF Short
  <1> QED BY <1>3, <1>5, <1>6, <1>7

\* A string takes two bytes more than it has.
LEMMA ShortString ==
  ASSUME NEW s, NEW n \in Nat, Short(s, n)
  PROVE  Short(PutString(s), n + 2)
  <1>1. Len(s) \in Nat
    BY BytesAre DEF Short
  <1>2. Short(PutU16(Len(s)), 2)
    BY <1>1, ShortNumbers
  <1>3. n + 2 \in Nat /\ 2 + n <= n + 2
    OBVIOUS
  <1> QED BY <1>2, <1>3, ShortJoin DEF PutString

\* A packet whose body is short enough.
LEMMA ShortPacket ==
  ASSUME NEW type \in 0 .. 15, NEW flags \in 0 .. 15, NEW b, NEW n \in Nat,
         Short(b, n), n < Place[5]
  PROVE  Packet(type, flags, b) \in ControlPackets
  <1>1. b \in Bytes /\ Len(b) <= n /\ Len(b) \in Nat
    BY BytesAre DEF Short
  <1>2. Place[5] \in Int
    BY SMT DEF Place
  <1>3. Len(b) < Place[5]
    BY <1>1, <1>2
  <1> QED BY <1>1, <1>3 DEF Packet, ControlPackets

\* 1000 bytes can be the length of a packet.
LEMMA Fits ==
  1000 < Place[5]
  BY SMT DEF Place

\* CONNECT is a control packet, and so are the acknowledgements.
LEMMA ConnectPacket ==
  ASSUME NEW id, Short(id, 100)
  PROVE  EncodeConnect(id) \in ControlPackets
  <1>0. 77 \in Byte /\ 81 \in Byte /\ 84 \in Byte /\ 5 \in Byte /\ 2 \in Byte
    BY InByte
  <1>1. Short(PutString(<<77, 81, 84, 84>>), 6)
    <2>1. Short(<<77, 81, 84, 84>>, 4)
      BY <1>0, ShortFour
    <2> QED BY <2>1, ShortString
  <1> DEFINE a == PutString(<<77, 81, 84, 84>>)
             b == a \o <<5, 2>>
             c == b \o PutU16(0)
             d == c \o PutVarInt(0)
             e == d \o PutString(id)
  <1>2. Short(b, 8)
    <2>1. Short(<<5, 2>>, 2)
      BY <1>0, ShortBytes
    <2> QED BY <1>1, <2>1, ShortJoin
  <1> HIDE DEF b
  <1>3. Short(c, 10)
    <2>1. Short(PutU16(0), 2)
      BY ShortNumbers
    <2> QED BY <1>2, <2>1, ShortJoin
  <1> HIDE DEF c
  <1>4. Short(d, 15)
    <2>1. Short(PutVarInt(0), 5)
      BY ShortNumbers
    <2> QED BY <1>3, <2>1, ShortJoin
  <1> HIDE DEF d
  <1>5. Short(e, 117)
    <2>1. Short(PutString(id), 102)
      BY ShortString
    <2> QED BY <1>4, <2>1, ShortJoin
  <1>6. e \in Bytes /\ Short(e, 1000)
    BY <1>5, BytesAre DEF Short
  <1>7. EncodeConnect(id) = Packet(1, 0, e)
    BY DEF EncodeConnect, CONNECT, b, c, d
  <1> HIDE DEF e
  <1> QED BY <1>6, <1>7, Fits, ShortPacket

LEMMA AckPackets ==
  ASSUME NEW id \in Nat, NEW n \in 0 .. 100, NEW qos \in Byte
  PROVE  /\ EncodeConnack \in ControlPackets /\ EncodePuback(id) \in ControlPackets
         /\ EncodeSuback(id, n, qos) \in ControlPackets
  <1>0. 0 \in Byte
    BY InByte
  <1>1. Short(PutU16(id), 2) /\ Short(<<0>>, 1) /\ Short(<<0, 0>>, 2) /\ Short(<<0, 0, 0>>, 3)
    BY <1>0, ShortNumbers, ShortBytes
  <1>2. ASSUME NEW b, NEW k \in 0 .. 1000, Short(b, k) PROVE Short(b, 1000)
    <2>1. b \in Bytes /\ Len(b) <= k /\ Len(b) \in Nat
      BY <1>2, BytesAre DEF Short
    <2> QED BY <2>1 DEF Short
  <1>3. EncodeConnack \in ControlPackets
    <2>1. Short(<<0, 0, 0>>, 1000)
      BY <1>1, <1>2
    <2> QED BY <2>1, Fits, ShortPacket DEF EncodeConnack, CONNACK
  <1>4. EncodePuback(id) \in ControlPackets
    <2> DEFINE b == PutU16(id) \o <<0, 0>>
    <2>1. Short(b, 4)
      BY <1>1, ShortJoin
    <2> HIDE DEF b
    <2>2. Short(b, 1000)
      BY <1>2, <2>1
    <2>3. EncodePuback(id) = Packet(4, 0, b)
      BY DEF EncodePuback, PUBACK, b
    <2> QED BY <2>2, <2>3, Fits, ShortPacket
  <1>5. EncodeSuback(id, n, qos) \in ControlPackets
    <2> DEFINE a == PutU16(id) \o <<0>>
               z == [i \in 1 .. n |-> qos]
               b == a \o z
    <2>1. Short(a, 3)
      BY <1>1, ShortJoin
    <2>2. Short(z, 100)
      <3>1. z \in Bytes /\ Len(z) = n
        BY BytesOf
      <3> QED BY <3>1 DEF Short
    <2> HIDE DEF a, z
    <2>3. Short(b, 103)
      BY <2>1, <2>2, ShortJoin
    <2> HIDE DEF b
    <2>4. Short(b, 1000)
      BY <1>2, <2>3
    <2>5. EncodeSuback(id, n, qos) = Packet(9, 0, b)
      BY DEF EncodeSuback, SUBACK, a, b, z
    <2> QED BY <2>4, <2>5, Fits, ShortPacket
  <1> QED BY <1>3, <1>4, <1>5

\* A PUBLISH of a short topic and payload, whatever its numbers are.
LEMMA PublishPacket ==
  ASSUME NEW m, Short(m.topic, 100), m.qos \in 0 .. 3, m.packetId \in Nat, m.expiry \in Nat,
         m.creationTime \in Nat, m.sequence \in Nat, m.payloadLength \in 0 .. 500
  PROVE  EncodePublish(m) \in ControlPackets
  <1>0. MESSAGE_EXPIRY_INTERVAL \in Byte
    BY InByte DEF MESSAGE_EXPIRY_INTERVAL
  <1>1. PICK T : Short(T, 102) /\ T = PutString(m.topic)
    BY ShortString
  <1>2. PICK I : Short(I, 2) /\ I = IF m.qos > 0 THEN PutU16(m.packetId) ELSE <<>>
    <2>1. Short(<<>>, 2)
      BY ShortEmpty
    <2> QED BY <2>1, ShortNumbers
  <1>3. PICK W :
          /\ Short(W, 5)
          /\ W = IF m.expiry > 0 THEN <<MESSAGE_EXPIRY_INTERVAL>> \o PutU32(m.expiry) ELSE <<>>
    <2>1. Short(<<>>, 5)
      BY ShortEmpty
    <2>2. Short(<<MESSAGE_EXPIRY_INTERVAL>>, 1) /\ Short(PutU32(m.expiry), 4)
      BY <1>0, ShortBytes, ShortNumbers
    <2>3. Short(<<MESSAGE_EXPIRY_INTERVAL>> \o PutU32(m.expiry), 5)
      BY <2>2, ShortJoin
    <2> QED BY <2>1, <2>3
  <1>4. PICK V : Short(V, 5) /\ V = PutVarInt(Len(W))
    <2>1. Len(W) \in Nat
      BY <1>3, BytesAre DEF Short
    <2> QED BY <2>1, ShortNumbers
  <1>5. PICK C, Q : /\ Short(C, 8) /\ C = PutI64(m.creationTime)
                    /\ Short(Q, 8) /\ Q = PutI64(m.sequence)
    BY ShortNumbers
  <1>6. PICK Z : Short(Z, 500) /\ Z = [i \in 1 .. m.payloadLength |-> 0]
    <2>1. 0 \in Byte /\ m.payloadLength \in Nat
      BY InByte
    <2>2. /\ [i \in 1 .. m.payloadLength |-> 0] \in Bytes
          /\ Len([i \in 1 .. m.payloadLength |-> 0]) = m.payloadLength
      BY <2>1, BytesOf
    <2>3. m.payloadLength <= 500
      OBVIOUS
    <2> DEFINE z == [i \in 1 .. m.payloadLength |-> 0]
    <2>4. z \in Bytes /\ Len(z) <= 500
      BY <2>2, <2>3
    <2> HIDE DEF z
    <2>5. Short(z, 500)
      BY <2>4 DEF Short
    <2> QED BY <2>5 DEF z
  <1>7. PICK P2 : Short(P2, 104) /\ P2 = T \o I
    <2>1. Short(T \o I, 104)
      BY <1>1, <1>2, ShortJoin
    <2> QED BY <2>1
  <1>8. PICK P3 : Short(P3, 109) /\ P3 = P2 \o V
    <2>1. Short(P2 \o V, 109)
      BY <1>4, <1>7, ShortJoin
    <2> QED BY <2>1
  <1>9. PICK P4 : Short(P4, 114) /\ P4 = P3 \o W
    <2>1. Short(P3 \o W, 114)
      BY <1>3, <1>8, ShortJoin
    <2> QED BY <2>1
  <1>10. PICK P5 : Short(P5, 122) /\ P5 = P4 \o C
    <2>1. Short(P4 \o C, 122)
      BY <1>5, <1>9, ShortJoin
    <2> QED BY <2>1
  <1>11. PICK P6 : Short(P6, 130) /\ P6 = P5 \o Q
    <2>1. Short(P5 \o Q, 130)
      BY <1>5, <1>10, ShortJoin
    <2> QED BY <2>1
  <1>12. PICK b : Short(b, 630) /\ b = P6 \o Z
    <2>1. Short(P6 \o Z, 630)
      BY <1>6, <1>11, ShortJoin
    <2> QED BY <2>1
  <1>13. EncodePublish(m) = Packet(PUBLISH, m.qos * 2, b)
    <2>1. b = (((((T \o I) \o V) \o W) \o C) \o Q) \o Z
      BY <1>7, <1>8, <1>9, <1>10, <1>11, <1>12
    <2>2. EncodePublish(m) =
            Packet(PUBLISH, m.qos * 2,
                   (((((T \o I) \o PutVarInt(Len(W))) \o W) \o C) \o Q) \o Z)
      BY <1>1, <1>2, <1>3, <1>5, <1>6 DEF EncodePublish
    <2> QED BY <1>4, <2>1, <2>2
  <1>14. PUBLISH \in 0 .. 15 /\ m.qos * 2 \in 0 .. 15
    BY DEF PUBLISH
  <1>15. Short(b, 1000)
    BY <1>12, ShortWithin
  <1> QED BY <1>13, <1>14, <1>15, Fits, ShortPacket

\* A SUBSCRIBE of at most two topics.
LEMMA SubscribePacket ==
  ASSUME NEW id \in Numbers16, NEW topics \in Seq(Strings), NEW qos \in Byte,
         Len(topics) <= 2, \A i \in 1 .. Len(topics) : Short(topics[i], 100)
  PROVE  EncodeSubscribe(id, topics, qos) \in ControlPackets
  <1>1. CASE topics = <<>>
    <2> DEFINE H == PutU16(id) \o <<0>>
               E == [i \in DOMAIN topics |-> PutString(topics[i]) \o <<qos>>]
    <2>1. Short(H, 3)
      <3>1. id \in Nat /\ 0 \in Byte
        BY InByte, SMT DEF Numbers16
      <3>2. Short(PutU16(id), 2) /\ Short(<<0>>, 1)
        BY <3>1, ShortNumbers, ShortBytes
      <3> QED BY <3>2, ShortJoin
    <2>2. E = <<>>
      BY <1>1
    <2>3. FlattenSeq(<<>>) = <<>>
      BY DEF FlattenSeq
    <2>4. EncodeSubscribe(id, topics, qos) = Packet(SUBSCRIBE, 2, H \o FlattenSeq(E))
      BY DEF EncodeSubscribe
    <2> HIDE DEF H, E
    <2>5. H \o <<>> = H
      BY <2>1, ConcatEmptySeq DEF Short, Bytes
    <2>6. Short(H, 1000)
      BY <2>1, ShortWithin
    <2>7. EncodeSubscribe(id, topics, qos) = Packet(8, 2, H)
      BY <2>2, <2>3, <2>4, <2>5 DEF SUBSCRIBE
    <2> QED BY <2>6, <2>7, Fits, ShortPacket
  <1>2. CASE topics # <<>>
    <2> DEFINE n == Len(topics)
    <2>1. PICK H, P :
            /\ H \in Bytes /\ H = PutU16(id) \o <<0>> /\ Len(H) = 3
            /\ P[0] = H /\ \A i \in 0 .. n : P[i] \in Bytes
            /\ \A i \in 1 .. n : P[i] = P[i - 1] \o TopicPart(topics[i], qos)
            /\ EncodeSubscribe(id, topics, qos) = Packet(SUBSCRIBE, 2, P[n])
      BY <1>2, SubscribeBody
    <2>2. n \in 1 .. 2 /\ \A i \in 1 .. n : topics[i] \in Strings
      <3>1. Len(topics) \in Nat /\ Len(topics) # 0 /\ DOMAIN topics = 1 .. Len(topics)
        BY <1>2, LenProperties, EmptySeq
      <3> QED BY <3>1
    <2>3. \A i \in 1 .. n : Short(TopicPart(topics[i], qos), 103)
      <3> SUFFICES ASSUME NEW i \in 1 .. n PROVE Short(TopicPart(topics[i], qos), 103)
        OBVIOUS
      <3>1. topics[i] \in Strings /\ Short(topics[i], 100)
        BY <2>2
      <3>2. /\ TopicPart(topics[i], qos) \in Bytes
            /\ Len(TopicPart(topics[i], qos)) = 3 + Len(topics[i])
        BY <3>1, TopicPartIs
      <3>3. Len(topics[i]) \in Nat /\ Len(topics[i]) <= 100
        BY <3>1, BytesAre DEF Short
      <3> QED BY <3>2, <3>3 DEF Short
    <2> HIDE DEF n
    <2>4. Short(P[0], 3)
      BY <2>1 DEF Short
    <2>5. Short(P[1], 106)
      <3>1. 1 \in 1 .. n /\ 1 - 1 = 0
        BY <2>2
      <3>2. P[1] = P[0] \o TopicPart(topics[1], qos) /\ Short(TopicPart(topics[1], qos), 103)
        BY <2>1, <2>3, <3>1
      <3> QED BY <2>4, <3>2, ShortJoin
    <2>6. n = 2 => Short(P[2], 209)
      <3> SUFFICES ASSUME n = 2 PROVE Short(P[2], 209)
        OBVIOUS
      <3>1. 2 \in 1 .. n /\ 2 - 1 = 1
        BY <2>2
      <3>2. P[2] = P[1] \o TopicPart(topics[2], qos) /\ Short(TopicPart(topics[2], qos), 103)
        BY <2>1, <2>3, <3>1
      <3> QED BY <2>5, <3>2, ShortJoin
    <2>7. Short(P[n], 1000)
      <3>1. CASE n = 1
        BY <2>5, <3>1, ShortWithin
      <3>2. CASE n = 2
        BY <2>6, <3>2, ShortWithin
      <3> QED BY <2>2, <3>1, <3>2
    <2>8. EncodeSubscribe(id, topics, qos) = Packet(8, 2, P[n])
      BY <2>1 DEF SUBSCRIBE
    <2> QED BY <2>7, <2>8, Fits, ShortPacket
  <1> QED BY <1>1, <1>2

-----------------------------------------------------------------------------
(* The properties of MqttFraming.                                          *)

\* The lengths of LengthsInvert fit a packet.
LEMMA BoundariesFit == \A v \in Boundaries : v \in Nat /\ v < Place[5]
  BY SMT DEF Boundaries, Place

\* A fifth byte is not read.
LEMMA FifthByte ==
  ASSUME NEW w \in Nat, w >= Place[5]
  PROVE  ~GetVarInt(PutVarInt(w)).ok
  <1> DEFINE n == VarIntSize(w)
             b == PutVarInt(w)
  <1>1. n \in 1 .. 5 /\ b \in Bytes /\ Len(b) = n
    BY PutVarIntIs
  <1>2. n \in 0 .. n
    BY <1>1
  <1>3. ~GetVarInt(SubSeq(b, 1, n)).ok
    BY <1>2, VarIntUnread
  <1> HIDE DEF b, n
  <1>4. SubSeq(b, 1, n) = b
    BY <1>1, SubSeqFull DEF Bytes
  <1> QED BY <1>3, <1>4 DEF b

\* The three properties, of the samples they name.
LEMMA LengthsAlwaysInvert == LengthsInvert
  <1>1. ASSUME NEW v \in Nat, v < Place[5]
        PROVE  /\ GetVarInt(PutVarInt(v)) = [ok |-> TRUE, out |-> v, used |-> VarIntSize(v)]
               /\ \A n \in 0 .. VarIntSize(v) - 1 : ~GetVarInt(SubSeq(PutVarInt(v), 1, n)).ok
    <2> DEFINE b == PutVarInt(v)
    <2>1. b \in Bytes /\ VarIntSize(v) \in 1 .. 5
      BY <1>1, PutVarIntIs
    <2>2. <<>> \in Bytes /\ b \o <<>> = b
      BY <2>1, ConcatEmptySeq DEF Bytes
    <2>3. GetVarInt(b \o <<>>) = [ok |-> TRUE, used |-> VarIntSize(v), out |-> v]
      BY <1>1, <2>2, VarIntRead
    <2>4. ASSUME NEW n \in 0 .. VarIntSize(v) - 1 PROVE ~GetVarInt(SubSeq(b, 1, n)).ok
      <3>1. n \in 0 .. VarIntSize(v) /\ n < VarIntSize(v)
        BY <2>1
      <3> QED BY <1>1, <3>1, VarIntUnread
    <2> QED BY <2>2, <2>3, <2>4
  <1>2. PICK w \in Nat : w = 268435456 /\ w >= Place[5]
    BY SMT DEF Place
  <1>3. ~GetVarInt(PutVarInt(268435456)).ok
    BY <1>2, FifthByte, SMT
  <1> QED BY <1>1, <1>3, BoundariesFit, SMT DEF LengthsInvert

\* The strings, numbers and messages of the samples.
LEMMA ShortIsString ==
  ASSUME NEW b, Short(b, 100)
  PROVE  b \in Strings
  <1>1. \A n \in Nat : n <= 100 => n \in Numbers16
    BY SMT DEF Numbers16
  <1>2. b \in Bytes /\ Len(b) \in Nat /\ Len(b) <= 100
    BY BytesAre DEF Short
  <1>3. Len(b) \in Numbers16
    BY <1>1, <1>2
  <1> QED BY <1>2, <1>3 DEF Strings

LEMMA SampleParts ==
  /\ Topic1 \in Strings /\ <<>> \in Strings /\ <<1>> \in Strings
  /\ Short(Topic1, 100) /\ Short(<<>>, 100) /\ Short(<<1>>, 100)
  <1>1. 118 \in Byte /\ 47 \in Byte /\ 98 \in Byte /\ 1 \in Byte
    BY InByte
  <1>3. Short(Topic1, 3) /\ Short(<<>>, 0) /\ Short(<<1>>, 1)
    BY <1>1, ShortBytes DEF Topic1
  <1>4. \A b : Short(b, 100) => b \in Strings
    BY ShortIsString
  <1>5. Short(Topic1, 100) /\ Short(<<>>, 100) /\ Short(<<1>>, 100)
    BY <1>3, ShortWithin
  <1> QED BY <1>4, <1>5

LEMMA SampleNumbers ==
  /\ {0, 256, 65535} \subseteq Numbers16 /\ 258 \in Numbers16
  /\ {0, 1, 65536} \subseteq Numbers32 /\ {0, 70000} \subseteq Numbers32
  /\ {0, 255, 256} \subseteq Numbers32
  BY SMT DEF Numbers16, Numbers32

LEMMA SamplesPublish == SampleMessages \subseteq Publishable
  <1>2. {Topic1, <<>>} \subseteq Strings
    BY SampleParts
  <1>3. {0, 1} \subseteq 0 .. 3 /\ {0, 1, 130} \subseteq Nat
    OBVIOUS
  <1> DEFINE A == {Topic1, <<>>}
             B == {0, 1}
             C == {0, 256, 65535}
             D == {0, 1, 65536}
             E == {0, 70000}
             F == {0, 255, 256}
             G == {0, 1, 130}
  <1>4. SampleMessages = [topic : A, qos : B, packetId : C, expiry : D, creationTime : E,
                          sequence : F, payloadLength : G]
    BY DEF SampleMessages
  <1>5. /\ A \subseteq Strings /\ B \subseteq 0 .. 3 /\ C \subseteq Numbers16
        /\ D \subseteq Numbers32 /\ E \subseteq Numbers32 /\ F \subseteq Numbers32
        /\ G \subseteq Nat
    BY <1>2, <1>3, SampleNumbers, SMT
  <1> HIDE DEF A, B, C, D, E, F, G
  <1>6. [topic : A, qos : B, packetId : C, expiry : D, creationTime : E, sequence : F,
         payloadLength : G] \subseteq Publishable
    BY <1>5 DEF Publishable
  <1> QED BY <1>4, <1>6

LEMMA BodiesAlwaysInvert == BodiesInvert
  <1>1. \A m \in SampleMessages : ParsePublish(EncodePublish(m)) = Sent(m)
    BY SamplesPublish, PublishRead
  <1>2. \A topics \in {<<Topic1>>, <<Topic1, <<1>>, Topic1>>}, q \in {0, 1} :
          ParseSubscribe(EncodeSubscribe(258, topics, q)) =
            [packetId |-> 258, topics |-> topics, qos |-> q]
    <2> TAKE topics \in {<<Topic1>>, <<Topic1, <<1>>, Topic1>>}, q \in {0, 1}
    <2>1. \A t, u \in Strings : /\ <<t>> \in Seq(Strings) /\ <<t, u, t>> \in Seq(Strings)
                                /\ <<t>> # <<>> /\ <<t, u, t>> # <<>>
      OBVIOUS
    <2>2. topics \in Seq(Strings) /\ topics # <<>>
      BY <2>1, SampleParts
    <2>3. q \in Byte /\ q <= 3
      BY InByte
    <2> QED BY <2>2, <2>3, SampleNumbers, SubscribeRead
  <1> QED BY <1>1, <1>2 DEF BodiesInvert

\* The packets of CutsDoNotMatter.
LEMMA SamplePackets ==
  ASSUME NEW m, m = [topic |-> Topic1, qos |-> 1, packetId |-> 300, expiry |-> 2,
                     creationTime |-> 5, sequence |-> 7, payloadLength |-> 101]
  PROVE  /\ EncodeConnect(<<1, 2>>) \in ControlPackets
         /\ EncodeSubscribe(1, <<Topic1>>, 0) \in ControlPackets
         /\ EncodePublish(m) \in ControlPackets /\ EncodePuback(300) \in ControlPackets
         /\ EncodeConnack \in ControlPackets /\ EncodeSuback(1, 1, 1) \in ControlPackets
  <1>1. EncodeConnect(<<1, 2>>) \in ControlPackets
    <2>1. 1 \in Byte /\ 2 \in Byte
      BY InByte
    <2>2. Short(<<1, 2>>, 2)
      BY <2>1, ShortBytes
    <2>3. Short(<<1, 2>>, 100)
      BY <2>2, ShortWithin
    <2> QED BY <2>3, ConnectPacket
  <1>2. EncodeSubscribe(1, <<Topic1>>, 0) \in ControlPackets
    <2>1. 1 \in Numbers16 /\ 0 \in Byte
      BY InByte DEF Numbers16
    <2> DEFINE topics == <<Topic1>>
    <2>2. topics \in Seq(Strings) /\ Len(topics) = 1 /\ topics[1] = Topic1
      BY SampleParts
    <2> HIDE DEF topics
    <2>3. \A i \in 1 .. Len(topics) : Short(topics[i], 100)
      BY <2>2, SampleParts
    <2>4. Len(topics) <= 2
      BY <2>2
    <2>5. EncodeSubscribe(1, topics, 0) \in ControlPackets
      BY <2>1, <2>2, <2>3, <2>4, SubscribePacket
    <2> QED BY <2>5 DEF topics
  <1>3. EncodePublish(m) \in ControlPackets
    <2>1. /\ m.topic = Topic1 /\ m.qos \in 0 .. 3 /\ m.packetId \in Nat /\ m.expiry \in Nat
          /\ m.creationTime \in Nat /\ m.sequence \in Nat /\ m.payloadLength \in 0 .. 500
      BY SMT
    <2>2. Short(m.topic, 100)
      BY <2>1, SampleParts
    <2> QED BY <2>1, <2>2, PublishPacket
  <1>4. 300 \in Nat /\ 1 \in Nat /\ 1 \in 0 .. 100 /\ 1 \in Byte
    BY InByte
  <1> QED BY <1>1, <1>2, <1>3, <1>4, AckPackets

LEMMA CutsNeverMatter == CutsDoNotMatter
  <1> DEFINE m     == [topic |-> Topic1, qos |-> 1, packetId |-> 300, expiry |-> 2,
                       creationTime |-> 5, sequence |-> 7, payloadLength |-> 101]
             ps    == <<EncodeConnect(<<1, 2>>), EncodeSubscribe(1, <<Topic1>>, 0),
                        EncodePublish(m), EncodePuback(300), EncodeConnack,
                        EncodeSuback(1, 1, 1)>>
             bytes == FlattenSeq([i \in DOMAIN ps |-> Frame(ps[i])])
  <1>2. ps \in Seq(ControlPackets)
    <2>1. \A a, b, c, d, e, f \in ControlPackets : <<a, b, c, d, e, f>> \in Seq(ControlPackets)
      OBVIOUS
    <2>2. PICK l : l = m
      OBVIOUS
    <2>3. l = [topic |-> Topic1, qos |-> 1, packetId |-> 300, expiry |-> 2,
               creationTime |-> 5, sequence |-> 7, payloadLength |-> 101]
      BY <2>2
    <2> HIDE DEF m
    <2> QED BY <2>1, <2>2, <2>3, SamplePackets
  <1> HIDE DEF ps
  <1>3. bytes \in Bytes
    BY <1>2, FramesRead
  <1>4. \A k \in 0 .. Len(bytes) :
          LET first == Received(<<>>, SubSeq(bytes, 1, k))
              rest  == Received(first.buffer, SubSeq(bytes, k + 1, Len(bytes)))
          IN  first.frames \o rest.frames = ps /\ rest.buffer = <<>>
    <2> SUFFICES ASSUME NEW k \in 0 .. Len(bytes)
                 PROVE  LET first == Received(<<>>, SubSeq(bytes, 1, k))
                            rest  == Received(first.buffer, SubSeq(bytes, k + 1, Len(bytes)))
                        IN  first.frames \o rest.frames = ps /\ rest.buffer = <<>>
      OBVIOUS
    <2>1. k \in Nat /\ k <= Len(bytes)
      <3>1. Len(bytes) \in Nat
        BY <1>3, BytesAre
      <3> HIDE DEF bytes
      <3> QED BY <3>1
    <2> QED BY <1>2, <2>1, FramesCut
  <1> QED BY <1>4 DEF CutsDoNotMatter, ps

-----------------------------------------------------------------------------
(* The streams of MqttBroker.                                              *)

\* The topics of a SUBSCRIBE are at most two short strings.
LEMMA NamesAre ==
  ASSUME NEW c
  PROVE  /\ Names(c) \in Seq(Strings) /\ Len(Names(c)) \in 0 .. 2
         /\ \A i \in 1 .. Len(Names(c)) : Short(Names(c)[i], 100)
  <1> DEFINE a == <<98>>
             b == <<112, 99>>
             S == {Name(t) : t \in Filters[c]}
             n == Cardinality(S)
             f == SetToSeq(S)
  <1>1. Short(a, 100) /\ Short(b, 100)
    <2>1. 98 \in Byte /\ 112 \in Byte /\ 99 \in Byte
      BY InByte
    <2>2. Short(a, 1) /\ Short(b, 2)
      BY <2>1, ShortBytes
    <2> HIDE DEF a, b
    <2> QED BY <2>2, ShortWithin
  <1>2. S \subseteq {a, b}
    BY DEF Name
  <1> HIDE DEF a, b, S
  <1>3. IsFiniteSet(S) /\ n \in 0 .. 2
    <2>1. IsFiniteSet({b}) /\ Cardinality({b}) = 1
      BY FS_Singleton
    <2>3. IsFiniteSet({a, b}) /\ Cardinality({a, b}) \in Nat /\ Cardinality({a, b}) <= 2
      <3> DEFINE R == {b}
      <3>1. IsFiniteSet(R) /\ Cardinality(R) = 1
        BY <2>1
      <3>2. {a, b} = R \cup {a}
        OBVIOUS
      <3> HIDE DEF R
      <3>3. /\ IsFiniteSet(R \cup {a})
            /\ Cardinality(R \cup {a}) = IF a \in R THEN Cardinality(R) ELSE Cardinality(R) + 1
        BY <3>1, FS_AddElement
      <3> QED BY <3>1, <3>2, <3>3
    <2>4. IsFiniteSet(S) /\ Cardinality(S) <= Cardinality({a, b})
      BY <1>2, <2>3, FS_Subset
    <2>5. Cardinality(S) \in Nat
      BY <2>4, FS_CardinalityType
    <2> QED BY <2>3, <2>4, <2>5
  <1>4. \E g \in [1 .. n -> S] : IsInjective(g)
    <2>1. ExistsBijection(1 .. n, S)
      BY <1>3, FS_CardinalityType
    <2> QED BY <2>1 DEF ExistsBijection, Bijection, Injection
  <1>5. f \in [1 .. n -> S]
    BY <1>4 DEF SetToSeq
  <1> HIDE DEF n, f
  <1>6. \A s \in S : s \in Strings /\ Short(s, 100)
    <2>1. \A s : Short(s, 100) => s \in Strings
      BY ShortIsString
    <2> QED BY <1>1, <1>2, <2>1
  <1>7. f \in [1 .. n -> Strings] /\ \A i \in 1 .. n : Short(f[i], 100)
    BY <1>5, <1>6
  <1>8. f \in Seq(Strings) /\ Len(f) = n
    BY <1>3, <1>7, LenProperties
  <1>9. Names(c) = f
    BY DEF Names, f, S
  <1> QED BY <1>3, <1>7, <1>8, <1>9

LEMMA NameIs == \A t : Short(Name(t), 100)
  <1>1. 98 \in Byte /\ 112 \in Byte /\ 99 \in Byte
    BY InByte
  <1>2. Short(<<98>>, 1) /\ Short(<<112, 99>>, 2)
    BY <1>1, ShortBytes
  <1>3. Short(<<98>>, 100) /\ Short(<<112, 99>>, 100)
    BY <1>2, ShortWithin
  <1> QED BY <1>3 DEF Name

\* Every packet of a stream is a control packet.
LEMMA EncodedIs ==
  ASSUME NEW c, NEW p \in Packets
  PROVE  Encoded(c, p) \in ControlPackets
  <1>1. QoS \in 0 .. 3 /\ QoS \in Byte /\ QoS * 1 = QoS
    <2>1. QoS \in 0 .. 3
      BY BrokerAssumption
    <2> QED BY <2>1, InByte
  <1>2. p.id \in Nat /\ p.seq \in Nat
    BY BrokerAssumption DEF Packets
  <1>3. CASE p.type = "CONNECT"
    <2>1. 99 \in Byte
      BY InByte
    <2>2. Short(<<99>>, 100)
      <3>1. Short(<<99>>, 1)
        BY <2>1, ShortBytes
      <3> QED BY <3>1, ShortWithin
    <2> QED BY <1>3, <2>2, ConnectPacket DEF Encoded
  <1>4. CASE p.type = "CONNACK"
    BY <1>1, <1>2, <1>4, AckPackets DEF Encoded
  <1>5. CASE p.type = "SUBSCRIBE"
    <2>1. 1 \in Numbers16
      BY DEF Numbers16
    <2>2. EncodeSubscribe(1, Names(c), QoS) \in ControlPackets
      BY <1>1, <2>1, NamesAre, SubscribePacket
    <2> QED BY <1>5, <2>2 DEF Encoded
  <1>6. CASE p.type = "SUBACK"
    <2>1. Len(Names(c)) \in 0 .. 100
      BY NamesAre
    <2> QED BY <1>1, <1>6, <2>1, AckPackets DEF Encoded
  <1>7. CASE p.type = "PUBACK"
    BY <1>1, <1>2, <1>7, AckPackets DEF Encoded
  <1>8. CASE p.type = "PUBLISH"
    <2> DEFINE m == [topic |-> Name(p.topic), qos |-> QoS, packetId |-> p.id, expiry |-> 1,
                     creationTime |-> 0, sequence |-> p.seq, payloadLength |-> 1]
    <2>1. /\ m.topic = Name(p.topic) /\ m.qos \in 0 .. 3 /\ m.packetId \in Nat /\ m.expiry \in Nat
          /\ m.creationTime \in Nat /\ m.sequence \in Nat /\ m.payloadLength \in 0 .. 500
      BY <1>1, <1>2
    <2> HIDE DEF m
    <2>2. Short(Name(p.topic), 100)
      BY NameIs
    <2>3. EncodePublish(m) \in ControlPackets
      BY <2>1, <2>2, PublishPacket
    <2> QED BY <1>8, <2>3 DEF Encoded, m
  <1>9. p.type \in {"CONNECT", "CONNACK", "SUBSCRIBE", "SUBACK", "PUBACK", "PUBLISH"}
    BY DEF Packets
  <1> QED BY <1>3, <1>4, <1>5, <1>6, <1>7, <1>8, <1>9

\* So a stream of them is read as it was written.
LEMMA TypedSurvive ==
  ASSUME TypeOK
  PROVE  PacketsSurvive
  <1>1. ASSUME NEW c \in Clients, NEW q \in {toBroker[c], toClient[c]}
        PROVE  LET packets == [i \in DOMAIN q |-> Encoded(c, q[i])]
               IN  Received(<<>>, FlattenSeq([i \in DOMAIN q |-> Frame(packets[i])]))
                     = [frames |-> packets, buffer |-> <<>>]
    <2> DEFINE packets == [i \in DOMAIN q |-> Encoded(c, q[i])]
               n == Len(q)
    <2>1. q \in Seq(Packets)
      BY DEF TypeOK
    <2>2. n \in Nat /\ DOMAIN q = 1 .. n /\ \A i \in 1 .. n : q[i] \in Packets
      BY <2>1, LenProperties
    <2> HIDE DEF n
    <2>3. packets \in [1 .. n -> ControlPackets] /\ DOMAIN packets = DOMAIN q
      BY <2>2, EncodedIs
    <2> HIDE DEF packets
    <2>4. packets \in Seq(ControlPackets)
      BY <2>2, <2>3
    <2>5. Received(<<>>, FlattenSeq([i \in DOMAIN packets |-> Frame(packets[i])]))
            = [frames |-> packets, buffer |-> <<>>]
      BY <2>4, FramesRead
    <2>6. Received(<<>>, FlattenSeq([i \in DOMAIN q |-> Frame(packets[i])]))
            = [frames |-> packets, buffer |-> <<>>]
      BY <2>3, <2>5
    <2> QED BY <2>6 DEF packets
  <1> QED BY <1>1, LengthsAlwaysInvert, BodiesAlwaysInvert, CutsNeverMatter DEF PacketsSurvive

\* What one application encodes another decodes, however its bytes arrive: every stream of
\* every connection, sent as bytes, is read as the packets the model has in it, each once
\* and in order, whatever clients, topics and filters there are (PacketsSurvive).
THEOREM PacketsAlwaysSurvive == Spec => []PacketsSurvive
  <1>1. TypeOK => PacketsSurvive
    BY TypedSurvive
  <1> QED BY <1>1, TypeCorrect, PTL

=============================================================================
