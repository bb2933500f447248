------------------------- MODULE MqttPublisherProofs ------------------------
(* Theorems about MqttPublisher, for every set of topics, every size and    *)
(* every limit, over TCP and over QUIC.                                     *)
EXTENDS MqttPublisher, SequenceTheorems, TLAPS

-----------------------------------------------------------------------------
(* The QUIC connection: every operation returns a connection.              *)

\* Whatever the occupancy does, WithHeld returns a connection.
LEMMA WithHeldType ==
  ASSUME NEW c \in Quic!Connections, NEW h \in [{Stream} -> Nat]
  PROVE  Quic!WithHeld(c, h) \in Quic!Connections
  <1> DEFINE w == Quic!WithHeld(c, h)
  <1> DEFINE new(b, q) == [c EXCEPT !.held = h, !.accept = b, !.inds = q]
  <1>1. \A b \in BOOLEAN, q \in Seq(Quic!Indications) : new(b, q) \in Quic!Connections
    BY DEF Quic!Connections
  <1>2. /\ c.accept \in BOOLEAN /\ c.inds \in Seq(Quic!Indications)
        /\ Append(c.inds, "full") \in Seq(Quic!Indications)
        /\ Append(c.inds, "drain") \in Seq(Quic!Indications)
    BY DEF Quic!Connections, Quic!Indications
  <1>3. \/ w = new(FALSE, Append(c.inds, "full"))
        \/ w = new(TRUE, Append(c.inds, "drain"))
        \/ w = new(c.accept, c.inds)
    BY DEF Quic!WithHeld
  <1> HIDE DEF w, new
  <1> QED BY <1>1, <1>2, <1>3 DEF w

\* A write is appended to the requests.
LEMMA SendDataType ==
  ASSUME NEW c \in Quic!Connections, NEW n \in Nat
  PROVE  Quic!SendData(c, Stream, n) \in Quic!Connections
  <1>1. [op |-> "data", on |-> {Stream}, len |-> n] \in Quic!Requests
    BY DEF Quic!Requests
  <1>2. Append(c.requests, [op |-> "data", on |-> {Stream}, len |-> n]) \in Seq(Quic!Requests)
    BY <1>1, AppendProperties DEF Quic!Connections
  <1> QED BY <1>2 DEF Quic!SendData, Quic!Connections

\* QUIC's own steps, and the delivery of an indication.
LEMMA HandleRequestType ==
  ASSUME NEW c \in Quic!Connections, c.requests # <<>>
  PROVE  Quic!HandleRequest(c) \in Quic!Connections
  <1> DEFINE r    == Head(c.requests)
             rest == [c EXCEPT !.requests = Tail(@)]
  <1>1. /\ r \in Quic!Requests
        /\ Tail(c.requests) \in Seq(Quic!Requests)
    BY HeadTailProperties DEF Quic!Connections
  <1>2. rest \in Quic!Connections
    BY <1>1 DEF Quic!Connections
  <1>3. CASE r.op = "reset"
    <2>1. [s \in {Stream} |-> IF s \in r.on THEN 0 ELSE c.held[s]]
            \in [{Stream} -> Nat]
      BY DEF Quic!Connections
    <2> QED BY <1>2, <1>3, <2>1, WithHeldType DEF Quic!HandleRequest
  <1>4. CASE r.op = "data" /\ c.accept
    <2>1. [s \in {Stream} |-> IF s \in r.on THEN c.held[s] + r.len ELSE c.held[s]]
            \in [{Stream} -> Nat]
      BY <1>1 DEF Quic!Connections, Quic!Requests
    <2> QED BY <1>2, <1>4, <2>1, WithHeldType DEF Quic!HandleRequest
  <1>5. CASE r.op = "control" /\ c.accept
    BY <1>2, <1>5 DEF Quic!HandleRequest
  <1>6. CASE ~c.accept /\ r.op # "reset"
    <2>1. r.op \in {"data", "control"}
      BY <1>1, <1>6 DEF Quic!Requests
    <2>2. Quic!HandleRequest(c) =
            [rest EXCEPT !.inds     = Append(rest.inds, "rejected"),
                         !.rejected = rest.rejected \cup {r.op}]
      <3>1. {r.op} \ {"reset"} = {r.op}
        BY <1>6
      <3> QED BY <1>6, <3>1 DEF Quic!HandleRequest
    <2>3. Append(rest.inds, "rejected") \in Seq(Quic!Indications)
      BY <1>2, AppendProperties DEF Quic!Connections, Quic!Indications
    <2>4. rest.rejected \cup {r.op} \in SUBSET {"data", "control"}
      BY <1>2, <2>1 DEF Quic!Connections
    <2> HIDE DEF rest, r
    <2> QED BY <1>2, <2>2, <2>3, <2>4 DEF Quic!Connections
  <1> QED BY <1>1, <1>3, <1>4, <1>5, <1>6 DEF Quic!Requests, Quic!Connections

LEMMA AcknowledgeType ==
  ASSUME NEW c \in Quic!Connections, NEW s \in {Stream}, c.held[s] > 0
  PROVE  Quic!Acknowledge(c, s) \in Quic!Connections
  <1>1. [c.held EXCEPT ![s] = @ - 1] \in [{Stream} -> Nat]
    BY DEF Quic!Connections
  <1> QED BY <1>1, WithHeldType DEF Quic!Acknowledge

LEMMA TakeIndicationType ==
  ASSUME NEW c \in Quic!Connections, c.inds # <<>>
  PROVE  Quic!TakeIndication(c) \in Quic!Connections
  <1>1. Tail(c.inds) \in Seq(Quic!Indications)
    BY HeadTailProperties DEF Quic!Connections
  <1> QED BY <1>1 DEF Quic!TakeIndication, Quic!Connections

-----------------------------------------------------------------------------
(* The order of the messages.                                              *)

\* Of c messages created, q holds the newest; h holds older ones, in order.
Ordered(q, h, c) ==
  /\ \A i \in 1 .. Len(q) : q[i].n = c - Len(q) + i
  /\ \A i \in 1 .. Len(h) :
       /\ h[i].n <= c - Len(q)
       /\ \A j \in 1 .. i - 1 : h[j].n < h[i].n

\* A new message joins the queue.
LEMMA OrderQueued ==
  ASSUME NEW q \in Seq(Messages), NEW h \in Seq(Messages), NEW c \in Nat, Ordered(q, h, c),
         NEW m \in Messages, m.n = c + 1
  PROVE  Ordered(Append(q, m), h, c + 1)
  <1> DEFINE w == Append(q, m)
  <1>1. /\ Len(q) \in Nat /\ Len(w) = Len(q) + 1 /\ w[Len(q) + 1] = m
        /\ \A i \in 1 .. Len(q) : w[i] = q[i]
    BY AppendProperties
  <1> HIDE DEF w
  <1>2. (c + 1) - Len(w) = c - Len(q)
    BY <1>1
  <1>3. ASSUME NEW i \in 1 .. Len(w) PROVE w[i].n = (c + 1) - Len(w) + i
    <2>1. CASE i \in 1 .. Len(q)
      BY <1>1, <1>2, <2>1 DEF Ordered
    <2>2. CASE i = Len(q) + 1
      BY <1>1, <1>2, <2>2
    <2> QED BY <1>1, <2>1, <2>2
  <1>4. Ordered(w, h, c + 1)
    BY <1>2, <1>3 DEF Ordered
  <1> QED BY <1>4 DEF w

\* The oldest message leaves the queue.
LEMMA OrderDropped ==
  ASSUME NEW q \in Seq(Messages), NEW h \in Seq(Messages), NEW c \in Nat, Ordered(q, h, c),
         q # <<>>
  PROVE  Ordered(Tail(q), h, c)
  <1> DEFINE w == Tail(q)
  <1>1. /\ Len(q) \in Nat \ {0} /\ Len(w) = Len(q) - 1
        /\ \A i \in 1 .. Len(w) : w[i] = q[i + 1]
    BY HeadTailProperties
  <1> HIDE DEF w
  <1>2. c - Len(w) = c - Len(q) + 1
    BY <1>1
  <1>3. ASSUME NEW i \in 1 .. Len(w) PROVE w[i].n = c - Len(w) + i
    <2>1. i + 1 \in 1 .. Len(q) /\ w[i] = q[i + 1]
      BY <1>1
    <2>2. q[i + 1].n = c - Len(q) + (i + 1)
      BY <2>1 DEF Ordered
    <2> QED BY <1>1, <1>2, <2>1, <2>2
  <1>4. \A i \in 1 .. Len(h) : h[i].n <= c - Len(w)
    <2> TAKE i \in 1 .. Len(h)
    <2>1. h[i] \in Messages /\ h[i].n <= c - Len(q)
      BY DEF Ordered
    <2>2. h[i].n \in Nat
      BY <2>1 DEF Messages
    <2> QED BY <1>1, <1>2, <2>1, <2>2
  <1>5. Ordered(w, h, c)
    BY <1>3, <1>4 DEF Ordered
  <1> QED BY <1>5 DEF w

\* A message newer than all that were written, and older than all that wait, is written.
LEMMA OrderWritten ==
  ASSUME NEW q \in Seq(Messages), NEW h \in Seq(Messages), NEW c \in Nat, NEW m \in Messages,
         \A i \in 1 .. Len(q) : q[i].n = c - Len(q) + i,
         m.n <= c - Len(q),
         \A i \in 1 .. Len(h) : h[i].n < m.n /\ \A j \in 1 .. i - 1 : h[j].n < h[i].n
  PROVE  Ordered(q, Append(h, m), c)
  <1> DEFINE w == Append(h, m)
  <1>1. /\ Len(h) \in Nat /\ Len(w) = Len(h) + 1 /\ w[Len(h) + 1] = m
        /\ \A i \in 1 .. Len(h) : w[i] = h[i] /\ h[i].n \in Nat
        /\ m.n \in Nat /\ Len(q) \in Nat
    <2>1. /\ Len(h) \in Nat /\ Len(w) = Len(h) + 1 /\ w[Len(h) + 1] = m
          /\ \A i \in 1 .. Len(h) : w[i] = h[i]
      BY AppendProperties
    <2>2. \A x \in Messages : x.n \in Nat
      BY DEF Messages
    <2>3. \A i \in 1 .. Len(h) : h[i] \in Messages
      OBVIOUS
    <2> HIDE DEF w
    <2> QED BY <2>1, <2>2, <2>3
  <1> HIDE DEF w
  <1>2. ASSUME NEW i \in 1 .. Len(w)
        PROVE  w[i].n <= c - Len(q) /\ \A j \in 1 .. i - 1 : w[j].n < w[i].n
    <2>1. CASE i \in 1 .. Len(h)
      <3>1. h[i].n <= c - Len(q)
        BY <1>1, <2>1
      <3>2. \A j \in 1 .. i - 1 : j \in 1 .. Len(h)
        BY <1>1, <2>1
      <3> QED BY <1>1, <2>1, <3>1, <3>2
    <2>2. CASE i = Len(h) + 1
      <3>1. \A j \in 1 .. i - 1 : j \in 1 .. Len(h)
        BY <1>1, <2>2
      <3> QED BY <1>1, <2>2, <3>1
    <2> QED BY <1>1, <2>1, <2>2
  <1>3. Ordered(q, w, c)
    BY <1>2 DEF Ordered
  <1> QED BY <1>3 DEF w

-----------------------------------------------------------------------------
(* Packet identifiers.                                                     *)

\* The messages written or waiting.
Known(q, h) == {q[i] : i \in 1 .. Len(q)} \cup {h[i] : i \in 1 .. Len(h)}

\* Of the publications in S, made with the first c messages: the next identifier is as far
\* from theirs as they are old, around the range of identifiers, and those of two less than
\* a range apart differ.
Fresh(S, c, next) ==
  /\ \A a \in S : 1 < a.n =>
       /\ a.n <= c /\ a.id # 0
       /\ c + 1 - a.n <= PacketIds - 1 =>
            next = IF a.id + (c + 1 - a.n) < PacketIds THEN a.id + (c + 1 - a.n)
                   ELSE a.id + (c + 1 - a.n) - (PacketIds - 1)
  /\ \A a, b \in S : 1 < a.n /\ a.n < b.n /\ a.id = b.id => b.n - a.n >= PacketIds - 1

\* A publication with the next identifier keeps them fresh.
LEMMA FreshNext ==
  ASSUME NEW S \in SUBSET Messages, NEW c \in Nat \ {0}, NEW next \in 1 .. PacketIds - 1,
         Fresh(S, c, next), NEW m \in Messages, m.n = c + 1, m.id = next
  PROVE  Fresh(S \cup {m}, c + 1, Incremented(next))
  <1> DEFINE after == Incremented(next)
  <1>1. /\ PacketIds \in Nat /\ PacketIds > 1
        /\ \A a \in S \cup {m} : a.n \in Nat \ {0} /\ a.id \in 0 .. PacketIds - 1
    BY PublisherAssumption DEF Messages
  <1>2. after = IF next + 1 = PacketIds THEN 1 ELSE next + 1
    BY DEF Incremented
  <1> HIDE DEF after
  <1>3. ASSUME NEW a \in S, 1 < a.n
        PROVE  /\ a.n <= c + 1 /\ a.id # 0
               /\ (c + 1) + 1 - a.n <= PacketIds - 1 =>
                    after = IF a.id + ((c + 1) + 1 - a.n) < PacketIds
                            THEN a.id + ((c + 1) + 1 - a.n)
                            ELSE a.id + ((c + 1) + 1 - a.n) - (PacketIds - 1)
    <2>1. /\ a.n <= c /\ a.id # 0
          /\ c + 1 - a.n <= PacketIds - 1 =>
               next = IF a.id + (c + 1 - a.n) < PacketIds THEN a.id + (c + 1 - a.n)
                      ELSE a.id + (c + 1 - a.n) - (PacketIds - 1)
      BY <1>3 DEF Fresh
    <2> QED BY <1>1, <1>2, <2>1
  <1>4. /\ m.n <= c + 1 /\ m.id # 0
        /\ (c + 1) + 1 - m.n <= PacketIds - 1 =>
             after = IF m.id + ((c + 1) + 1 - m.n) < PacketIds THEN m.id + ((c + 1) + 1 - m.n)
                     ELSE m.id + ((c + 1) + 1 - m.n) - (PacketIds - 1)
    BY <1>1, <1>2
  <1>5. ASSUME NEW a \in S \cup {m}, NEW b \in S \cup {m}, 1 < a.n, a.n < b.n, a.id = b.id
        PROVE  b.n - a.n >= PacketIds - 1
    <2>1. CASE a \in S /\ b \in S
      BY <1>5, <2>1 DEF Fresh
    <2>2. CASE a \in S /\ b = m
      <3>1. /\ a.n <= c
            /\ c + 1 - a.n <= PacketIds - 1 =>
                 next = IF a.id + (c + 1 - a.n) < PacketIds THEN a.id + (c + 1 - a.n)
                        ELSE a.id + (c + 1 - a.n) - (PacketIds - 1)
        BY <1>5, <2>2 DEF Fresh
      <3> QED BY <1>1, <1>5, <2>2, <3>1
    <2>3. CASE a = m
      <3>1. b.n <= c + 1
        <4>1. b.n \in Nat
          BY <1>1
        <4>2. 1 < b.n
          BY <1>1, <1>5, <4>1
        <4> QED BY <1>3, <1>4, <4>2
      <3> QED BY <1>1, <1>5, <2>3, <3>1
    <2> QED BY <2>1, <2>2, <2>3
  <1> QED BY <1>3, <1>4, <1>5 DEF Fresh, after

\* What holds of some messages holds of fewer.
LEMMA FreshFewer ==
  ASSUME NEW S, NEW R \in SUBSET S, NEW c, NEW next, Fresh(S, c, next)
  PROVE  Fresh(R, c, next)
  BY DEF Fresh

\* The messages known when the queue or what was written grows or shrinks at an end.
LEMMA KnownMoves ==
  ASSUME NEW q \in Seq(Messages), NEW h \in Seq(Messages), NEW m \in Messages
  PROVE  /\ Known(q, h) \in SUBSET Messages
         /\ Known(Append(q, m), h) = Known(q, h) \cup {m}
         /\ Known(q, Append(h, m)) = Known(q, h) \cup {m}
         /\ q # <<>> => /\ Known(Tail(q), h) \subseteq Known(q, h)
                        /\ Known(Tail(q), Append(h, Head(q))) \subseteq Known(q, h)
         /\ Known(<<>>, h) \subseteq Known(q, h)
  <1> DEFINE In(s) == {s[i] : i \in 1 .. Len(s)}
  <1>1. \A s \in Seq(Messages) : \A x \in Messages : In(Append(s, x)) = In(s) \cup {x}
    <2> TAKE s \in Seq(Messages)
    <2> TAKE x \in Messages
    <2> DEFINE w == Append(s, x)
    <2>1. /\ Len(s) \in Nat /\ Len(w) = Len(s) + 1 /\ w[Len(s) + 1] = x
          /\ \A i \in 1 .. Len(s) : w[i] = s[i]
      BY AppendProperties
    <2> HIDE DEF w
    <2>2. \A i \in 1 .. Len(w) : i \in 1 .. Len(s) \/ i = Len(s) + 1
      BY <2>1
    <2>3. \A i \in 1 .. Len(s) : i \in 1 .. Len(w)
      BY <2>1
    <2>4. Len(s) + 1 \in 1 .. Len(w)
      BY <2>1
    <2>5. In(w) = In(s) \cup {x}
      BY <2>1, <2>2, <2>3, <2>4
    <2> QED BY <2>5 DEF w
  <1>2. \A s \in Seq(Messages) : s # <<>> => In(Tail(s)) \subseteq In(s) /\ Head(s) \in In(s)
    <2> TAKE s \in Seq(Messages)
    <2> HAVE s # <<>>
    <2> DEFINE w == Tail(s)
    <2>1. /\ Len(s) \in Nat \ {0} /\ Len(w) = Len(s) - 1 /\ Head(s) = s[1]
          /\ \A i \in 1 .. Len(w) : w[i] = s[i + 1]
      BY HeadTailProperties
    <2> HIDE DEF w
    <2>2. \A i \in 1 .. Len(w) : i + 1 \in 1 .. Len(s)
      BY <2>1
    <2>3. 1 \in 1 .. Len(s)
      BY <2>1
    <2>4. In(w) \subseteq In(s) /\ Head(s) \in In(s)
      BY <2>1, <2>2, <2>3
    <2> QED BY <2>4 DEF w
  <1>3. \A s \in Seq(Messages) : In(s) \subseteq Messages
    OBVIOUS
  <1>4. \A s, r : Known(s, r) = In(s) \cup In(r)
    BY DEF Known
  <1>5. In(<<>>) = {}
    OBVIOUS
  <1>6. q # <<>> => Head(q) \in Messages
    BY HeadTailProperties
  <1> HIDE DEF In
  <1> QED BY <1>1, <1>2, <1>3, <1>4, <1>5, <1>6

\* The CONNECT, the first message, carries no identifier to keep fresh.
LEMMA FreshConnect ==
  ASSUME NEW S \in SUBSET Messages, NEW next, Fresh(S, 0, next), NEW m \in Messages, m.n = 1
  PROVE  Fresh(S \cup {m}, 1, next)
  <1>1. \A a \in S \cup {m} : ~(1 < a.n)
    <2>1. \A a \in S : 1 < a.n => a.n <= 0
      BY DEF Fresh
    <2>2. \A a \in S : a.n \in Nat
      BY DEF Messages
    <2> QED BY <2>1, <2>2
  <1> QED BY <1>1 DEF Fresh

-----------------------------------------------------------------------------
(* The inductive invariant.                                                *)

\* A message is made only in a burst or for the CONNECT; a burst runs only after the CONNECT;
\* over TCP nothing waits.
PublisherInv ==
  /\ TypeOK
  /\ burst.open => pc # "idle" /\ created > 0
  /\ pc = "burst" => burst.open
  /\ pc = "flush" /\ burst.open => burst.left > 0
  /\ proto = "tcp" => sendQueue = <<>>
  /\ up = "starting" => created = 0
  /\ up = "established" \/ connected => created > 0
  /\ up # "stopped" => cleared = 0
  /\ Accounting
  /\ Ordered(sendQueue, handedOver, created)
  /\ QoS > 0 => Fresh(Known(sendQueue, handedOver), created, nextPacketId)

\* sendBytes makes one message more, which is written, waits, or costs the oldest its place.
LEMMA Sending ==
  ASSUME PublisherInv, NEW m \in Messages, m.n = created + 1, SendBytes(m)
  PROVE  /\ sendQueue' \in Seq(Messages) /\ handedOver' \in Seq(Messages)
         /\ droppedOnOverflow' \in Nat /\ created' = created + 1
         /\ Len(handedOver') + Len(sendQueue') + droppedOnOverflow'
              = Len(handedOver) + Len(sendQueue) + droppedOnOverflow + 1
         /\ Ordered(sendQueue', handedOver', created')
         /\ Known(sendQueue', handedOver') \subseteq Known(sendQueue, handedOver) \cup {m}
         /\ proto = "tcp" => sendQueue' = <<>>
         /\ pc' = "flush" /\ bytesThisEvent' = 0
  <1>1. /\ sendQueue \in Seq(Messages) /\ handedOver \in Seq(Messages) /\ created \in Nat
        /\ droppedOnOverflow \in Nat /\ Ordered(sendQueue, handedOver, created)
    BY DEF PublisherInv, TypeOK
  <1>2. created' = created + 1 /\ pc' = "flush" /\ bytesThisEvent' = 0
    BY DEF SendBytes
  <1>3. CASE proto = "tcp"
    <2>1. sendQueue = <<>> /\ sendQueue' = <<>> /\ Len(sendQueue) = 0
      BY <1>3 DEF PublisherInv, SendBytes
    <2>2. handedOver' = Append(handedOver, m) /\ droppedOnOverflow' = droppedOnOverflow
      BY <1>3 DEF SendBytes
    <2>3. handedOver' \in Seq(Messages) /\ Len(handedOver') = Len(handedOver) + 1
      BY <1>1, <2>2, AppendProperties
    <2>4. \A i \in 1 .. Len(handedOver) :
            handedOver[i].n < m.n /\ \A j \in 1 .. i - 1 : handedOver[j].n < handedOver[i].n
      <3>1. \A i \in 1 .. Len(handedOver) : handedOver[i].n <= created - Len(sendQueue)
        BY <1>1 DEF Ordered
      <3>2. \A i \in 1 .. Len(handedOver) : handedOver[i].n \in Nat
        <4>1. \A x \in Messages : x.n \in Nat
          BY DEF Messages
        <4> QED BY <1>1, <4>1
      <3>3. \A i \in 1 .. Len(handedOver) : handedOver[i].n < m.n
        BY <1>1, <2>1, <3>1, <3>2
      <3>4. \A i \in 1 .. Len(handedOver) : \A j \in 1 .. i - 1 : handedOver[j].n < handedOver[i].n
        BY <1>1 DEF Ordered
      <3> QED BY <3>3, <3>4
    <2>5. Ordered(sendQueue, Append(handedOver, m), created + 1)
      <3>1. created + 1 \in Nat /\ m.n <= created + 1 - Len(sendQueue)
        BY <1>1, <2>1
      <3>2. \A i \in 1 .. Len(sendQueue) : sendQueue[i].n = created + 1 - Len(sendQueue) + i
        BY <2>1
      <3> QED BY <1>1, <2>4, <3>1, <3>2, OrderWritten
    <2>6. Known(sendQueue, Append(handedOver, m)) = Known(sendQueue, handedOver) \cup {m}
      BY <1>1, KnownMoves
    <2>7. Len(handedOver) \in Nat /\ Len(sendQueue') = 0
      BY <1>1, <2>1
    <2> QED BY <1>1, <1>2, <2>1, <2>2, <2>3, <2>5, <2>6, <2>7
  <1>4. CASE proto # "tcp"
    <2> DEFINE w == Append(sendQueue, m)
    <2>1. /\ sendQueue' = Bounded(w) /\ droppedOnOverflow' = droppedOnOverflow + Overflowed(w)
          /\ handedOver' = handedOver
      BY <1>4 DEF SendBytes
    <2>2. w \in Seq(Messages) /\ Len(w) = Len(sendQueue) + 1 /\ w # <<>> /\ Len(sendQueue) \in Nat
      BY <1>1, AppendProperties
    <2>3. /\ Ordered(w, handedOver, created + 1)
          /\ Known(w, handedOver) = Known(sendQueue, handedOver) \cup {m}
      BY <1>1, OrderQueued, KnownMoves
    <2> HIDE DEF w
    <2>4. Bounded(w) = w \/ Bounded(w) = Tail(w)
      BY DEF Bounded
    <2>5. CASE Bounded(w) = w
      <3>1. Overflowed(w) = 0
        BY <2>2, <2>5 DEF Overflowed
      <3> QED BY <1>1, <1>2, <1>4, <2>1, <2>2, <2>3, <2>5, <3>1
    <2>6. CASE Bounded(w) = Tail(w)
      <3>1. Tail(w) \in Seq(Messages) /\ Len(Tail(w)) = Len(w) - 1
        BY <2>2, HeadTailProperties
      <3>2. Overflowed(w) = 1
        BY <2>2, <2>6, <3>1 DEF Overflowed
      <3>3. Ordered(Tail(w), handedOver, created + 1)
        BY <1>1, <2>2, <2>3, OrderDropped
      <3>4. Known(Tail(w), handedOver) \subseteq Known(w, handedOver)
        BY <1>1, <2>2, KnownMoves
      <3>5. Len(handedOver) \in Nat
        BY <1>1
      <3>6. Len(handedOver') + Len(sendQueue') + droppedOnOverflow'
              = Len(handedOver) + Len(sendQueue) + droppedOnOverflow + 1
        <4>1. /\ Len(sendQueue') = Len(sendQueue) /\ handedOver' = handedOver
              /\ droppedOnOverflow' = droppedOnOverflow + 1
          BY <2>1, <2>2, <2>6, <3>1, <3>2
        <4> QED BY <1>1, <2>2, <3>5, <4>1
      <3>7. droppedOnOverflow' \in Nat
        BY <1>1, <2>1, <3>2
      <3> QED BY <1>1, <1>2, <1>4, <2>1, <2>3, <2>6, <3>1, <3>3, <3>4, <3>6, <3>7
    <2> QED BY <2>4, <2>5, <2>6
  <1> QED BY <1>3, <1>4

\* The initial state.
LEMMA InitInv == Init => PublisherInv
  <1> SUFFICES ASSUME Init PROVE PublisherInv
    OBVIOUS
  <1>1. Quic!FreshConnection \in Quic!Connections
    BY DEF Quic!FreshConnection, Quic!Connections, Quic!Indications, Quic!Requests
  <1>2. NoBurst \in [topic : Topics, left : Nat, open : BOOLEAN] /\ ~NoBurst.open
    BY PublisherAssumption DEF NoBurst
  <1>3. TypeOK
    <2>1. nextPacketId \in 1 .. PacketIds - 1 /\ proto \in {"quic", "tcp"}
      BY PublisherAssumption DEF Init
    <2>2. sendQueue \in Seq(Messages) /\ handedOver \in Seq(Messages)
      BY EmptySeq DEF Init
    <2>3. conn \in Quic!Connections /\ burst \in [topic : Topics, left : Nat, open : BOOLEAN]
      BY <1>1, <1>2 DEF Init
    <2>4. nextSequence \in [Topics -> Nat] /\ offered \in [Topics -> Nat]
      BY DEF Init
    <2> QED BY <2>1, <2>2, <2>3, <2>4 DEF Init, TypeOK
  <1>4. Ordered(sendQueue, handedOver, created) /\ Accounting
    BY DEF Init, Ordered, Accounting
  <1>5. Fresh(Known(sendQueue, handedOver), created, nextPacketId)
    BY DEF Init, Known, Fresh
  <1> QED BY <1>2, <1>3, <1>4, <1>5 DEF Init, PublisherInv

\* A step that moves no message.
LEMMA MessagesKept ==
  ASSUME PublisherInv, TypeOK',
         UNCHANGED <<proto, sendQueue, handedOver, droppedOnOverflow, cleared, created, nextPacketId>>,
         up' = up, connected' => connected \/ up = "established",
         burst'.open => pc' # "idle" /\ created > 0,
         pc' = "burst" => burst'.open,
         pc' = "flush" /\ burst'.open => burst'.left > 0
  PROVE  PublisherInv'
  BY DEF PublisherInv, Accounting, Ordered, Fresh, Known

-----------------------------------------------------------------------------
(* The steps.                                                              *)

\* The packet identifier stays in its range.
LEMMA IncrementedType ==
  ASSUME NEW id \in 1 .. PacketIds - 1
  PROVE  Incremented(id) \in 1 .. PacketIds - 1
  BY PublisherAssumption DEF Incremented

\* The messages the application makes are messages.
LEMMA MessagesMade ==
  ASSUME TypeOK
  PROVE  /\ [n |-> created + 1, id |-> 0, len |-> ConnectBytes] \in Messages
         /\ [n   |-> created + 1,
             id  |-> IF QoS > 0 THEN nextPacketId ELSE 0,
             len |-> MessageBytes[burst.topic]] \in Messages
  <1>1. created + 1 \in Nat \ {0} /\ 0 \in 0 .. PacketIds - 1 /\ ConnectBytes \in Nat \ {0}
    BY PublisherAssumption DEF TypeOK
  <1>2. (IF QoS > 0 THEN nextPacketId ELSE 0) \in 0 .. PacketIds - 1
    BY PublisherAssumption DEF TypeOK
  <1>3. MessageBytes[burst.topic] \in Nat \ {0}
    BY PublisherAssumption DEF TypeOK
  <1> QED BY <1>1, <1>2, <1>3 DEF Messages

\* The steps that make a message.
LEMMA MakeStep ==
  ASSUME PublisherInv, SocketEstablished \/ Publish
  PROVE  PublisherInv'
  <1>t. TypeOK
    BY DEF PublisherInv
  <1>1. CASE SocketEstablished
    <2> DEFINE m == [n |-> created + 1, id |-> 0, len |-> ConnectBytes]
    <2>1. m \in Messages /\ m.n = created + 1 /\ SendBytes(m)
      BY <1>t, <1>1, MessagesMade DEF SocketEstablished
    <2>2. /\ created = 0 /\ pc = "idle" /\ up' = "established" /\ cleared = 0 /\ ~burst.open
          /\ UNCHANGED <<proto, connected, topicTimers, timerFlush, nextPacketId, nextSequence,
                         offered, pubacksReceived, cleared, quicBlocked, burst, conn>>
      BY <1>1 DEF SocketEstablished, PublisherInv, timers, counters
    <2> HIDE DEF m
    <2>3. /\ sendQueue' \in Seq(Messages) /\ handedOver' \in Seq(Messages)
          /\ droppedOnOverflow' \in Nat /\ created' = created + 1
          /\ Len(handedOver') + Len(sendQueue') + droppedOnOverflow'
               = Len(handedOver) + Len(sendQueue) + droppedOnOverflow + 1
          /\ Ordered(sendQueue', handedOver', created')
          /\ Known(sendQueue', handedOver') \subseteq Known(sendQueue, handedOver) \cup {m}
          /\ proto = "tcp" => sendQueue' = <<>>
          /\ pc' = "flush" /\ bytesThisEvent' = 0
      BY <2>1, Sending
    <2>4. TypeOK'
      BY <1>t, <2>2, <2>3 DEF TypeOK
    <2>5. Accounting'
      <3>1. Len(handedOver) \in Nat /\ Len(sendQueue) \in Nat
        BY <1>t DEF TypeOK
      <3>2. created = Len(handedOver) + Len(sendQueue) + droppedOnOverflow + cleared
        BY DEF PublisherInv, Accounting
      <3> QED BY <1>t, <2>2, <2>3, <3>1, <3>2 DEF Accounting, TypeOK
    <2>6. QoS > 0 => Fresh(Known(sendQueue', handedOver'), created', nextPacketId')
      <3> SUFFICES ASSUME QoS > 0
                   PROVE  Fresh(Known(sendQueue', handedOver'), created', nextPacketId')
        OBVIOUS
      <3>1. Fresh(Known(sendQueue, handedOver), 0, nextPacketId)
        BY <2>2 DEF PublisherInv
      <3>2. Known(sendQueue, handedOver) \in SUBSET Messages /\ m.n = 1
        BY <1>t, <2>1, <2>2, KnownMoves DEF TypeOK
      <3>3. Fresh(Known(sendQueue, handedOver) \cup {m}, 1, nextPacketId)
        BY <2>1, <3>1, <3>2, FreshConnect
      <3> QED BY <2>2, <2>3, <3>3, FreshFewer
    <2>7. Ordered(sendQueue, handedOver, created)'
      BY <2>3 DEF Ordered
    <2>8. QoS > 0 => Fresh(Known(sendQueue, handedOver), created, nextPacketId)'
      BY <2>6 DEF Fresh, Known
    <2> QED BY <1>t, <2>2, <2>3, <2>4, <2>5, <2>7, <2>8 DEF PublisherInv, TypeOK
  <1>2. CASE Publish
    <2> DEFINE m == [n   |-> created + 1,
                     id  |-> IF QoS > 0 THEN nextPacketId ELSE 0,
                     len |-> MessageBytes[burst.topic]]
    <2>1. m \in Messages /\ m.n = created + 1 /\ SendBytes(m) /\ (QoS > 0 => m.id = nextPacketId)
      BY <1>t, <1>2, MessagesMade DEF Publish
    <2>2. /\ pc = "burst" /\ burst.open /\ burst.left > 0 /\ created > 0
          /\ nextPacketId' = IF QoS > 0 THEN Incremented(nextPacketId) ELSE nextPacketId
          /\ nextSequence' = [nextSequence EXCEPT ![burst.topic] = @ + 1]
          /\ UNCHANGED <<proto, up, connected, topicTimers, timerFlush, offered,
                         pubacksReceived, cleared, quicBlocked, burst, conn>>
      BY <1>2 DEF Publish, PublisherInv, timers
    <2> HIDE DEF m
    <2>3. /\ sendQueue' \in Seq(Messages) /\ handedOver' \in Seq(Messages)
          /\ droppedOnOverflow' \in Nat /\ created' = created + 1
          /\ Len(handedOver') + Len(sendQueue') + droppedOnOverflow'
               = Len(handedOver) + Len(sendQueue) + droppedOnOverflow + 1
          /\ Ordered(sendQueue', handedOver', created')
          /\ Known(sendQueue', handedOver') \subseteq Known(sendQueue, handedOver) \cup {m}
          /\ proto = "tcp" => sendQueue' = <<>>
          /\ pc' = "flush" /\ bytesThisEvent' = 0
      BY <2>1, Sending
    <2>4. TypeOK'
      <3>1. nextPacketId' \in 1 .. PacketIds - 1
        BY <1>t, <2>2, IncrementedType DEF TypeOK
      <3>2. nextSequence' \in [Topics -> Nat]
        BY <1>t, <2>2 DEF TypeOK
      <3>3. created' \in Nat
        BY <1>t, <2>3 DEF TypeOK
      <3> QED BY <1>t, <2>2, <2>3, <3>1, <3>2, <3>3 DEF TypeOK
    <2>5. Accounting'
      <3>1. Len(handedOver) \in Nat /\ Len(sendQueue) \in Nat
        BY <1>t DEF TypeOK
      <3>2. created = Len(handedOver) + Len(sendQueue) + droppedOnOverflow + cleared
        BY DEF PublisherInv, Accounting
      <3>3. Len(handedOver') \in Nat /\ Len(sendQueue') \in Nat
        BY <2>3
      <3> QED BY <1>t, <2>2, <2>3, <3>1, <3>2, <3>3 DEF Accounting, TypeOK
    <2>6. QoS > 0 => Fresh(Known(sendQueue', handedOver'), created', nextPacketId')
      <3> SUFFICES ASSUME QoS > 0
                   PROVE  Fresh(Known(sendQueue', handedOver'), created', nextPacketId')
        OBVIOUS
      <3>1. Fresh(Known(sendQueue, handedOver), created, nextPacketId)
        BY DEF PublisherInv
      <3>2. Known(sendQueue, handedOver) \in SUBSET Messages
        BY <1>t, <2>1, KnownMoves DEF TypeOK
      <3>3. created \in Nat \ {0} /\ nextPacketId \in 1 .. PacketIds - 1
        BY <1>t, <2>2 DEF TypeOK
      <3>4. Fresh(Known(sendQueue, handedOver) \cup {m}, created + 1, Incremented(nextPacketId))
        BY <2>1, <3>1, <3>2, <3>3, FreshNext
      <3> QED BY <2>2, <2>3, <3>4, FreshFewer
    <2>7. Ordered(sendQueue, handedOver, created)'
      BY <2>3 DEF Ordered
    <2>8. QoS > 0 => Fresh(Known(sendQueue, handedOver), created, nextPacketId)'
      BY <2>6 DEF Fresh, Known
    <2>9. created' > 0
      BY <1>t, <2>3 DEF TypeOK
    <2>10. (proto = "tcp" => sendQueue = <<>>)' /\ (up = "starting" => created = 0)'
           /\ (up # "stopped" => cleared = 0)'
      BY <2>2, <2>3 DEF PublisherInv
    <2> QED BY <2>2, <2>3, <2>4, <2>5, <2>7, <2>8, <2>9, <2>10 DEF PublisherInv
  <1> QED BY <1>1, <1>2

\* The oldest message is handed to QUIC.
LEMMA HandOverStep ==
  ASSUME PublisherInv, HandOver
  PROVE  PublisherInv'
  <1> DEFINE m == Head(sendQueue)
  <1>1. /\ sendQueue \in Seq(Messages) /\ handedOver \in Seq(Messages) /\ created \in Nat
        /\ Ordered(sendQueue, handedOver, created) /\ TypeOK
    BY DEF PublisherInv, TypeOK
  <1>2. /\ pc = "flush" /\ sendQueue # <<>> /\ sendQueue' = Tail(sendQueue)
        /\ handedOver' = Append(handedOver, m)
        /\ conn' = Quic!SendData(conn, Stream, m.len)
        /\ bytesThisEvent' = bytesThisEvent + m.len
        /\ UNCHANGED <<proto, up, connected, topicTimers, timerFlush, droppedOnOverflow, created,
                       nextPacketId, nextSequence, offered, pubacksReceived, cleared,
                       quicBlocked, pc, burst>>
    BY DEF HandOver, MayHandOver, timers, counters
  <1>3. /\ m \in Messages /\ m = sendQueue[1] /\ Len(sendQueue) \in Nat \ {0}
        /\ sendQueue' \in Seq(Messages) /\ Len(sendQueue') = Len(sendQueue) - 1
    BY <1>1, <1>2, HeadTailProperties
  <1> HIDE DEF m
  <1>4. /\ handedOver' \in Seq(Messages) /\ Len(handedOver') = Len(handedOver) + 1
        /\ Len(handedOver) \in Nat
    BY <1>1, <1>2, <1>3, AppendProperties
  <1>5. TypeOK'
    <2>1. m.len \in Nat
      BY <1>3 DEF Messages
    <2>2. conn' \in Quic!Connections /\ bytesThisEvent' \in Nat
      <3>1. conn \in Quic!Connections /\ bytesThisEvent \in Nat
        BY <1>1 DEF TypeOK
      <3>2. Quic!SendData(conn, Stream, m.len) \in Quic!Connections
        BY <2>1, <3>1, SendDataType
      <3>3. bytesThisEvent + m.len \in Nat
        BY <2>1, <3>1
      <3> QED BY <1>2, <3>2, <3>3
    <2> QED BY <1>1, <1>2, <1>3, <1>4, <2>2 DEF TypeOK
  <1>6. Accounting'
    <2>1. created = Len(handedOver) + Len(sendQueue) + droppedOnOverflow + cleared
      BY DEF PublisherInv, Accounting
    <2> QED BY <1>1, <1>2, <1>3, <1>4, <2>1 DEF Accounting, TypeOK
  <1>7. Ordered(sendQueue, handedOver, created)'
    <2>1. m.n = created - Len(sendQueue) + 1
      <3>1. 1 \in 1 .. Len(sendQueue)
        BY <1>3
      <3> QED BY <1>1, <1>3, <3>1 DEF Ordered
    <2>2. /\ \A i \in 1 .. Len(handedOver) : handedOver[i].n \in Nat
          /\ m.n \in Nat
      <3>1. \A x \in Messages : x.n \in Nat
        BY DEF Messages
      <3> QED BY <1>1, <1>3, <3>1
    <2>3. Ordered(Tail(sendQueue), handedOver, created)
      BY <1>1, <1>2, OrderDropped
    <2>4. \A i \in 1 .. Len(handedOver) :
            handedOver[i].n < m.n /\ \A j \in 1 .. i - 1 : handedOver[j].n < handedOver[i].n
      <3> TAKE i \in 1 .. Len(handedOver)
      <3>1. /\ handedOver[i].n <= created - Len(sendQueue)
            /\ \A j \in 1 .. i - 1 : handedOver[j].n < handedOver[i].n
        BY <1>1 DEF Ordered
      <3> QED BY <1>1, <1>3, <2>1, <2>2, <3>1
    <2>5. /\ \A i \in 1 .. Len(sendQueue') : sendQueue'[i].n = created - Len(sendQueue') + i
          /\ m.n <= created - Len(sendQueue')
      <3>1. \A i \in 1 .. Len(sendQueue') : sendQueue'[i].n = created - Len(sendQueue') + i
        BY <1>2, <2>3 DEF Ordered
      <3>2. m.n <= created - Len(sendQueue')
        BY <1>1, <1>3, <2>1, <2>2
      <3> QED BY <3>1, <3>2
    <2>6. Ordered(sendQueue', Append(handedOver, m), created)
      BY <1>1, <1>3, <2>4, <2>5, OrderWritten
    <2> QED BY <1>2, <2>6 DEF Ordered
  <1>8. QoS > 0 => Fresh(Known(sendQueue, handedOver), created, nextPacketId)'
    <2>1. Known(sendQueue', handedOver') \subseteq Known(sendQueue, handedOver)
      BY <1>1, <1>2, <1>3, KnownMoves DEF m
    <2>2. QoS > 0 => Fresh(Known(sendQueue', handedOver'), created, nextPacketId)
      BY <2>1, FreshFewer DEF PublisherInv
    <2> QED BY <1>2, <2>2 DEF Fresh, Known
  <1>9. proto # "tcp"
    BY <1>2 DEF PublisherInv
  <1> QED BY <1>2, <1>5, <1>6, <1>7, <1>8, <1>9 DEF PublisherInv

\* The queue is cleared when the application stops.
LEMMA StopStep ==
  ASSUME PublisherInv, StopPublishing
  PROVE  PublisherInv'
  <1>1. /\ sendQueue \in Seq(Messages) /\ handedOver \in Seq(Messages) /\ created \in Nat
        /\ Ordered(sendQueue, handedOver, created) /\ TypeOK
    BY DEF PublisherInv, TypeOK
  <1>2. /\ pc = "idle" /\ up # "stopped" /\ up' = "stopped" /\ connected' = FALSE
        /\ topicTimers' = {} /\ timerFlush' = FALSE
        /\ sendQueue' = <<>> /\ cleared' = Len(sendQueue) /\ cleared = 0 /\ ~burst.open
        /\ UNCHANGED <<proto, droppedOnOverflow, handedOver, created, nextPacketId,
                       nextSequence, offered, pubacksReceived, quicBlocked, pc, burst,
                       bytesThisEvent, conn>>
    BY DEF StopPublishing, PublisherInv, loop
  <1>3. Len(sendQueue) \in Nat /\ Len(handedOver) \in Nat /\ Len(sendQueue') = 0
    BY <1>1, <1>2
  <1>4. TypeOK'
    <2>1. sendQueue' \in Seq(Messages)
      BY <1>2, EmptySeq
    <2> QED BY <1>1, <1>2, <1>3, <2>1 DEF TypeOK
  <1>5. Accounting'
    <2>1. created = Len(handedOver) + Len(sendQueue) + droppedOnOverflow + cleared
      BY DEF PublisherInv, Accounting
    <2> QED BY <1>1, <1>2, <1>3, <2>1 DEF Accounting, TypeOK
  <1>6. Ordered(sendQueue, handedOver, created)'
    <2>1. \A i \in 1 .. Len(handedOver) : handedOver[i].n <= created
      <3> TAKE i \in 1 .. Len(handedOver)
      <3>1. handedOver[i].n <= created - Len(sendQueue)
        BY <1>1 DEF Ordered
      <3>2. handedOver[i].n \in Nat
        <4>1. handedOver[i] \in Messages
          BY <1>1
        <4> QED BY <4>1 DEF Messages
      <3> QED BY <1>1, <1>3, <3>1, <3>2
    <2> QED BY <1>1, <1>2, <1>3, <2>1 DEF Ordered
  <1>7. QoS > 0 => Fresh(Known(sendQueue, handedOver), created, nextPacketId)'
    <2>1. Known(<<>>, handedOver) \subseteq Known(sendQueue, handedOver)
      BY DEF Known
    <2>2. QoS > 0 => Fresh(Known(<<>>, handedOver), created, nextPacketId)
      BY <2>1, FreshFewer DEF PublisherInv
    <2> QED BY <1>2, <2>2 DEF Fresh, Known
  <1> QED BY <1>2, <1>4, <1>5, <1>6, <1>7 DEF PublisherInv

\* Every step keeps the invariant.
LEMMA InvStep ==
  ASSUME PublisherInv, [Next]_vars
  PROVE  PublisherInv'
  <1>t. TypeOK
    BY DEF PublisherInv
  <1>1. CASE SocketEstablished \/ Publish
    BY <1>1, MakeStep
  <1>2. CASE HandOver
    BY <1>2, HandOverStep
  <1>3. CASE StopPublishing
    BY <1>3, StopStep
  <1>4. CASE EndFlush
    <2>1. /\ pc = "flush" /\ timerFlush' = ArmFlush
          /\ \/ /\ burst.open /\ pc' = "burst"
                /\ burst' = [burst EXCEPT !.left = @ - 1]
                /\ offered' = [offered EXCEPT ![burst.topic] = @ + 1]
             \/ ~burst.open /\ pc' = "idle" /\ UNCHANGED <<burst, offered>>
          /\ UNCHANGED <<proto, up, connected, topicTimers, sendQueue, droppedOnOverflow,
                         handedOver, created, nextPacketId, nextSequence, pubacksReceived,
                         cleared, quicBlocked, bytesThisEvent, conn>>
      BY <1>4 DEF EndFlush, outbound
    <2>2. ArmFlush \in BOOLEAN
      BY <1>t DEF ArmFlush, TypeOK
    <2>3. CASE burst.open
      <3>1. burst.left > 0 /\ burst.left \in Nat /\ burst.left - 1 \in Nat
        BY <1>t, <2>1, <2>3 DEF PublisherInv, TypeOK
      <3>2. burst' \in [topic : Topics, left : Nat, open : BOOLEAN] /\ burst'.open
        BY <1>t, <2>1, <2>3, <3>1 DEF TypeOK
      <3>3. offered' \in [Topics -> Nat]
        BY <1>t, <2>1, <2>3 DEF TypeOK
      <3>4. TypeOK'
        BY <1>t, <2>1, <2>2, <2>3, <3>2, <3>3 DEF TypeOK
      <3>5. created > 0
        BY <2>3 DEF PublisherInv
      <3> QED BY <2>1, <2>3, <3>2, <3>4, <3>5, MessagesKept
    <2>4. CASE ~burst.open
      <3>1. TypeOK'
        BY <1>t, <2>1, <2>2, <2>4 DEF TypeOK
      <3> QED BY <2>1, <2>4, <3>1, MessagesKept
    <2> QED BY <2>3, <2>4
  <1>5. ASSUME NEW t \in Topics, PublishBurst(t) PROVE PublisherInv'
    <2>1. /\ pc = "idle" /\ topicTimers' = topicTimers \ {t} /\ ~burst.open
          /\ UNCHANGED <<proto, up, connected, timerFlush, sendQueue, droppedOnOverflow,
                         handedOver, created, nextPacketId, nextSequence, offered,
                         pubacksReceived, cleared, quicBlocked, bytesThisEvent, conn>>
      BY <1>5 DEF PublishBurst, outbound, counters, PublisherInv
    <2>2. CASE connected
      <3>1. pc' = "burst" /\ burst' = [topic |-> t, left |-> MessagesPerBurst[t], open |-> TRUE]
        BY <1>5, <2>2 DEF PublishBurst
      <3>2. MessagesPerBurst[t] \in Nat /\ created > 0
        BY <2>2, PublisherAssumption DEF PublisherInv
      <3>3. burst' \in [topic : Topics, left : Nat, open : BOOLEAN]
        BY <3>1, <3>2
      <3>4. TypeOK'
        BY <1>t, <2>1, <3>1, <3>3 DEF TypeOK
      <3> QED BY <2>1, <3>1, <3>2, <3>4, MessagesKept
    <2>3. CASE ~connected
      <3>1. UNCHANGED <<pc, burst>>
        BY <1>5, <2>3 DEF PublishBurst
      <3>2. TypeOK'
        BY <1>t, <2>1, <3>1 DEF TypeOK
      <3> QED BY <2>1, <3>1, <3>2, MessagesKept
    <2> QED BY <2>2, <2>3
  <1>6. CASE EndBurst
    <2>1. /\ pc = "burst" /\ pc' = "idle" /\ burst' = NoBurst
          /\ topicTimers' = topicTimers \cup {burst.topic}
          /\ UNCHANGED <<proto, up, connected, timerFlush, sendQueue, droppedOnOverflow,
                         handedOver, created, nextPacketId, nextSequence, offered,
                         pubacksReceived, cleared, quicBlocked, bytesThisEvent, conn>>
      BY <1>6 DEF EndBurst, outbound, counters
    <2>2. NoBurst \in [topic : Topics, left : Nat, open : BOOLEAN] /\ ~NoBurst.open
      BY PublisherAssumption DEF NoBurst
    <2>3. burst.topic \in Topics
      BY <1>t DEF TypeOK
    <2>4. TypeOK'
      BY <1>t, <2>1, <2>2, <2>3 DEF TypeOK
    <2> QED BY <2>1, <2>2, <2>4, MessagesKept
  <1>7. CASE TimerFlush \/ Drain
    <2>1. /\ pc = "idle" /\ pc' = "flush" /\ bytesThisEvent' = 0 /\ ~burst.open
          /\ timerFlush' \in BOOLEAN /\ quicBlocked' \in BOOLEAN
          /\ UNCHANGED <<proto, up, connected, topicTimers, sendQueue, droppedOnOverflow,
                         handedOver, created, nextPacketId, nextSequence, offered,
                         pubacksReceived, cleared, burst>>
      BY <1>t, <1>7 DEF TimerFlush, Drain, Indicated, Flush, timers, outbound,
                        counters, PublisherInv, TypeOK
    <2>2. conn' \in Quic!Connections
      <3>1. CASE TimerFlush
        BY <1>t, <3>1 DEF TimerFlush, TypeOK
      <3>2. CASE Drain
        BY <1>t, <3>2, TakeIndicationType DEF Drain, Indicated, TypeOK
      <3> QED BY <1>7, <3>1, <3>2
    <2>3. TypeOK'
      BY <1>t, <2>1, <2>2 DEF TypeOK
    <2> QED BY <2>1, <2>3, MessagesKept
  <1>8. CASE Connack
    <2>1. /\ pc = "idle" /\ up = "established" /\ connected' = TRUE /\ topicTimers' = Topics
          /\ UNCHANGED <<proto, up, timerFlush, sendQueue, droppedOnOverflow, handedOver,
                         created, nextPacketId, nextSequence, offered, pubacksReceived,
                         cleared, quicBlocked, pc, burst, bytesThisEvent, conn>>
      BY <1>8 DEF Connack, outbound, counters, loop
    <2>2. TypeOK'
      BY <1>t, <2>1 DEF TypeOK
    <2> QED BY <2>1, <2>2, MessagesKept DEF PublisherInv
  <1>9. CASE Puback
    <2>1. /\ pubacksReceived' = pubacksReceived + 1
          /\ UNCHANGED <<proto, up, connected, topicTimers, timerFlush, sendQueue,
                         droppedOnOverflow, handedOver, created, nextPacketId, nextSequence,
                         offered, cleared, quicBlocked, pc, burst, bytesThisEvent, conn>>
      BY <1>9 DEF Puback, timers, outbound, loop
    <2>2. TypeOK'
      BY <1>t, <2>1 DEF TypeOK
    <2> QED BY <2>1, <2>2, MessagesKept DEF PublisherInv
  <1>10. CASE FullOrRejected \/ QuicHandleRequest \/ QuicAck
    <2>1. /\ quicBlocked' \in BOOLEAN
          /\ UNCHANGED <<proto, up, connected, topicTimers, timerFlush, sendQueue,
                         droppedOnOverflow, handedOver, created, nextPacketId, nextSequence,
                         offered, pubacksReceived, cleared, pc, burst, bytesThisEvent>>
      BY <1>t, <1>10 DEF FullOrRejected, QuicHandleRequest, QuicAck, timers, outbound,
                         counters, loop, TypeOK
    <2>2. conn' \in Quic!Connections
      <3>1. conn \in Quic!Connections
        BY <1>t DEF TypeOK
      <3>2. CASE FullOrRejected
        BY <3>1, <3>2, TakeIndicationType DEF FullOrRejected, Indicated
      <3>3. CASE QuicHandleRequest
        BY <3>1, <3>3, HandleRequestType DEF QuicHandleRequest
      <3>4. CASE QuicAck
        BY <3>1, <3>4, AcknowledgeType DEF QuicAck
      <3> QED BY <1>10, <3>2, <3>3, <3>4
    <2>3. TypeOK'
      BY <1>t, <2>1, <2>2 DEF TypeOK
    <2> QED BY <2>1, <2>3, MessagesKept DEF PublisherInv
  <1>11. CASE UNCHANGED vars
    <2>1. UNCHANGED <<proto, up, connected, topicTimers, timerFlush, sendQueue,
                      droppedOnOverflow, handedOver, created, nextPacketId, nextSequence,
                      offered, pubacksReceived, cleared, quicBlocked, pc, burst,
                      bytesThisEvent, conn>>
      BY <1>11 DEF vars, timers, outbound, counters, loop
    <2>2. TypeOK'
      BY <1>t, <2>1 DEF TypeOK
    <2> QED BY <2>1, <2>2, MessagesKept DEF PublisherInv
  <1> QED BY <1>1, <1>2, <1>3, <1>4, <1>5, <1>6, <1>7, <1>8, <1>9, <1>10, <1>11
          DEF Next, Loops, Indication

LEMMA Always == Spec => []PublisherInv
  BY InitInv, InvStep, PTL DEF Spec

-----------------------------------------------------------------------------
(* The theorems.                                                           *)

\* Every variable of MqttPublisherApp keeps its type, for every set of topics and every
\* size and limit.
THEOREM TypeCorrect == Spec => []TypeOK
  <1>1. PublisherInv => TypeOK
    BY DEF PublisherInv
  <1> QED BY Always, <1>1, PTL

\* Every message created was written to the socket, waits, was dropped on overflow and
\* counted, or was cleared by the stop (sendBytes, stopPublishing).
THEOREM AccountingAlways == Spec => []Accounting
  <1>1. PublisherInv => Accounting
    BY DEF PublisherInv
  <1> QED BY Always, <1>1, PTL

\* The outbound queue holds the newest messages in order, and what was written is older and
\* went in order, whatever the limit (sendBytes, flushSendQueue).
THEOREM FreshestWaitAlways == Spec => []FreshestWait
  <1>1. PublisherInv => FreshestWait
    BY DEF PublisherInv, Ordered, FreshestWait
  <1> QED BY Always, <1>1, PTL

\* No publication carries packet identifier zero, and two share one only when the whole
\* range was used between them, whatever was dropped meanwhile (publishBurst).
THEOREM IdentifiersFreshAlways == Spec => []IdentifiersFresh
  <1>1. PublisherInv => IdentifiersFresh
    <2> SUFFICES ASSUME PublisherInv, QoS > 0,
                        NEW i \in 1 .. Len(handedOver), NEW j \in 1 .. Len(handedOver),
                        1 < handedOver[i].n, handedOver[i].n < handedOver[j].n
                 PROVE  /\ handedOver[i].id # 0 /\ handedOver[j].id # 0
                        /\ handedOver[i].id = handedOver[j].id =>
                             handedOver[j].n - handedOver[i].n >= PacketIds - 1
      BY DEF IdentifiersFresh
    <2>1. Fresh(Known(sendQueue, handedOver), created, nextPacketId)
      BY DEF PublisherInv
    <2>2. /\ handedOver[i] \in Known(sendQueue, handedOver)
          /\ handedOver[j] \in Known(sendQueue, handedOver)
      BY DEF Known
    <2>3. handedOver[i].n \in Nat /\ handedOver[j].n \in Nat
      <3>1. handedOver[i] \in Messages /\ handedOver[j] \in Messages
        BY DEF PublisherInv, TypeOK
      <3> QED BY <3>1 DEF Messages
    <2>4. 1 < handedOver[j].n
      BY <2>3
    <2> QED BY <2>1, <2>2, <2>4 DEF Fresh
  <1> QED BY Always, <1>1, PTL

=============================================================================
