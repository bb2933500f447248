---------------------------- MODULE MqttFraming ----------------------------
(***************************************************************************)
(* MqttFraming.h: the bytes of MQTT control packets, and handleIncoming's  *)
(* parse loop, which all three MQTT applications share.                    *)
(*                                                                         *)
(* A byte is a number below 256, a string a sequence of bytes, a packet a  *)
(* record of type, flags and body.  putI64 is translated for numbers below *)
(* 2^31, the largest TLC counts to: its upper four bytes are zero.         *)
(***************************************************************************)
EXTENDS ByteStreams, FiniteSets, FiniteSetsExt, SequencesExt

CONNECT == 1
CONNACK == 2
PUBLISH == 3
PUBACK == 4
SUBSCRIBE == 8
SUBACK == 9
MESSAGE_EXPIRY_INTERVAL == 2

PutU16(v) == <<(v \div 256) % 256, v % 256>>
PutU32(v) == <<(v \div 16777216) % 256, (v \div 65536) % 256, (v \div 256) % 256, v % 256>>
PutI64(v) == <<0, 0, 0, 0>> \o PutU32(v)
PutString(s) == PutU16(Len(s)) \o s

\* The number at place i of b.
GetU16(b, i) == 256 * b[i] + b[i + 1]
GetU32(b, i) == 16777216 * b[i] + 65536 * b[i + 1] + 256 * b[i + 2] + b[i + 3]
GetI64(b, i) == GetU32(b, i + 4)

\* What a bit is worth behind each byte of a variable byte integer.
Place == <<1, 128, 16384, 2097152, 268435456>>

VarIntSize(v) == Min({5} \cup {n \in 1 .. 4 : v < Place[n + 1]})

\* A variable byte integer: seven bits a byte, the low ones first.
PutVarInt(v) ==
  LET n == VarIntSize(v)
  IN  [i \in 1 .. n |-> ((v \div Place[i]) % 128) + (IF i < n THEN 128 ELSE 0)]

NotYet == [ok |-> FALSE, out |-> 0, used |-> 0]

\* What the first n bytes of b are worth, which are at most four.
Digits(b, n) ==
  LET Digit(i) == IF i <= n THEN (b[i] % 128) * Place[i] ELSE 0
  IN  Digit(1) + Digit(2) + Digit(3) + Digit(4)

\* The integer at the front of b, if it is there whole and has at most four bytes.
GetVarInt(b) ==
  LET ends == {i \in 1 .. Len(b) : i <= 4 /\ b[i] < 128}
  IN  IF ends = {} THEN NotYet
      ELSE [ok |-> TRUE, used |-> Min(ends), out |-> Digits(b, Min(ends))]

-----------------------------------------------------------------------------
\* Packets.

Packet(type, flags, body) == [type |-> type, flags |-> flags, body |-> body]

\* The packet on the wire.
Frame(p) == <<p.type * 16 + p.flags>> \o PutVarInt(Len(p.body)) \o p.body

EncodeConnect(clientId) ==
  Packet(CONNECT, 0, PutString(<<77, 81, 84, 84>>) \o <<5, 2>> \o PutU16(0) \o PutVarInt(0)
                     \o PutString(clientId))
EncodeConnack == Packet(CONNACK, 0, <<0, 0, 0>>)
EncodePuback(id) == Packet(PUBACK, 0, PutU16(id) \o <<0, 0>>)
EncodeSuback(id, n, qos) == Packet(SUBACK, 0, PutU16(id) \o <<0>> \o [i \in 1 .. n |-> qos])
EncodeSubscribe(id, topics, qos) ==
  Packet(SUBSCRIBE, 2, PutU16(id) \o <<0>>
                       \o FlattenSeq([i \in DOMAIN topics |-> PutString(topics[i]) \o <<qos>>]))

EncodePublish(m) ==
  LET props == IF m.expiry > 0 THEN <<MESSAGE_EXPIRY_INTERVAL>> \o PutU32(m.expiry) ELSE <<>>
  IN  Packet(PUBLISH, m.qos * 2,
             PutString(m.topic) \o (IF m.qos > 0 THEN PutU16(m.packetId) ELSE <<>>)
             \o PutVarInt(Len(props)) \o props \o PutI64(m.creationTime) \o PutI64(m.sequence)
             \o [i \in 1 .. m.payloadLength |-> 0])

Incomplete == [consumed |-> 0, frames |-> <<>>]

\* A packet is taken when its length is known, before its body has come.
BugTryParse(b) ==
  IF b = <<>> \/ ~GetVarInt(Tail(b)).ok THEN Incomplete
  ELSE LET start == 1 + GetVarInt(Tail(b)).used
           end   == Min({Len(b), start + GetVarInt(Tail(b)).out})
       IN  [consumed |-> end,
            frames |-> <<Packet(b[1] \div 16, b[1] % 16, SubSeq(b, start + 1, end))>>]

\* The first packet of b, if it is there whole.
TryParse(b) ==
  IF b = <<>> \/ ~GetVarInt(Tail(b)).ok THEN Incomplete
  ELSE LET start == 1 + GetVarInt(Tail(b)).used
           end   == start + GetVarInt(Tail(b)).out
       IN  IF Len(b) < end THEN Incomplete
           ELSE [consumed |-> end,
                 frames |-> <<Packet(b[1] \div 16, b[1] % 16, SubSeq(b, start + 1, end))>>]

Parse == [b \in Bytes |-> TryParse(b)]

\* parsePublish, of a body long enough for what its lengths say (Publish makes no other).
ParsePublish(p) ==
  LET b       == p.body
      afterT  == 2 + GetU16(b, 1)
      qos     == (p.flags \div 2) % 4
      afterId == IF qos > 0 THEN afterT + 2 ELSE afterT
      props   == GetVarInt(Behind(b, afterId))
      first   == afterId + props.used
      start   == first + props.out
  IN  [topic         |-> SubSeq(b, 3, afterT),
       qos           |-> qos,
       packetId      |-> IF qos > 0 THEN GetU16(b, afterT + 1) ELSE 0,
       expiry        |-> IF props.out > 0 THEN GetU32(b, first + 2) ELSE 0,
       creationTime  |-> GetI64(b, start + 1),
       sequence      |-> GetI64(b, start + 9),
       payloadLength |-> Len(b) - start - 16]

\* parseSubscribe, of a body without properties and as long as its lengths say (no other
\* is sent).
ParseSubscribe(p) ==
  LET b    == p.body
      from[i \in 0 .. Len(b)] ==
        LET n == GetU16(b, i + 1)
        IN  IF i + 2 > Len(b) \/ i + 3 + n > Len(b) THEN <<>>
            ELSE <<SubSeq(b, i + 3, i + 2 + n)>> \o from[i + 3 + n]
  IN  [packetId |-> GetU16(b, 1), topics |-> from[3], qos |-> b[Len(b)] % 4]

-----------------------------------------------------------------------------
\* handleIncoming: the bytes are appended to the buffer, whole packets leave it.

Received(buffer, bytes) == Arrived(Parse, buffer, bytes)

-----------------------------------------------------------------------------
\* Properties, over messages and lengths at the boundaries of the encoding.

Boundaries == {0, 1, 127, 128, 129, 16383, 16384, 2097151, 2097152, 268435455}
Topic1 == <<118, 47, 98>>
SampleMessages ==
  [topic : {Topic1, <<>>}, qos : {0, 1}, packetId : {0, 256, 65535}, expiry : {0, 1, 65536},
   creationTime : {0, 70000}, sequence : {0, 255, 256}, payloadLength : {0, 1, 130}]
Sent(m) == [m EXCEPT !.packetId = IF m.qos > 0 THEN @ ELSE 0]

\* Lengths: what putVarInt writes getVarInt reads, and no proper prefix of it; a fifth
\* byte, which a larger number would need, is never read.
LengthsInvert ==
  /\ \A v \in Boundaries :
       /\ GetVarInt(PutVarInt(v)) = [ok |-> TRUE, out |-> v, used |-> VarIntSize(v)]
       /\ \A n \in 0 .. VarIntSize(v) - 1 : ~GetVarInt(SubSeq(PutVarInt(v), 1, n)).ok
  /\ ~GetVarInt(PutVarInt(268435456)).ok

\* A message or a SUBSCRIBE comes out of its parser as it went into the encoder.
BodiesInvert ==
  /\ \A m \in SampleMessages : ParsePublish(EncodePublish(m)) = Sent(m)
  /\ \A topics \in {<<Topic1>>, <<Topic1, <<1>>, Topic1>>}, q \in {0, 1} :
       ParseSubscribe(EncodeSubscribe(258, topics, q)) =
         [packetId |-> 258, topics |-> topics, qos |-> q]

\* However a stream is cut into arrivals, the parse loop yields the packets written, in
\* order, each once, and keeps the rest.
CutsDoNotMatter ==
  LET m      == [topic |-> Topic1, qos |-> 1, packetId |-> 300, expiry |-> 2,
                 creationTime |-> 5, sequence |-> 7, payloadLength |-> 101]
      ps     == <<EncodeConnect(<<1, 2>>), EncodeSubscribe(1, <<Topic1>>, 0),
                  EncodePublish(m), EncodePuback(300), EncodeConnack, EncodeSuback(1, 1, 1)>>
      bytes  == FlattenSeq([i \in DOMAIN ps |-> Frame(ps[i])])
  IN  \A k \in 0 .. Len(bytes) :
        LET first == Received(<<>>, SubSeq(bytes, 1, k))
            rest  == Received(first.buffer, SubSeq(bytes, k + 1, Len(bytes)))
        IN  first.frames \o rest.frames = ps /\ rest.buffer = <<>>
=============================================================================
