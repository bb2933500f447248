----------------------------- MODULE MoqFraming -----------------------------
(***************************************************************************)
(* MoqFraming.h: the bytes of MoQ frames, the envelope that tells control  *)
(* from objects on a TCP stream, and the fragments of a frame over UDP.    *)
(*                                                                         *)
(* A byte is a number below 256, a string a sequence of bytes.             *)
(***************************************************************************)
EXTENDS ByteStreams, FiniteSets, FiniteSetsExt, SequencesExt

MSG_CONTROL == 1
MSG_OBJECT == 2

\* v shifted by a byte, by four.
Up(v) == v \div 256
Up4(v) == Up(Up(Up(Up(v))))

\* What a uint32_t and an int64_t hold.
Words == {v \in Int : Up4(v) = 0}
Longs == {v \in Int : Up(Up(Up(Up4(v)))) \in -128 .. 127}

PutU32(v) == <<v % 256, Up(v) % 256, Up(Up(v)) % 256, Up(Up(Up(v))) % 256>>
PutI64(v) == PutU32(v) \o PutU32(Up4(v))
PutStr(s) == PutU32(Len(s)) \o s

\* The number at place i of b; top is what is above its four bytes.
Value(b, i, top) == b[i] + 256 * (b[i + 1] + 256 * (b[i + 2] + 256 * (b[i + 3] + 256 * top)))
GetU32(b, i) == Value(b, i, 0)
GetI64(b, i) == Value(b, i, Value(b, i + 4, IF b[i + 7] < 128 THEN 0 ELSE -1))

\* The string at place i of b, behind its length, and the place behind it.
GetStr(b, i) == SubSeq(b, i + 4, i + 3 + GetU32(b, i))
After(b, i) == i + 4 + GetU32(b, i)

LengthPrefixed(body) == PutU32(Len(body)) \o body

\* The length prefix not counted.
BugHasFrame(b) == Len(b) >= 4 /\ Len(b) >= GetU32(b, 1)

\* b starts with a whole frame, whose body it is.
HasFrame(b) == Len(b) >= 4 /\ Len(b) >= 4 + GetU32(b, 1)
Body(b) == SubSeq(b, 5, 4 + GetU32(b, 1))

NotYet == [consumed |-> 0, frames |-> <<>>]
Took(b, frame) == [consumed |-> 4 + GetU32(b, 1), frames |-> <<frame>>]

-----------------------------------------------------------------------------
\* Object frames and control frames.  A body is as long as its fields say (the encoders
\* make no other).

Numbers(ns) == FlattenSeq([k \in DOMAIN ns |-> PutI64(ns[k])])

Encode(f) ==
  LengthPrefixed(Numbers(<<f.trackId, f.groupId, f.subgroupId, f.objectId, f.priority,
                           f.payloadLength, f.creationTime>>)
                 \o PutStr(f.trackAlias) \o [i \in 1 .. f.payloadLength |-> 0])

EncodeControl(c) ==
  LengthPrefixed(<<c.type>>
                 \o Numbers(<<c.trackId, c.publisherId, c.priority, c.payloadSize,
                              c.startObjectId, c.subscriberPriority, c.statusCode,
                              c.sendInterval, c.deliveryTimeout>>)
                 \o PutStr(c.trackNamespace) \o PutStr(c.trackName)
                 \o PutStr(c.trackAlias) \o PutStr(c.subscriberId))

\* The object of a body.
ObjectIn(b) ==
  LET n(k) == GetI64(b, 8 * k - 7)
  IN  [trackId |-> n(1), groupId |-> n(2), subgroupId |-> n(3), objectId |-> n(4),
       priority |-> n(5), payloadLength |-> n(6), creationTime |-> n(7),
       trackAlias |-> GetStr(b, 57)]

\* The control message of a body.
ControlIn(b) ==
  LET n(k)  == GetI64(b, 8 * k - 6)
      name  == After(b, 74)
      alias == After(b, name)
  IN  [type |-> b[1], trackId |-> n(1), publisherId |-> n(2), priority |-> n(3),
       payloadSize |-> n(4), startObjectId |-> n(5), subscriberPriority |-> n(6),
       statusCode |-> n(7), sendInterval |-> n(8), deliveryTimeout |-> n(9),
       trackNamespace |-> GetStr(b, 74), trackName |-> GetStr(b, name),
       trackAlias |-> GetStr(b, alias), subscriberId |-> GetStr(b, After(b, alias))]

TryParse(b) == IF HasFrame(b) THEN Took(b, ObjectIn(Body(b))) ELSE NotYet
TryParseControl(b) == IF HasFrame(b) THEN Took(b, ControlIn(Body(b))) ELSE NotYet

-----------------------------------------------------------------------------
\* TCP: one stream, a class byte before each frame.

EncodeEnvelope(class, frame) == <<class>> \o frame

\* An unknown class is skipped.
TryParseEnvelope(b) ==
  IF b = <<>> THEN NotYet
  ELSE IF b[1] \notin {MSG_CONTROL, MSG_OBJECT} THEN [consumed |-> 1, frames |-> <<>>]
  ELSE LET r == IF b[1] = MSG_CONTROL THEN TryParseControl(Tail(b)) ELSE TryParse(Tail(b))
       IN  IF r.consumed = 0 THEN NotYet ELSE [r EXCEPT !.consumed = @ + 1]

Parse == [b \in Bytes |-> TryParseEnvelope(b)]

\* The receive loop.
Received(buffer, bytes) == Arrived(Parse, buffer, bytes)

-----------------------------------------------------------------------------
\* UDP: fragments.

EncodeUdpFragment(class, alias, id, index, count, offset, total, chunk) ==
  <<class>> \o PutI64(id) \o PutU32(index) \o PutU32(count) \o PutU32(offset)
  \o PutU32(total) \o PutStr(alias) \o chunk

FragmentFrame(class, alias, id, frame, maxChunk) ==
  LET size  == Max({maxChunk, 1})
      count == Max({(Len(frame) + size - 1) \div size, 1})
  IN  [i \in 1 .. count |->
         EncodeUdpFragment(class, alias, id, i - 1, count, (i - 1) * size, Len(frame),
                           SubSeq(frame, (i - 1) * size + 1, Min({i * size, Len(frame)})))]

ParseUdpFragment(b) ==
  IF Len(b) < 29 \/ 29 + GetU32(b, 26) > Len(b) THEN [ok |-> FALSE]
  ELSE [ok |-> TRUE, msgClass |-> b[1], objectId |-> GetI64(b, 2), fragIndex |-> GetU32(b, 10),
        fragCount |-> GetU32(b, 14), fragOffset |-> GetU32(b, 18), totalLen |-> GetU32(b, 22),
        trackAlias |-> GetStr(b, 26), chunk |-> SubSeq(b, 30 + GetU32(b, 26), Len(b))]

NoReassembler == [fragCount |-> 0, data |-> <<>>, have |-> {}, complete |-> FALSE]

\* The data with the chunk of f copied in, if it fits.
Filled(data, f) ==
  IF f.fragOffset + Len(f.chunk) > Len(data) THEN data
  ELSE [i \in DOMAIN data |-> IF i - f.fragOffset \in 1 .. Len(f.chunk)
                              THEN f.chunk[i - f.fragOffset] ELSE data[i]]

\* UdpObjectReassembler::add; the first fragment makes the room.
AddFragment(r, f) ==
  LET count == IF r.fragCount = 0 THEN f.fragCount ELSE r.fragCount
      data  == IF r.fragCount = 0 THEN [i \in 1 .. f.totalLen |-> 0] ELSE r.data
  IN  IF f.fragIndex >= count \/ f.fragIndex \in r.have
      THEN [r EXCEPT !.fragCount = count, !.data = data]
      ELSE [fragCount |-> count, data |-> Filled(data, f), have |-> r.have \cup {f.fragIndex},
            complete |-> r.complete \/ Cardinality(r.have) + 1 = count]

\* What has been collected when the datagrams ds have come, in that order.
Reassembled(ds) ==
  LET after[i \in 0 .. Len(ds)] ==
        IF i = 0 THEN NoReassembler ELSE AddFragment(after[i - 1], ParseUdpFragment(ds[i]))
  IN  after[Len(ds)]

-----------------------------------------------------------------------------
\* Properties, over frames and sizes at the boundaries of the encoding.

Alias == <<99, 97, 114, 47, 98>>
SampleObjects ==
  [trackId : {0, 1}, groupId : {255}, subgroupId : {0}, objectId : {0, 65536}, priority : {-1, 3},
   payloadLength : {0, 1, 200}, creationTime : {70000}, trackAlias : {Alias, <<>>}]
SampleControl ==
  [type : {1, 4}, trackId : {1}, publisherId : {2}, priority : {-1, 256}, payloadSize : {0, 37500},
   startObjectId : {0}, subscriberPriority : {5}, statusCode : {6}, sendInterval : {0, 100000},
   deliveryTimeout : {0}, trackNamespace : {<<>>, Alias}, trackName : {<<98>>},
   trackAlias : {Alias}, subscriberId : {<<115>>}]
OneObject ==
  [trackId |-> 1, groupId |-> 255, subgroupId |-> 0, objectId |-> 65536, priority |-> -1,
   payloadLength |-> 1, creationTime |-> 70000, trackAlias |-> Alias]
OneControl ==
  [type |-> 4, trackId |-> 1, publisherId |-> 2, priority |-> -1, payloadSize |-> 37500,
   startObjectId |-> 0, subscriberPriority |-> 5, statusCode |-> 6, sendInterval |-> 100000,
   deliveryTimeout |-> 0, trackNamespace |-> <<>>, trackName |-> <<98>>,
   trackAlias |-> Alias, subscriberId |-> <<115>>]

\* A frame comes out of its parser as it went into the encoder, and no proper part of it does.
FramesInvert ==
  /\ \A f \in SampleObjects :
       /\ TryParse(Encode(f)) = [consumed |-> Len(Encode(f)), frames |-> <<f>>]
       /\ ~HasFrame(SubSeq(Encode(f), 1, Len(Encode(f)) - 1))
  /\ \A c \in SampleControl :
       TryParseControl(EncodeControl(c)) = [consumed |-> Len(EncodeControl(c)), frames |-> <<c>>]

\* However a TCP stream is cut, the receive loop yields the frames written, each once.
EnvelopesInvert ==
  LET control == EncodeEnvelope(MSG_CONTROL, EncodeControl(OneControl))
      object  == EncodeEnvelope(MSG_OBJECT, Encode(OneObject))
      bytes   == FlattenSeq(<<control, object, control>>)
  IN  \A k \in 0 .. Len(bytes) :
        LET first == Received(<<>>, SubSeq(bytes, 1, k))
            rest  == Received(first.buffer, SubSeq(bytes, k + 1, Len(bytes)))
        IN  /\ first.frames \o rest.frames = <<OneControl, OneObject, OneControl>>
            /\ rest.buffer = <<>>

\* Whatever the size of the datagrams, the order they come in and how often each comes, a
\* frame is complete with the last of its fragments, not before, and is as it was.
FragmentsInvert ==
  \A size \in {18, 34, 35, 36, 69, 70, 71, 1200} :
    LET frame == Encode(OneObject)
        frags == FragmentFrame(MSG_OBJECT, Alias, -1, frame, size)
        n     == Len(frags)
    IN  \A order \in UNION {[1 .. m -> 1 .. n] : m \in 0 .. n + 1} :
          LET r == Reassembled([i \in DOMAIN order |-> frags[order[i]]])
          IN  /\ r.complete <=> \A k \in 1 .. n : \E i \in DOMAIN order : order[i] = k
              /\ r.complete => r.data = frame
=============================================================================
