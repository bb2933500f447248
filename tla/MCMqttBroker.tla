---------------------------- MODULE MCMqttBroker ----------------------------
(* The instance of MqttBroker for TLC, one publisher of two topics, and the  *)
(* streams of its connections as the bytes of MqttFraming.                   *)
EXTENDS MqttBroker, MqttFraming

CONSTANTS pub, s1, s2, bbox, pcloud

McPublishers  == {pub}
McSubscribers == {s1, s2}
McTopics      == {bbox, pcloud}
McPublisherOf == [t \in Topics |-> pub]
McFilters     == [s \in Subscribers |-> IF s = s1 THEN Topics ELSE {bbox}]
McMaxMessages == [t \in Topics |-> IF t = bbox THEN 1 ELSE 2]
McProtocols   == {"quic", "tcp"}
McMayLeave    == {s2}

Name(t) == IF t = bbox THEN <<98>> ELSE <<112, 99>>

\* The topics of client c's SUBSCRIBE.
Names(c) == SetToSeq({Name(t) : t \in Filters[c]})

\* The control packet that packet p of client c stands for.
Encoded(c, p) ==
  CASE p.type = "CONNECT"   -> EncodeConnect(<<99>>)
    [] p.type = "CONNACK"   -> EncodeConnack
    [] p.type = "SUBSCRIBE" -> EncodeSubscribe(1, Names(c), QoS)
    [] p.type = "SUBACK"    -> EncodeSuback(1, Len(Names(c)), QoS)
    [] p.type = "PUBACK"    -> EncodePuback(p.id)
    [] p.type = "PUBLISH"   -> EncodePublish([topic |-> Name(p.topic), qos |-> QoS,
         packetId |-> p.id, expiry |-> 1, creationTime |-> 0, sequence |-> p.seq,
         payloadLength |-> 1])

\* What one application encodes another decodes, however the bytes arrive; and so the
\* streams of the model, sent as bytes, are read as the packets the model has in them
\* (MqttFraming.h, handleIncoming).
PacketsSurvive ==
  /\ LengthsInvert /\ BodiesInvert /\ CutsDoNotMatter
  /\ \A c \in Clients : \A q \in {toBroker[c], toClient[c]} :
       LET packets == [i \in DOMAIN q |-> Encoded(c, q[i])]
       IN  Received(<<>>, FlattenSeq([i \in DOMAIN q |-> Frame(packets[i])]))
             = [frames |-> packets, buffer |-> <<>>]
=============================================================================
