-------------------------- MODULE MCMqttPublisher --------------------------
(* Instances of MqttPublisher for TLC: one small and one bulky topic.       *)
EXTENDS MqttPublisher

CONSTANTS bbox, pcloud

McTopics           == {bbox, pcloud}
McMessageBytes     == [t \in Topics |-> IF t = bbox THEN 1 ELSE 2]
McMessagesPerBurst == [t \in Topics |-> IF t = bbox THEN 4 ELSE 3]
McMaxBursts        == [t \in Topics |-> 1]
McBoth             == {"quic", "tcp"}
McQuic             == {"quic"}
=============================================================================
