------------------------------ MODULE MCDirect ------------------------------
(* The instance of MoqDirect for TLC: objects of one and of two datagrams,   *)
(* and the frames of the model as the bytes of MoqFraming.                   *)
EXTENDS MoqDirect, MoqFraming

CONSTANTS s1, s2, bbox, pcloud

McSubscribers     == {s1, s2}
McTracks          == {bbox, pcloud}
McWants           == [s \in Subscribers |-> IF s = s1 THEN Tracks ELSE {pcloud}]
McObjectsPerGroup == [t \in Tracks |-> IF t = bbox THEN 2 ELSE 1]
McFragments       == [t \in Tracks |-> IF t = bbox THEN 1 ELSE 2]
McMaxObjects      == [t \in Tracks |-> IF t = bbox THEN 2 ELSE 1]
McProtocols       == {"tcp", "udp"}
McMayLeave        == {s2}

Name(t) == IF t = bbox THEN <<99, 47, 98>> ELSE <<99, 47, 112, 99>>

\* The datagrams of this instance carry this many bytes of a frame.
MaxChunk == 200

\* An object of so many datagrams fits the fields that say where its fragments go, and so
\* does the number of the last one.
ASSUME FieldsHold ==
  \A t \in Tracks : MaxChunk * Fragments[t] \in Words /\ MaxObjects[t] \in Longs

Class(f) == IF f.class = "OBJECT" THEN MSG_OBJECT ELSE MSG_CONTROL

\* What frame f of the model says, and its bytes; the payload of an object fills its datagrams.
Said(f) ==
  IF f.class = "OBJECT"
  THEN [trackId |-> 0, groupId |-> f.objectId, subgroupId |-> 0, objectId |-> f.objectId,
        priority |-> 0, payloadLength |-> MaxChunk * Fragments[f.track] - 64 - Len(Name(f.track)),
        creationTime |-> 0, trackAlias |-> Name(f.track)]
  ELSE [OneControl EXCEPT !.trackAlias = Name(f.track),
          !.type = CASE f.class = "ANNOUNCE" -> 1 [] f.class = "SUBSCRIBE" -> 2 [] OTHER -> 3]
Written(f) == IF f.class = "OBJECT" THEN Encode(Said(f)) ELSE EncodeControl(Said(f))

\* Frame f as the receiver reads it from an envelope, and from its datagrams, which are as many
\* as in the model and name the frame they belong to.
ReadsBack(f) ==
  LET wire  == EncodeEnvelope(Class(f), Written(f))
      n     == FragmentCount(f)
      frags == FragmentFrame(Class(f), Name(f.track), f.objectId, Written(f), MaxChunk)
  IN  /\ TryParseEnvelope(wire) = [consumed |-> Len(wire), frames |-> <<Said(f)>>]
      /\ Len(frags) = n
      /\ \A i \in 1 .. n :
           LET d == ParseUdpFragment(frags[i])
           IN  /\ d.ok /\ d.msgClass = Class(f) /\ d.trackAlias = Name(f.track)
               /\ d.objectId = f.objectId /\ d.fragIndex = i - 1 /\ d.fragCount = n
      /\ Reassembled(frags).complete /\ Reassembled(frags).data = Written(f)

\* The frames there can be.
Possible ==
  [class : {"ANNOUNCE", "SUBSCRIBE", "SUBSCRIBE_OK"}, track : Tracks, objectId : {-1}]
  \cup UNION {[class : {"OBJECT"}, track : {t}, objectId : 0 .. MaxObjects[t] - 1] : t \in Tracks}

PossibleReadBack == \A f \in Possible : ReadsBack(f)

\* What one application encodes another decodes, however a TCP stream is cut and in whatever
\* order fragments come; and so the frames of the model, sent as bytes, are read as what they
\* are, and their datagrams name the frame they belong to (MoqFraming.h).
FramesSurvive ==
  /\ FramesInvert /\ EnvelopesInvert /\ FragmentsInvert /\ PossibleReadBack
  /\ \A p \in Peers : Range(toRelay[p]) \cup Range(toPeer[p]) \subseteq Possible
  /\ \A d \in BagToSet(net) : d.frame \in Possible
=============================================================================
