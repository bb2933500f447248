---------------------------- MODULE MoqDirectProofs ----------------------------
(* Theorems about MoqDirect, for every set of subscribers and tracks, every  *)
(* size of an object and of a datagram, and every bound: its types, that a   *)
(* frame is recorded only when all its fragments have come, and that over    *)
(* TCP a subscriber has a track without gap or repetition, over UDP without  *)
(* repetition unless the network has repeated one of its datagrams.  Then    *)
(* about MoqFraming, for every message, division of a stream and order of    *)
(* fragments; and at last that the frames of MoqDirect, sent as bytes, are   *)
(* read as what they are.                                                    *)
(*                                                                           *)
(* The relay and the peers share both transports' code, so each invariant    *)
(* speaks of the one it is about; they are proved in their order, each with  *)
(* the help of those before it.                                              *)
EXTENDS MCDirect, ByteStreamTheorems, FiniteSetTheorems, SequenceTheorems, TLAPS

-----------------------------------------------------------------------------
(* The inductive invariants.                                               *)

\* Who sends what to whom.
Routed(from, to, f) ==
  \/ from = Publisher /\ to = Relay /\ f.class \in {"ANNOUNCE", "OBJECT"}
  \/ from \in Subscribers /\ to = Relay /\ f.class = "SUBSCRIBE"
  \/ from = Relay /\ to = Publisher /\ f.class = "SUBSCRIBE_OK"
  \/ from = Relay /\ to \in Subscribers /\ f.class = "OBJECT"

Travels(d) == Routed(d.from, d.to, d.frame) /\ d.fragIndex \in 0 .. FragmentCount(d.frame) - 1

\* Frames on the way go where they may, each transport in its own channels.
WiresInv ==
  /\ proto \in {"tcp", "udp"}
  /\ toRelay \in [Peers -> Seq(Frames)] /\ toPeer \in [Peers -> Seq(Frames)]
  /\ IsABag(net) /\ DOMAIN net \subseteq Datagrams
  /\ \A p \in Peers : \A i \in DOMAIN toRelay[p] : Routed(p, Relay, toRelay[p][i])
  /\ \A p \in Peers : \A i \in DOMAIN toPeer[p] : Routed(Relay, p, toPeer[p][i])
  /\ \A d \in DOMAIN net : Travels(d)
  /\ proto = "tcp" => DOMAIN net = {}
  /\ proto = "udp" => \A p \in Peers : toRelay[p] = <<>> /\ toPeer[p] = <<>>

Places == Peers \cup {Relay}
Keys   == [at : Places, from : Places, frame : Frames]

\* What is collected of a frame is known by its fragments, which have come.
CollectedInv ==
  /\ lost \in Seq(Datagrams) /\ duplicated \in Seq(Datagrams) /\ delivered \subseteq Datagrams
  /\ DOMAIN udpReasm \subseteq Keys
  /\ proto = "tcp" => DOMAIN udpReasm = {}
  /\ \A k \in DOMAIN udpReasm :
       /\ udpReasm[k].have \subseteq 0 .. FragmentCount(k.frame) - 1 /\ udpReasm[k].have # {}
       /\ udpReasm[k].receivedFrags \in 1 .. FragmentCount(k.frame) - 1
       /\ udpReasm[k].receivedFrags = Cardinality(udpReasm[k].have)
       /\ \A i \in udpReasm[k].have : Datagram(k.from, k.at, k.frame, i) \in delivered

ClientsOK ==
  /\ open \subseteq Peers /\ gone \subseteq Peers
  /\ timers \in [Tracks -> {"off", "PUB_ANNOUNCE", "SUB_SUCCESS"}]
  /\ subscribeTimers \subseteq Subscribers \X Tracks
  /\ nextObjectId \in [Tracks -> Nat]
  /\ recorded \in [Subscribers -> [Tracks -> Seq(Nat)]]

RelayOK ==
  /\ publishedTracks \subseteq Tracks /\ publisherByTrackKey \subseteq Tracks
  /\ subscriberSockets \subseteq Subscribers
  /\ subscriberByTrack \in [Tracks -> [Subscribers -> Nat]]
  /\ recvFromPubByTrack \in [Tracks -> Nat] /\ forward_count \in [Subscribers -> Nat]

ShapeInv == WiresInv /\ CollectedInv /\ ClientsOK /\ RelayOK

\* A SUBSCRIBE is sent once over TCP, and answered while its subscriber is there: until then
\* it is not registered, and its socket goes only with all it had sent.
SubscribesOnce(s, t) ==
  LET q == toRelay[s]
      f == Control("SUBSCRIBE", t)
  IN  /\ s \notin open =>
           <<s, t>> \notin subscribeTimers /\ q = <<>> /\ subscriberByTrack[t][s] = 0
      /\ <<s, t>> \in subscribeTimers =>
           subscriberByTrack[t][s] = 0 /\ \A i \in DOMAIN q : q[i] # f
      /\ \A i \in DOMAIN q : q[i] = f =>
           subscriberByTrack[t][s] = 0 /\ \A j \in DOMAIN q : q[j] = f => j = i
      /\ subscriberByTrack[t][s] = 1 /\ s \notin subscriberSockets => s \in gone /\ q = <<>>

\* Over either transport a subscriber is registered for a track once.
RegisteredInv ==
  /\ gone \subseteq open
  /\ \A t \in Tracks, s \in Subscribers : subscriberByTrack[t][s] \in {0, 1}
  /\ proto = "tcp" => \A s \in Subscribers, t \in Tracks : SubscribesOnce(s, t)

\* The objects of t in q are those from a to b - 1, in order.
ObjectOf(f, t) == f.class = "OBJECT" /\ f.track = t
Line(q, t, a, b) ==
  /\ a <= b
  /\ \A i \in DOMAIN q : ObjectOf(q[i], t) => q[i].objectId \in a .. b - 1
  /\ \A id \in a .. b - 1 : \E i \in DOMAIN q : q[i] = Object(t, id)
  /\ \A i, j \in DOMAIN q : 
       ObjectOf(q[i], t) /\ ObjectOf(q[j], t) /\ i < j => q[i].objectId < q[j].objectId

Consecutive(r) == \A i \in 1 .. Len(r) : r[i] = r[1] + i - 1

\* What is under way to a subscriber goes on from what it recorded, and ends with the last
\* object the relay had.
Continues(s, t, a, b) ==
  LET r == recorded[s][t]
  IN  /\ Line(toPeer[s], t, a, b)
      /\ Consecutive(r)
      /\ r # <<>> => r[Len(r)] + 1 = a
      /\ (r # <<>> \/ a < b) =>
           /\ subscriberByTrack[t][s] # 0
           /\ Copies(t, s) # 0 => b = recvFromPubByTrack[t]

\* Over TCP the objects are runs: from what the relay had to what the publisher sent, and
\* from what a subscriber recorded to what the relay had.
PublisherLine ==
  \/ Publisher \in gone /\ toRelay[Publisher] = <<>>
  \/ \A t \in Tracks : Line(toRelay[Publisher], t, recvFromPubByTrack[t], nextObjectId[t])
SubscriberLine(s, t) == \E a \in Nat : \E b \in Nat : Continues(s, t, a, b)
StreamsInv ==
  proto = "tcp" =>
    /\ PublisherLine
    /\ \A s \in Subscribers, t \in Tracks : SubscriberLine(s, t)

\* UDP.  A datagram has been sent if it is under way, or was lost, or has come.
Sent(d) == d \in DOMAIN net \/ d \in delivered \/ d \in Range(lost)

\* A datagram is not sent without the others of its frame, nor an object forwarded before
\* all of it has come; and the publisher's objects are those it has numbered.
Caused(d) ==
  /\ Travels(d)
  /\ \A i \in 0 .. FragmentCount(d.frame) - 1 : Sent(Datagram(d.from, d.to, d.frame, i))
  /\ d.frame.class = "OBJECT" /\ d.from = Relay => Whole(Publisher, Relay, d.frame)
  /\ d.frame.class = "OBJECT" /\ d.from = Publisher =>
       d.frame.objectId < nextObjectId[d.frame.track]

RecordedWhole(s, t) ==
  \A i \in DOMAIN recorded[s][t] : Whole(Relay, s, Object(t, recorded[s][t][i]))

CausesInv ==
  proto = "udp" =>
    /\ \A d \in Datagrams : Sent(d) => Caused(d)
    /\ \A s \in Subscribers, t \in Tracks : RecordedWhole(s, t)

\* Nothing of an object happens twice unless one of its datagrams was duplicated.
Duplicated(f) == \E i \in DOMAIN duplicated : duplicated[i].frame = f
Pristine(f) == f.class = "OBJECT" /\ ~Duplicated(f)

SentOnce(d) == net[d] = 1 /\ d \notin delivered /\ d \notin Range(lost)
Kept(d) ==
  \/ Key(d) \in DOMAIN udpReasm /\ d.fragIndex \in udpReasm[Key(d)].have
  \/ Whole(d.from, d.to, d.frame)
RecordedOnce(s, t) ==
  LET r == recorded[s][t]
  IN  \A i, j \in DOMAIN r : i < j /\ r[i] = r[j] => Duplicated(Object(t, r[i]))

OnceInv ==
  proto = "udp" =>
    /\ \A d \in DOMAIN net : Pristine(d.frame) => SentOnce(d)
    /\ \A d \in delivered : Pristine(d.frame) => Kept(d)
    /\ \A k \in DOMAIN udpReasm : Pristine(k.frame) => ~Whole(k.from, k.at, k.frame)
    /\ \A s \in Subscribers, t \in Tracks : RecordedOnce(s, t)

-----------------------------------------------------------------------------
(* Frames, datagrams and bags of them.                                     *)

\* A frame is at least one datagram.
LEMMA FragmentCountType ==
  ASSUME NEW f \in Frames
  PROVE  FragmentCount(f) \in Nat \ {0}
  BY DirectAssumption DEF FragmentCount, Frames

\* What Object and Control make, field by field.
LEMMA FrameTypes ==
  ASSUME NEW t \in Tracks, NEW id \in Nat
  PROVE  /\ Object(t, id) \in Frames
         /\ Object(t, id).class = "OBJECT" /\ Object(t, id).track = t
         /\ Object(t, id).objectId = id
         /\ \A c \in {"ANNOUNCE", "SUBSCRIBE", "SUBSCRIBE_OK"} :
              /\ Control(c, t) \in Frames
              /\ Control(c, t).class = c /\ Control(c, t).track = t
  BY DEF Object, Control, Frame, Frames

\* A frame is what its class, its track and its number say.
LEMMA FrameFields ==
  ASSUME NEW f \in Frames
  PROVE  /\ f.track \in Tracks
         /\ f.class = "OBJECT" => f.objectId \in Nat /\ f = Object(f.track, f.objectId)
         /\ f.class # "OBJECT" => f = Control(f.class, f.track)
  BY DEF Object, Control, Frame, Frames

\* The fields of a datagram.
LEMMA DatagramFields ==
  ASSUME NEW from, NEW to, NEW f, NEW i
  PROVE  LET d == Datagram(from, to, f, i)
         IN  d.from = from /\ d.to = to /\ d.frame = f /\ d.fragIndex = i
  BY DEF Datagram

\* A datagram is known by its fields.
LEMMA DatagramType ==
  /\ \A from, to \in Places, f \in Frames, i \in Nat : Datagram(from, to, f, i) \in Datagrams
  /\ \A d \in Datagrams : /\ d.from \in Places /\ d.to \in Places /\ d.frame \in Frames
                          /\ d.fragIndex \in Nat
                          /\ d = Datagram(d.from, d.to, d.frame, d.fragIndex)
  BY DEF Datagram, Datagrams, Places

\* Adding to the network: both bags, and each as it was where the other has nothing.
LEMMA BagAdd ==
  ASSUME NEW a, NEW b, IsABag(a), IsABag(b)
  PROVE  /\ IsABag(a (+) b)
         /\ DOMAIN (a (+) b) = DOMAIN a \cup DOMAIN b
         /\ \A e \in DOMAIN a \ DOMAIN b : (a (+) b)[e] = a[e]
         /\ \A e \in DOMAIN b \ DOMAIN a : (a (+) b)[e] = b[e]
  BY DEF IsABag, (+)

\* Taking one datagram from the network leaves the others as many as they were.
LEMMA BagTake ==
  ASSUME NEW a, NEW d, IsABag(a), d \in DOMAIN a
  PROVE  LET n == a (-) SetToBag({d})
         IN  /\ IsABag(n)
             /\ DOMAIN n \subseteq DOMAIN a
             /\ DOMAIN a \subseteq DOMAIN n \cup {d}
             /\ a[d] = 1 => d \notin DOMAIN n
             /\ \A e \in DOMAIN n : e # d => n[e] = a[e]
             /\ d \in DOMAIN n => n[d] = a[d] - 1
  <1> DEFINE n == a (-) SetToBag({d})
  <1>1. n = [e \in {x \in DOMAIN a : (IF x = d THEN a[x] - 1 ELSE a[x]) > 0} |->
               IF e = d THEN a[e] - 1 ELSE a[e]]
    BY DEF (-), SetToBag
  <1>2. \A e \in DOMAIN a : a[e] \in Nat /\ a[e] > 0
    BY DEF IsABag
  <1> HIDE DEF n
  <1> QED BY <1>1, <1>2 DEF n, IsABag

\* The fragments of the frames fs, each as often as its frame.
LEMMA FragmentsBag ==
  ASSUME NEW from \in Places, NEW to \in Places, NEW fs \in Seq(Frames)
  PROVE  LET b == AllFragments(from, to, fs)
         IN  /\ IsABag(b) /\ DOMAIN b \subseteq Datagrams
             /\ \A d \in DOMAIN b : /\ d.from = from /\ d.to = to
                                    /\ \E i \in DOMAIN fs : d.frame = fs[i]
                                    /\ d.fragIndex \in 0 .. FragmentCount(d.frame) - 1
             /\ \A i \in DOMAIN fs : \A k \in 0 .. FragmentCount(fs[i]) - 1 :
                  Datagram(from, to, fs[i], k) \in DOMAIN b
             /\ (\A i, j \in DOMAIN fs : fs[i] = fs[j] => i = j) => \A d \in DOMAIN b : b[d] = 1
  <1> DEFINE b == AllFragments(from, to, fs)
             D == UNION {{Datagram(from, to, f, k) : k \in 0 .. FragmentCount(f) - 1} : f \in Range(fs)}
             I(d) == {i \in DOMAIN fs : fs[i] = d.frame}
  <1>0. /\ DOMAIN fs = 1 .. Len(fs) /\ Len(fs) \in Nat
        /\ \A i \in DOMAIN fs : fs[i] \in Frames
    OBVIOUS
  <1>1. DOMAIN b = D /\ \A d \in D : b[d] = Cardinality(I(d))
    BY DEF AllFragments
  <1>2. \A d \in D : /\ \E i \in DOMAIN fs : d.frame = fs[i]
                     /\ d.fragIndex \in 0 .. FragmentCount(d.frame) - 1
                     /\ d = Datagram(from, to, d.frame, d.fragIndex)
                     /\ d.from = from /\ d.to = to
    BY DEF Range, Datagram
  <1>3. \A i \in DOMAIN fs : \A k \in 0 .. FragmentCount(fs[i]) - 1 :
          Datagram(from, to, fs[i], k) \in D
    BY DEF Range
  <1>4. \A d \in D : IsFiniteSet(I(d)) /\ I(d) # {}
    <2> TAKE d \in D
    <2>1. IsFiniteSet(1 .. Len(fs))
      BY <1>0, FS_Interval
    <2> QED BY <2>1, <1>0, <1>2, FS_Subset
  <1>5. ASSUME NEW d \in D
        PROVE  Cardinality(I(d)) \in Nat /\ Cardinality(I(d)) > 0
    <2>1. IsFiniteSet(I(d)) /\ I(d) # {}
      BY <1>4
    <2> HIDE DEF I, D
    <2>2. Cardinality(I(d)) \in Nat /\ Cardinality(I(d)) # 0
      BY <2>1, FS_EmptySet, FS_CardinalityType
    <2> QED BY <2>2
  <1>6. D \subseteq Datagrams
    <2> SUFFICES ASSUME NEW d \in D  PROVE d \in Datagrams
      OBVIOUS
    <2>1. PICK i \in DOMAIN fs : d.frame = fs[i] /\ d.fragIndex \in 0 .. FragmentCount(d.frame) - 1
                                 /\ d = Datagram(from, to, d.frame, d.fragIndex)
      BY <1>2
    <2>2. d.fragIndex \in Nat
      BY <2>1, <1>0, FragmentCountType
    <2> QED BY <2>1, <2>2, <1>0, DatagramType
  <1>7. ASSUME \A i, j \in DOMAIN fs : fs[i] = fs[j] => i = j, NEW d \in D
        PROVE  Cardinality(I(d)) = 1
    <2>1. PICK i \in DOMAIN fs : d.frame = fs[i]
      BY <1>2
    <2>2. I(d) = {i}
      BY <2>1, <1>7
    <2> QED BY <2>2, FS_Singleton
  <1>8. IsABag(b)
    BY <1>1, <1>5 DEF IsABag, AllFragments
  <1> HIDE DEF b, D, I
  <1> QED BY <1>1, <1>2, <1>3, <1>6, <1>7, <1>8 DEF b

\* What the relay sends at once, to each peer its own frames.
LEMMA RelayFragmentsBag ==
  ASSUME NEW frames \in [Peers -> Seq(Frames)]
  PROVE  LET b == RelayFragments(frames)
         IN  /\ IsABag(b) /\ DOMAIN b \subseteq Datagrams
             /\ \A d \in DOMAIN b : /\ d.from = Relay /\ d.to \in Peers
                                    /\ \E i \in DOMAIN frames[d.to] : d.frame = frames[d.to][i]
                                    /\ d.fragIndex \in 0 .. FragmentCount(d.frame) - 1
             /\ \A p \in Peers : \A i \in DOMAIN frames[p] :
                  \A k \in 0 .. FragmentCount(frames[p][i]) - 1 :
                    Datagram(Relay, p, frames[p][i], k) \in DOMAIN b
             /\ (\A p \in Peers : \A i, j \in DOMAIN frames[p] : frames[p][i] = frames[p][j] => i = j)
                  => \A d \in DOMAIN b : b[d] = 1
  <1> DEFINE b == RelayFragments(frames)
             B(p) == AllFragments(Relay, p, frames[p])
             D == UNION {DOMAIN B(p) : p \in Peers}
  <1>1. \A p \in Peers : p \in Places /\ frames[p] \in Seq(Frames)
    BY DEF Places
  <1>2. Relay \in Places
    BY DEF Places
  <1>3. DOMAIN b = D /\ \A d \in D : b[d] = B(d.to)[d]
    BY DEF RelayFragments
  <1>4. \A p \in Peers : 
             /\ IsABag(B(p)) /\ DOMAIN B(p) \subseteq Datagrams
             /\ \A d \in DOMAIN B(p) : /\ d.from = Relay /\ d.to = p
                                    /\ \E i \in DOMAIN frames[p] : d.frame = frames[p][i]
                                    /\ d.fragIndex \in 0 .. FragmentCount(d.frame) - 1
             /\ \A i \in DOMAIN frames[p] : \A k \in 0 .. FragmentCount(frames[p][i]) - 1 :
                  Datagram(Relay, p, frames[p][i], k) \in DOMAIN B(p)
             /\ (\A i, j \in DOMAIN frames[p] : frames[p][i] = frames[p][j] => i = j)
                  => \A d \in DOMAIN B(p) : B(p)[d] = 1
    <2> TAKE p \in Peers
    <2>1. p \in Places /\ Relay \in Places /\ frames[p] \in Seq(Frames)
      BY <1>1, <1>2
    <2> QED BY <2>1, FragmentsBag
  <1>5. b = [d \in D |-> B(d.to)[d]]
    BY DEF RelayFragments
  <1> HIDE DEF b, B
  <1>6. \A d \in D : d.to \in Peers /\ d \in DOMAIN B(d.to)
    BY <1>4
  <1>7. \A d \in D : b[d] \in Nat /\ b[d] > 0
    BY <1>3, <1>4, <1>6 DEF IsABag
  <1>8. IsABag(b)
    BY <1>5, <1>7 DEF IsABag
  <1>9. D \subseteq Datagrams
    BY <1>4
  <1> QED BY <1>3, <1>4, <1>6, <1>8, <1>9 DEF b

-----------------------------------------------------------------------------
(* Types, and where frames travel.                                         *)

Answers(f) ==
  IF f.class = "SUBSCRIBE"
  THEN IF f.track \in publisherByTrackKey \cap publishedTracks
       THEN [NoFrames EXCEPT ![Publisher] = <<Control("SUBSCRIBE_OK", f.track)>>]
       ELSE NoFrames
  ELSE IF f.class = "OBJECT"
       THEN [p \in Peers |-> IF p = Publisher THEN <<>> ELSE [i \in 1 .. Copies(f.track, p) |-> f]]
       ELSE NoFrames

\* The processes are told apart.
LEMMA Roles ==
  /\ Publisher \in Peers /\ Publisher \notin Subscribers /\ Subscribers \subseteq Peers
  /\ Relay \notin Peers /\ Peers \subseteq Places /\ Relay \in Places
  /\ \A p \in Peers : p # Publisher => p \in Subscribers
  BY DirectAssumption DEF Peers, Places

\* The relay answers on the routes, and with no object but the one it handles.
LEMMA AnswersType ==
  ASSUME RelayOK, NEW f \in Frames
  PROVE  /\ Answers(f) \in [Peers -> Seq(Frames)]
         /\ \A p \in Peers : \A i \in DOMAIN Answers(f)[p] : Routed(Relay, p, Answers(f)[p][i])
         /\ \A p \in Peers : \A i \in DOMAIN Answers(f)[p] :
              Answers(f)[p][i].class = "OBJECT" => Answers(f)[p][i] = f /\ p \in Subscribers
  <1>1. /\ f.track \in Tracks /\ Control("SUBSCRIBE_OK", f.track) \in Frames
        /\ Control("SUBSCRIBE_OK", f.track).class = "SUBSCRIBE_OK"
    BY FrameFields DEF Control, Frame, Frames
  <1>2. NoFrames \in [Peers -> Seq(Frames)] /\ \A p \in Peers : NoFrames[p] = <<>>
    BY DEF NoFrames
  <1>3. CASE f.class = "OBJECT"
    <2>1. \A p \in Subscribers : Copies(f.track, p) \in Nat
      BY <1>1 DEF Copies, RelayOK
    <2>2. Answers(f) = [p \in Peers |-> IF p = Publisher THEN <<>>
                                        ELSE [i \in 1 .. Copies(f.track, p) |-> f]]
      BY <1>3 DEF Answers
    <2>3. ASSUME NEW p \in Peers
          PROVE  /\ Answers(f)[p] \in Seq(Frames)
                 /\ \A i \in DOMAIN Answers(f)[p] : Answers(f)[p][i] = f /\ p \in Subscribers
      <3>1. CASE p = Publisher
        BY <3>1, <2>2
      <3>2. CASE p # Publisher
        <4>1. p \in Subscribers
          BY <3>2, Roles
        <4> DEFINE c == Copies(f.track, p)
        <4>2. Answers(f)[p] = [i \in 1 .. c |-> f]
          BY <3>2, <2>2
        <4>3. c \in Nat
          BY <4>1, <2>1
        <4> HIDE DEF c
        <4> QED BY <4>1, <4>2, <4>3
      <3> QED BY <3>1, <3>2
    <2> QED BY <2>2, <2>3, <1>3 DEF Routed
  <1>4. CASE f.class = "SUBSCRIBE" /\ f.track \in publisherByTrackKey \cap publishedTracks
    <2>1. Answers(f) = [NoFrames EXCEPT ![Publisher] = <<Control("SUBSCRIBE_OK", f.track)>>]
      BY <1>4 DEF Answers
    <2>2. \A p \in Peers : Answers(f)[p] = IF p = Publisher
                                           THEN <<Control("SUBSCRIBE_OK", f.track)>> ELSE <<>>
      BY <2>1, <1>2
    <2>3. \A p \in Peers : Answers(f)[p] \in Seq(Frames)
      <3> DEFINE c == Control("SUBSCRIBE_OK", f.track)
      <3>1. c \in Frames
        BY <1>1
      <3> HIDE DEF c
      <3>2. <<c>> \in Seq(Frames) /\ <<>> \in Seq(Frames)
        BY <3>1
      <3> QED BY <3>2, <2>2 DEF c
    <2>4. Answers(f) \in [Peers -> Seq(Frames)]
      BY <2>1, <2>3, <1>2
    <2>5. \A p \in Peers : \A i \in DOMAIN Answers(f)[p] :
            p = Publisher /\ Answers(f)[p][i] = Control("SUBSCRIBE_OK", f.track)
      BY <2>2
    <2> HIDE DEF Answers
    <2> QED BY <2>4, <2>5, <1>1 DEF Routed
  <1>5. CASE /\ f.class # "OBJECT"
             /\ ~(f.class = "SUBSCRIBE" /\ f.track \in publisherByTrackKey \cap publishedTracks)
    BY <1>5, <1>2 DEF Answers
  <1> QED BY <1>3, <1>4, <1>5

\* Answers is what the relay sends when it handles a frame.
LEMMA RelaySendsAnswers ==
  ASSUME NEW p, NEW f, NEW n, RelayHandles(p, f, n)
  PROVE  RelaySends(Answers(f), n)
  BY DEF RelayHandles, RelayAnnounce, RelaySubscribe, RelayObject, Answers

\* Handling a frame keeps the types of the relay.
LEMMA RelayHandlesType ==
  ASSUME RelayOK, NEW p \in Peers, NEW f \in Frames, NEW n, Routed(p, Relay, f),
         RelayHandles(p, f, n)
  PROVE  RelayOK'
  <1>1. f.track \in Tracks
    BY FrameFields
  <1>2. CASE RelayAnnounce(f, n)
    BY <1>1, <1>2 DEF RelayAnnounce, RelayOK
  <1>3. CASE RelaySubscribe(p, f, n)
    <2>1. p \in Subscribers
      BY <1>3, DirectAssumption DEF RelaySubscribe, Routed
    <2>2. subscriberByTrack' \in [Tracks -> [Subscribers -> Nat]]
      BY <1>3, <1>1, <2>1 DEF RelaySubscribe, Registered, RelayOK
    <2> QED BY <1>3, <2>1, <2>2 DEF RelaySubscribe, RelayOK
  <1>4. CASE RelayObject(f, n)
    <2>1. \A s \in Subscribers : Copies(f.track, s) \in Nat
      BY <1>1 DEF Copies, RelayOK
    <2>2. forward_count' \in [Subscribers -> Nat]
      BY <1>4, <2>1 DEF RelayObject, RelayOK
    <2> QED BY <1>4, <1>1, <2>2 DEF RelayObject, RelayOK
  <1> QED BY <1>2, <1>3, <1>4 DEF RelayHandles

\* What the relay sends keeps WiresInv, whatever it has taken before.
LEMMA RelaySendsWires ==
  ASSUME WiresInv, NEW frames \in [Peers -> Seq(Frames)], NEW n, RelaySends(frames, n),
         IsABag(n), DOMAIN n \subseteq DOMAIN net, proto' = proto,
         \A p \in Peers : \A i \in DOMAIN frames[p] : Routed(Relay, p, frames[p][i]),
         toRelay' \in [Peers -> Seq(Frames)],
         \A p \in Peers : \A i \in DOMAIN toRelay'[p] : Routed(p, Relay, toRelay'[p][i]),
         proto = "udp" => \A p \in Peers : toRelay'[p] = <<>>
  PROVE  WiresInv'
  <1>1. CASE proto = "tcp"
    <2>1. net' = n /\ toPeer' = [p \in Peers |-> toPeer[p] \o frames[p]]
      BY <1>1 DEF RelaySends
    <2>2. DOMAIN net' = {}
      BY <1>1, <2>1 DEF WiresInv
    <2>3. ASSUME NEW p \in Peers
          PROVE  /\ toPeer'[p] \in Seq(Frames)
                 /\ \A i \in DOMAIN toPeer'[p] : Routed(Relay, p, toPeer'[p][i])
      <3> DEFINE q == toPeer[p]
                 g == frames[p]
      <3>1. q \in Seq(Frames) /\ g \in Seq(Frames) /\ toPeer'[p] = q \o g
            /\ (\A i \in DOMAIN q : Routed(Relay, p, q[i])) /\ (\A i \in DOMAIN g : Routed(Relay, p, g[i]))
        BY <2>1 DEF WiresInv
      <3> HIDE DEF q, g
      <3>2. \A i \in DOMAIN (q \o g) : \/ i \in DOMAIN q /\ (q \o g)[i] = q[i]
                                       \/ i - Len(q) \in DOMAIN g /\ (q \o g)[i] = g[i - Len(q)]
        BY <3>1
      <3> QED BY <3>1, <3>2
    <2>4. toPeer' \in [Peers -> Seq(Frames)]
      BY <2>1, <2>3
    <2> QED BY <1>1, <2>1, <2>2, <2>3, <2>4 DEF WiresInv
  <1>2. CASE proto = "udp"
    <2> DEFINE b == RelayFragments(frames)
    <2>1. net' = n (+) b /\ toPeer' = toPeer
      BY <1>2 DEF RelaySends
    <2>2. /\ IsABag(b) /\ DOMAIN b \subseteq Datagrams
          /\ \A d \in DOMAIN b : /\ d.from = Relay /\ d.to \in Peers
                                 /\ \E i \in DOMAIN frames[d.to] : d.frame = frames[d.to][i]
                                 /\ d.fragIndex \in 0 .. FragmentCount(d.frame) - 1
      BY RelayFragmentsBag
    <2>3. \A d \in DOMAIN b : Travels(d)
      BY <2>2 DEF Travels
    <2> HIDE DEF b
    <2>4. IsABag(net') /\ DOMAIN net' = DOMAIN n \cup DOMAIN b
      BY <2>1, <2>2, BagAdd
    <2> QED BY <1>2, <2>1, <2>2, <2>3, <2>4 DEF WiresInv
  <1> QED BY <1>1, <1>2 DEF WiresInv

\* What a peer sends keeps WiresInv.
LEMMA PeerSendsWires ==
  ASSUME WiresInv, NEW p \in Peers, NEW fs \in Seq(Frames), PeerSends(p, fs),
         \A i \in DOMAIN fs : Routed(p, Relay, fs[i]), UNCHANGED <<proto, toPeer>>
  PROVE  WiresInv'
  <1>1. CASE proto = "tcp"
    <2>1. net' = net /\ toRelay' = [toRelay EXCEPT ![p] = @ \o fs]
      BY <1>1 DEF PeerSends
    <2> DEFINE q == toRelay[p]
    <2>2. q \in Seq(Frames) /\ (\A i \in DOMAIN q : Routed(p, Relay, q[i])) /\ toRelay'[p] = q \o fs
      BY <2>1 DEF WiresInv
    <2> HIDE DEF q
    <2>3. \A i \in DOMAIN (q \o fs) : \/ i \in DOMAIN q /\ (q \o fs)[i] = q[i]
                                      \/ i - Len(q) \in DOMAIN fs /\ (q \o fs)[i] = fs[i - Len(q)]
      BY <2>2
    <2>4. toRelay'[p] \in Seq(Frames) /\ \A i \in DOMAIN toRelay'[p] : Routed(p, Relay, toRelay'[p][i])
      BY <2>2, <2>3
    <2>5. \A r \in Peers : r # p => toRelay'[r] = toRelay[r]
      BY <2>1 DEF WiresInv
    <2>6. toRelay' \in [Peers -> Seq(Frames)]
      BY <2>1, <2>4, <2>5 DEF WiresInv
    <2>7. ASSUME NEW r \in Peers, NEW i \in DOMAIN toRelay'[r]
          PROVE  Routed(r, Relay, toRelay'[r][i])
      BY <2>4, <2>5, <2>7 DEF WiresInv
    <2> QED BY <1>1, <2>1, <2>6, <2>7 DEF WiresInv
  <1>2. CASE proto = "udp"
    <2> DEFINE b == AllFragments(p, Relay, fs)
    <2>1. net' = net (+) b /\ toRelay' = toRelay
      BY <1>2 DEF PeerSends
    <2>2. /\ IsABag(b) /\ DOMAIN b \subseteq Datagrams
          /\ \A d \in DOMAIN b : /\ d.from = p /\ d.to = Relay
                                 /\ \E i \in DOMAIN fs : d.frame = fs[i]
                                 /\ d.fragIndex \in 0 .. FragmentCount(d.frame) - 1
      BY FragmentsBag, Roles
    <2>3. \A d \in DOMAIN b : Travels(d)
      BY <2>2 DEF Travels
    <2> HIDE DEF b
    <2>4. IsABag(net') /\ DOMAIN net' = DOMAIN net \cup DOMAIN b
      BY <2>1, <2>2, BagAdd DEF WiresInv
    <2> QED BY <1>2, <2>1, <2>2, <2>3, <2>4 DEF WiresInv
  <1> QED BY <1>1, <1>2 DEF WiresInv

\* A datagram comes: its fragment is added, and its frame is complete when all are there.
ArrivalReasm(d) ==
  LET r == Add(Collected(Key(d)), d.fragIndex)
  IN  IF r.receivedFrags = FragmentCount(d.frame)
      THEN Without(Key(d))
      ELSE [k \in DOMAIN udpReasm \cup {Key(d)} |-> IF k = Key(d) THEN r ELSE udpReasm[k]]

Completes(d) == Add(Collected(Key(d)), d.fragIndex).receivedFrags = FragmentCount(d.frame)

\* The key a fragment is collected under.
LEMMA KeyType ==
  ASSUME NEW d \in Datagrams
  PROVE  /\ Key(d) \in Keys
         /\ Key(d).at = d.to /\ Key(d).from = d.from /\ Key(d).frame = d.frame
  BY DatagramType DEF Key, Keys

\* The number of the fragments is that of those received.
LEMMA FragmentAdds ==
  ASSUME CollectedInv, NEW d \in Datagrams, Travels(d)
  PROVE  LET r == Add(Collected(Key(d)), d.fragIndex)
             old == Collected(Key(d)).have
         IN  /\ r.have = old \cup {d.fragIndex}
             /\ r.have \subseteq 0 .. FragmentCount(d.frame) - 1
             /\ r.receivedFrags = Cardinality(r.have)
             /\ r.receivedFrags \in 1 .. FragmentCount(d.frame)
             /\ r.receivedFrags = FragmentCount(d.frame) =>
                  r.have = 0 .. FragmentCount(d.frame) - 1
             /\ r.have = 0 .. FragmentCount(d.frame) - 1 =>
                  r.receivedFrags = FragmentCount(d.frame)
             /\ \A i \in old : Datagram(d.from, d.to, d.frame, i) \in delivered
             /\ Key(d) \in DOMAIN udpReasm => old = udpReasm[Key(d)].have
             /\ Key(d) \notin DOMAIN udpReasm => old = {}
  <1> DEFINE k == Key(d)
             c == Collected(k)
             r == Add(c, d.fragIndex)
             n == FragmentCount(d.frame)
             A == 0 .. n - 1
  <1>0. k.at = d.to /\ k.from = d.from /\ k.frame = d.frame /\ d.frame \in Frames
    BY KeyType, DatagramType
  <1>1. n \in Nat \ {0} /\ d.fragIndex \in A
    BY <1>0, FragmentCountType DEF Travels
  <1>2. /\ c.have \subseteq A /\ c.receivedFrags = Cardinality(c.have)
        /\ \A i \in c.have : Datagram(d.from, d.to, d.frame, i) \in delivered
        /\ k \in DOMAIN udpReasm => c.have = udpReasm[k].have
        /\ k \notin DOMAIN udpReasm => c.have = {}
    <2>1. CASE k \in DOMAIN udpReasm
      <3>1. c = udpReasm[k]
        BY <2>1 DEF Collected
      <3> HIDE DEF c
      <3> QED BY <2>1, <3>1, <1>0 DEF CollectedInv
    <2>2. CASE k \notin DOMAIN udpReasm
      <3>1. c.have = {} /\ c.receivedFrags = 0
        BY <2>2 DEF Collected, NoFragments
      <3> HIDE DEF c
      <3> QED BY <2>2, <3>1, FS_EmptySet
    <2> QED BY <2>1, <2>2
  <1>3. IsFiniteSet(A) /\ Cardinality(A) = n
    <2>1. 0 \in Int /\ n - 1 \in Int
      BY <1>1
    <2>2. IsFiniteSet(A) /\ Cardinality(A) = IF 0 > n - 1 THEN 0 ELSE (n - 1) - 0 + 1
      BY <2>1, FS_Interval
    <2> QED BY <2>2, <1>1
  <1>4. r = IF d.fragIndex \in c.have THEN c
            ELSE [have |-> c.have \cup {d.fragIndex}, receivedFrags |-> c.receivedFrags + 1]
    BY DEF Add
  <1> HIDE DEF k, c, r, A
  <1>5. IsFiniteSet(c.have)
    BY <1>2, <1>3, FS_Subset
  <1>6. r.have = c.have \cup {d.fragIndex} /\ r.receivedFrags = Cardinality(r.have)
    <2>1. CASE d.fragIndex \in c.have
      BY <2>1, <1>4, <1>2
    <2>2. CASE d.fragIndex \notin c.have
      <3>1. Cardinality(c.have \cup {d.fragIndex}) = Cardinality(c.have) + 1
        BY <2>2, <1>5, FS_AddElement
      <3> QED BY <3>1, <2>2, <1>4, <1>2
    <2> QED BY <2>1, <2>2
  <1>7. r.have \subseteq A
    BY <1>6, <1>2, <1>1
  <1>8. IsFiniteSet(r.have) /\ Cardinality(r.have) <= n /\ (Cardinality(r.have) = n => r.have = A)
    BY <1>7, <1>3, FS_Subset
  <1>9. Cardinality(r.have) \in Nat /\ Cardinality(r.have) # 0
    BY <1>6, <1>8, FS_EmptySet, FS_CardinalityType
  <1>10. r.receivedFrags \in 1 .. n
    BY <1>6, <1>8, <1>9, <1>1
  <1> QED BY <1>2, <1>3, <1>6, <1>7, <1>8, <1>10 DEF k, c, r, A

\* The cases of DatagramArrives.
LEMMA Arrival ==
  ASSUME NEW d, DatagramArrives(d)
  PROVE  LET n == net (-) SetToBag({d})
         IN  /\ d \in DOMAIN net /\ d.to \notin gone
             /\ delivered' = delivered \cup {d} /\ udpReasm' = ArrivalReasm(d)
             /\ UNCHANGED <<proto, open, gone, subscribeTimers, nextObjectId, toRelay, faults>>
             /\ Completes(d) /\ d.to = Relay =>
                  RelayHandles(d.from, d.frame, n) /\ UNCHANGED <<timers, recorded>>
             /\ Completes(d) /\ d.to # Relay =>
                  PeerHandles(d.to, d.frame) /\ net' = n /\ UNCHANGED <<toPeer, relay>>
             /\ ~Completes(d) => net' = n /\ UNCHANGED <<timers, recorded, toPeer, relay>>
  BY DEF DatagramArrives, BagIn, BagToSet, ArrivalReasm, Completes

\* An arrival keeps CollectedInv.
LEMMA ArrivalCollected ==
  ASSUME WiresInv, CollectedInv, NEW d \in Datagrams, DatagramArrives(d)
  PROVE  CollectedInv'
  <1> DEFINE k == Key(d)
             r == Add(Collected(k), d.fragIndex)
             n == FragmentCount(d.frame)
  <1>1. /\ d \in DOMAIN net /\ delivered' = delivered \cup {d} /\ udpReasm' = ArrivalReasm(d)
        /\ lost' = lost /\ duplicated' = duplicated /\ proto' = proto
    BY Arrival DEF faults
  <1>2. Travels(d) /\ proto = "udp"
    BY <1>1 DEF WiresInv
  <1>3. k \in Keys /\ k.at = d.to /\ k.from = d.from /\ k.frame = d.frame
    BY KeyType
  <1>4. /\ r.have = Collected(k).have \cup {d.fragIndex}
        /\ r.have \subseteq 0 .. n - 1
        /\ r.receivedFrags = Cardinality(r.have)
        /\ r.receivedFrags \in 1 .. n
        /\ \A i \in Collected(k).have : Datagram(d.from, d.to, d.frame, i) \in delivered
    BY FragmentAdds, <1>2
  <1>5. d = Datagram(d.from, d.to, d.frame, d.fragIndex)
    BY DatagramType
  <1>6. \A i \in r.have : Datagram(k.from, k.at, k.frame, i) \in delivered'
    BY <1>4, <1>5, <1>1, <1>3
  <1>7. udpReasm' = IF r.receivedFrags = n THEN Without(k)
                    ELSE [x \in DOMAIN udpReasm \cup {k} |-> IF x = k THEN r ELSE udpReasm[x]]
    BY <1>1 DEF ArrivalReasm
  <1>8. Without(k) = [x \in DOMAIN udpReasm \ {k} |-> udpReasm[x]]
    BY DEF Without, Restrict
  <1> HIDE DEF k, r
  <1>9. \A x \in DOMAIN udpReasm' : 
           \/ x \in DOMAIN udpReasm /\ udpReasm'[x] = udpReasm[x]
           \/ x = k /\ r.receivedFrags # n /\ udpReasm'[x] = r
    BY <1>7, <1>8
  <1>10. r.receivedFrags # n => r.receivedFrags \in 1 .. n - 1
    <2>1. n \in Nat
      BY FragmentCountType, DatagramType
    <2> HIDE DEF n
    <2> QED BY <2>1, <1>4
  <1>11. ASSUME NEW x \in DOMAIN udpReasm'
         PROVE  /\ x \in Keys
                /\ udpReasm'[x].have \subseteq 0 .. FragmentCount(x.frame) - 1
                /\ udpReasm'[x].have # {}
                /\ udpReasm'[x].receivedFrags \in 1 .. FragmentCount(x.frame) - 1
                /\ udpReasm'[x].receivedFrags = Cardinality(udpReasm'[x].have)
                /\ \A i \in udpReasm'[x].have : Datagram(x.from, x.at, x.frame, i) \in delivered'
    <2>1. CASE x \in DOMAIN udpReasm /\ udpReasm'[x] = udpReasm[x]
      BY <2>1, <1>1 DEF CollectedInv
    <2>2. CASE x = k /\ r.receivedFrags # n /\ udpReasm'[x] = r
      BY <2>2, <1>3, <1>4, <1>6, <1>10
    <2> QED BY <2>1, <2>2, <1>9
  <1>12. delivered' \subseteq Datagrams
    BY <1>1 DEF CollectedInv
  <1> QED BY <1>1, <1>2, <1>11, <1>12 DEF CollectedInv

\* A duplicated datagram was under way already, and no other is touched.
LEMMA BagDouble ==
  ASSUME NEW a, NEW d, IsABag(a), d \in DOMAIN a
  PROVE  LET n == a (+) SetToBag({d})
         IN  /\ IsABag(n) /\ DOMAIN n = DOMAIN a
             /\ \A e \in DOMAIN n : e # d => n[e] = a[e]
  <1> DEFINE b == SetToBag({d})
  <1>1. IsABag(b) /\ DOMAIN b = {d}
    BY DEF IsABag, SetToBag
  <1> HIDE DEF b
  <1> DEFINE n == a (+) b
  <1>2. /\ IsABag(n) /\ DOMAIN n = DOMAIN a \cup DOMAIN b
        /\ \A e \in DOMAIN a \ DOMAIN b : n[e] = a[e]
    BY <1>1, BagAdd
  <1> HIDE DEF n
  <1>3. IsABag(n) /\ DOMAIN n = DOMAIN a /\ \A e \in DOMAIN n : e # d => n[e] = a[e]
    BY <1>1, <1>2
  <1> QED BY <1>3 DEF n, b

\* Handling a frame keeps the types of the peers.
LEMMA PeerHandlesType ==
  ASSUME ClientsOK, NEW p \in Peers, NEW f \in Frames, Routed(Relay, p, f), PeerHandles(p, f),
         UNCHANGED <<open, gone, subscribeTimers, nextObjectId>>
  PROVE  ClientsOK'
  <1>0. f.track \in Tracks /\ (f.class = "OBJECT" => f.objectId \in Nat)
    BY FrameFields
  <1>1. CASE p = Publisher
    BY <1>0, <1>1 DEF PeerHandles, Start, ClientsOK
  <1>2. CASE p # Publisher
    <2>1. p \in Subscribers /\ f.class = "OBJECT"
      BY <1>2, Roles DEF Routed
    <2>2. recorded' = [recorded EXCEPT ![p][f.track] = Append(@, f.objectId)] /\ timers' = timers
      BY <1>2 DEF PeerHandles, RecordObject
    <2>3. recorded[p][f.track] \in Seq(Nat)
      BY <2>1, <1>0 DEF ClientsOK
    <2>4. Append(recorded[p][f.track], f.objectId) \in Seq(Nat)
      BY <2>1, <1>0, <2>3
    <2>5. recorded' \in [Subscribers -> [Tracks -> Seq(Nat)]]
      BY <2>2, <2>4, <2>1, <1>0 DEF ClientsOK
    <2> QED BY <2>2, <2>5 DEF ClientsOK
  <1> QED BY <1>1, <1>2

\* Types and routes hold at first.
LEMMA ShapeInit == Init => ShapeInv
  <1> SUFFICES ASSUME Init  PROVE ShapeInv
    OBVIOUS
  <1>1. WiresInv
    BY DirectAssumption DEF Init, WiresInv, EmptyBag, SetToBag, IsABag
  <1>2. CollectedInv
    BY DEF Init, CollectedInv
  <1>3. ClientsOK
    BY DEF Init, ClientsOK
  <1>4. RelayOK
    BY DEF Init, RelayOK
  <1> QED BY <1>1, <1>2, <1>3, <1>4 DEF ShapeInv

\* The objects of a group are numbered on from nextObjectId.
LEMMA GroupFrames ==
  ASSUME ClientsOK, NEW t \in Tracks
  PROVE  LET g == [i \in 1 .. ObjectsPerGroup[t] |-> Object(t, nextObjectId[t] + i - 1)]
         IN  /\ g \in Seq(Frames) /\ DOMAIN g = 1 .. ObjectsPerGroup[t]
             /\ Len(g) = ObjectsPerGroup[t] /\ ObjectsPerGroup[t] \in Nat \ {0}
             /\ \A i \in DOMAIN g : /\ g[i] = Object(t, nextObjectId[t] + i - 1)
                                    /\ Routed(Publisher, Relay, g[i])
  <1>1. ObjectsPerGroup[t] \in Nat \ {0} /\ nextObjectId[t] \in Nat
    BY DirectAssumption DEF ClientsOK
  <1>2. \A i \in 1 .. ObjectsPerGroup[t] : nextObjectId[t] + i - 1 \in Nat
    BY <1>1
  <1>3. \A i \in 1 .. ObjectsPerGroup[t] : /\ Object(t, nextObjectId[t] + i - 1) \in Frames
                                           /\ Routed(Publisher, Relay, Object(t, nextObjectId[t] + i - 1))
    BY <1>2, FrameTypes DEF Routed
  <1> QED BY <1>1, <1>3

\* The control frames a peer sends go where they may.
LEMMA ControlFrames ==
  ASSUME NEW t \in Tracks
  PROVE  /\ <<Control("ANNOUNCE", t)>> \in Seq(Frames)
         /\ Routed(Publisher, Relay, Control("ANNOUNCE", t))
         /\ <<Control("SUBSCRIBE", t)>> \in Seq(Frames)
         /\ \A s \in Subscribers : Routed(s, Relay, Control("SUBSCRIBE", t))
  BY DEF Control, Frame, Frames, Routed

\* Types and routes are kept by every step.
LEMMA ShapeNext == ShapeInv /\ [Next]_vars => ShapeInv'
  <1> SUFFICES ASSUME ShapeInv, [Next]_vars  PROVE ShapeInv'
    OBVIOUS
  <1>0. WiresInv /\ CollectedInv /\ ClientsOK /\ RelayOK
    BY DEF ShapeInv
  <1>A. ASSUME UNCHANGED streams, UNCHANGED net, proto' = proto  PROVE WiresInv'
    BY <1>0, <1>A DEF streams, WiresInv, Travels
  <1>B. ASSUME UNCHANGED udpReasm, UNCHANGED faults, UNCHANGED delivered, proto' = proto
        PROVE  CollectedInv'
    BY <1>0, <1>B DEF faults, CollectedInv
  <1>C. ASSUME UNCHANGED clients  PROVE ClientsOK'
    BY <1>0, <1>C DEF clients, ClientsOK
  <1>D. ASSUME UNCHANGED relay  PROVE RelayOK'
    BY <1>0, <1>D DEF relay, RelayOK
  <1>1. ASSUME NEW p \in Peers, Connect(p)  PROVE ShapeInv'
    <2>1. WiresInv' /\ CollectedInv' /\ RelayOK'
      BY <1>1, <1>A, <1>B, <1>D DEF Connect, udp
    <2>2. ClientsOK'
      <3>1. timers' \in [Tracks -> {"off", "PUB_ANNOUNCE", "SUB_SUCCESS"}]
        BY <1>0, <1>1 DEF Connect, ClientsOK
      <3>2. subscribeTimers' \subseteq Subscribers \X Tracks
        BY <1>0, <1>1, Roles, DirectAssumption DEF Connect, ClientsOK
      <3> QED BY <1>0, <1>1, <3>1, <3>2 DEF Connect, ClientsOK
    <2> QED BY <2>1, <2>2 DEF ShapeInv
  <1>2. ASSUME NEW p \in Peers, RelayReceives(p)  PROVE ShapeInv'
    <2> DEFINE f == Head(toRelay[p])
    <2>1. toRelay[p] \in Seq(Frames) /\ toRelay[p] # <<>> /\ proto = "tcp"
      BY <1>0, <1>2 DEF RelayReceives, WiresInv
    <2>2. f \in Frames /\ Routed(p, Relay, f)
      <3>1. f = toRelay[p][1] /\ 1 \in DOMAIN toRelay[p]
        BY <2>1
      <3> QED BY <3>1, <2>1, <1>0 DEF WiresInv
    <2>3. /\ RelayHandles(p, f, net) /\ toRelay' = [toRelay EXCEPT ![p] = Tail(@)]
          /\ UNCHANGED <<proto, clients, udpReasm, faults, delivered>>
      BY <1>2 DEF RelayReceives
    <2>4. RelayOK'
      BY <1>0, <2>2, <2>3, RelayHandlesType
    <2>5. /\ toRelay'[p] = Tail(toRelay[p]) /\ toRelay'[p] \in Seq(Frames)
          /\ \A i \in DOMAIN toRelay'[p] : Routed(p, Relay, toRelay'[p][i])
      <3> DEFINE q == toRelay[p]
      <3>1. toRelay'[p] = Tail(q)
        BY <2>3, <1>0 DEF WiresInv
      <3>2. \A i \in DOMAIN q : Routed(p, Relay, q[i])
        BY <1>0 DEF WiresInv
      <3> HIDE DEF q
      <3>3. q \in Seq(Frames) /\ q # <<>>
        BY <2>1 DEF q
      <3>4. Tail(q) \in Seq(Frames) /\ \A i \in DOMAIN Tail(q) : i + 1 \in DOMAIN q /\ Tail(q)[i] = q[i + 1]
        BY <3>3
      <3> QED BY <3>1, <3>2, <3>4 DEF q
    <2>6. \A r \in Peers : r # p => toRelay'[r] = toRelay[r]
      BY <2>3, <1>0 DEF WiresInv
    <2>7. toRelay' \in [Peers -> Seq(Frames)]
      BY <2>3, <2>5, <2>6, <1>0 DEF WiresInv
    <2>8. \A r \in Peers : \A i \in DOMAIN toRelay'[r] : Routed(r, Relay, toRelay'[r][i])
      BY <2>5, <2>6, <1>0 DEF WiresInv
    <2>9. WiresInv'
      <3>1. RelaySends(Answers(f), net)
        BY <2>3, RelaySendsAnswers
      <3>2. IsABag(net)
        BY <1>0 DEF WiresInv
      <3>3. Answers(f) \in [Peers -> Seq(Frames)]
            /\ \A r \in Peers : \A i \in DOMAIN Answers(f)[r] : Routed(Relay, r, Answers(f)[r][i])
        BY <1>0, <2>2, AnswersType
      <3>4. proto' = proto /\ proto # "udp"
        BY <2>1, <2>3
      <3> HIDE DEF f
      <3> QED BY <1>0, <2>7, <2>8, <3>1, <3>2, <3>3, <3>4, RelaySendsWires
    <2> QED BY <2>3, <2>4, <2>9, <1>B, <1>C DEF ShapeInv
  <1>3. ASSUME NEW p \in Peers, PeerReceives(p)  PROVE ShapeInv'
    <2> DEFINE f == Head(toPeer[p])
               q == toPeer[p]
    <2>1. q \in Seq(Frames) /\ q # <<>> /\ proto = "tcp" /\ \A i \in DOMAIN q : Routed(Relay, p, q[i])
      BY <1>0, <1>3 DEF PeerReceives, WiresInv
    <2>2. f \in Frames /\ Routed(Relay, p, f)
      <3>1. f = toPeer[p][1] /\ 1 \in DOMAIN toPeer[p]
        BY <2>1
      <3> QED BY <3>1, <2>1, <1>0 DEF WiresInv
    <2>3. /\ PeerHandles(p, f) /\ toPeer' = [toPeer EXCEPT ![p] = Tail(@)]
          /\ UNCHANGED <<proto, open, gone, subscribeTimers, nextObjectId, toRelay, udp, faults,
                         delivered, relay>>
      BY <1>3 DEF PeerReceives
    <2>4. ClientsOK'
      BY <1>0, <2>2, <2>3, PeerHandlesType
    <2>5. /\ toPeer'[p] \in Seq(Frames) /\ \A i \in DOMAIN toPeer'[p] : Routed(Relay, p, toPeer'[p][i])
          /\ \A r \in Peers : r # p => toPeer'[r] = toPeer[r]
      <3>1. toPeer'[p] = Tail(q) /\ \A r \in Peers : r # p => toPeer'[r] = toPeer[r]
        BY <2>3, <1>0 DEF WiresInv
      <3> HIDE DEF q
      <3>4. Tail(q) \in Seq(Frames) /\ \A i \in DOMAIN Tail(q) : i + 1 \in DOMAIN q /\ Tail(q)[i] = q[i + 1]
        BY <2>1
      <3> QED BY <3>1, <2>1, <3>4
    <2>6. toPeer' \in [Peers -> Seq(Frames)]
      BY <2>3, <2>5, <1>0 DEF WiresInv
    <2>7. \A r \in Peers : \A i \in DOMAIN toPeer'[r] : Routed(Relay, r, toPeer'[r][i])
      BY <2>5, <1>0 DEF WiresInv
    <2>8. WiresInv'
      <3>1. toRelay' = toRelay /\ net' = net /\ proto' = proto
        BY <2>3 DEF udp
      <3> HIDE DEF f, q
      <3> QED BY <3>1, <2>1, <2>6, <2>7, <1>0 DEF WiresInv
    <2> QED BY <2>3, <2>4, <2>8, <1>B, <1>D DEF ShapeInv, udp
  <1>4. ASSUME NEW p \in Peers, Leave(p)  PROVE ShapeInv'
    <2>1. ClientsOK'
      BY <1>0, <1>4 DEF Leave, ClientsOK
    <2> QED BY <2>1, <1>4, <1>A, <1>B, <1>D DEF Leave, udp, ShapeInv
  <1>5. ASSUME NEW p \in Peers, SocketClosed(p)  PROVE ShapeInv'
    <2>1. RelayOK'
      BY <1>0, <1>5 DEF SocketClosed, RelayOK
    <2>2. /\ toRelay' = [toRelay EXCEPT ![p] = <<>>] /\ toPeer' = toPeer /\ net' = net
          /\ proto' = proto /\ proto = "tcp"
      BY <1>5 DEF SocketClosed, udp
    <2>3. \A r \in Peers : toRelay'[r] = IF r = p THEN <<>> ELSE toRelay[r]
      BY <2>2, <1>0 DEF WiresInv
    <2>4. toRelay' \in [Peers -> Seq(Frames)]
      BY <2>2, <2>3, <1>0 DEF WiresInv
    <2>5. WiresInv'
      BY <2>2, <2>3, <2>4, <1>0 DEF WiresInv
    <2> QED BY <2>1, <2>5, <1>5, <1>B, <1>C DEF SocketClosed, udp, ShapeInv
  <1>6. ASSUME NEW t \in Tracks, Announce(t)  PROVE ShapeInv'
    <2>1. WiresInv'
      <3> DEFINE fs == <<Control("ANNOUNCE", t)>>
      <3>1. fs \in Seq(Frames) /\ (\A i \in DOMAIN fs : Routed(Publisher, Relay, fs[i]))
        BY ControlFrames
      <3>2. PeerSends(Publisher, fs) /\ UNCHANGED <<proto, toPeer>> /\ Publisher \in Peers
        BY <1>6, Roles DEF Announce
      <3> HIDE DEF fs
      <3> QED BY <3>1, <3>2, <1>0, PeerSendsWires
    <2>2. ClientsOK'
      BY <1>0, <1>6 DEF Announce, ClientsOK
    <2> QED BY <2>1, <2>2, <1>6, <1>B, <1>D DEF Announce, ShapeInv
  <1>7. ASSUME NEW t \in Tracks, SendGroup(t)  PROVE ShapeInv'
    <2>1. WiresInv'
      <3> DEFINE fs == [i \in 1 .. ObjectsPerGroup[t] |-> Object(t, nextObjectId[t] + i - 1)]
      <3>1. fs \in Seq(Frames) /\ (\A i \in DOMAIN fs : Routed(Publisher, Relay, fs[i]))
        BY <1>0, GroupFrames
      <3>2. PeerSends(Publisher, fs) /\ UNCHANGED <<proto, toPeer>> /\ Publisher \in Peers
        BY <1>7, Roles DEF SendGroup
      <3> HIDE DEF fs
      <3> QED BY <3>1, <3>2, <1>0, PeerSendsWires
    <2>2. ClientsOK'
      <3>1. ObjectsPerGroup[t] \in Nat
        BY DirectAssumption
      <3> QED BY <3>1, <1>0, <1>7 DEF SendGroup, ClientsOK
    <2> QED BY <2>1, <2>2, <1>7, <1>B, <1>D DEF SendGroup, ShapeInv
  <1>8. ASSUME NEW t \in Tracks, NEW s \in Subscribers, Subscribe(s, t)  PROVE ShapeInv'
    <2>1. WiresInv'
      <3> DEFINE fs == <<Control("SUBSCRIBE", t)>>
      <3>1. fs \in Seq(Frames) /\ (\A i \in DOMAIN fs : Routed(s, Relay, fs[i]))
        BY ControlFrames
      <3>2. PeerSends(s, fs) /\ UNCHANGED <<proto, toPeer>> /\ s \in Peers
        BY <1>8, Roles DEF Subscribe
      <3> HIDE DEF fs
      <3> QED BY <3>1, <3>2, <1>0, PeerSendsWires
    <2>2. ClientsOK'
      BY <1>0, <1>8 DEF Subscribe, ClientsOK
    <2> QED BY <2>1, <2>2, <1>8, <1>B, <1>D DEF Subscribe, ShapeInv
  <1>9. ASSUME NEW d \in DOMAIN net, DatagramArrives(d)  PROVE ShapeInv'
    <2> DEFINE n == net (-) SetToBag({d})
    <2>1. d \in Datagrams /\ Travels(d) /\ proto = "udp"
      BY <1>0 DEF WiresInv
    <2>2. CollectedInv'
      BY <1>0, <1>9, <2>1, ArrivalCollected
    <2>3. IsABag(n) /\ DOMAIN n \subseteq DOMAIN net
      BY <1>0, BagTake DEF WiresInv
    <2>4. UNCHANGED <<proto, open, gone, subscribeTimers, nextObjectId, toRelay>>
      BY <1>9, Arrival
    <2>5. d.frame \in Frames /\ Routed(d.from, d.to, d.frame)
      BY <2>1, DatagramType DEF Travels
    <2>6. CASE Completes(d) /\ d.to = Relay
      <3>1. RelayHandles(d.from, d.frame, n) /\ UNCHANGED <<timers, recorded>>
        BY <1>9, <2>6, Arrival
      <3>2. d.from \in Peers
        BY <2>5, <2>6, DirectAssumption DEF Routed, Peers
      <3>3. RelayOK'
        BY <1>0, <2>5, <2>6, <3>1, <3>2, RelayHandlesType
      <3>4. RelaySends(Answers(d.frame), n)
        BY <3>1, RelaySendsAnswers
      <3>5. /\ Answers(d.frame) \in [Peers -> Seq(Frames)]
            /\ \A r \in Peers : \A i \in DOMAIN Answers(d.frame)[r] :
                 Routed(Relay, r, Answers(d.frame)[r][i])
        BY <1>0, <2>5, AnswersType
      <3>6. /\ toRelay' = toRelay /\ proto' = proto /\ toRelay \in [Peers -> Seq(Frames)]
            /\ \A p \in Peers : \A i \in DOMAIN toRelay[p] : Routed(p, Relay, toRelay[p][i])
            /\ \A p \in Peers : toRelay[p] = <<>>
        BY <1>0, <2>1, <2>4 DEF WiresInv
      <3> HIDE DEF n
      <3>7. WiresInv'
        BY <1>0, <2>3, <3>4, <3>5, <3>6, RelaySendsWires
      <3>8. ClientsOK'
        BY <1>0, <2>4, <3>1 DEF ClientsOK
      <3> QED BY <2>2, <3>3, <3>7, <3>8 DEF ShapeInv
    <2>7. ASSUME net' = n, UNCHANGED toPeer  PROVE WiresInv'
      <3> HIDE DEF n
      <3> QED BY <2>7, <1>0, <2>1, <2>3, <2>4 DEF WiresInv, Travels
    <2>8. CASE Completes(d) /\ d.to # Relay
      <3>1. PeerHandles(d.to, d.frame) /\ net' = n /\ UNCHANGED <<toPeer, relay>>
        BY <1>9, <2>8, Arrival
      <3>2. d.to \in Peers /\ d.from = Relay
        BY <2>5, <2>8 DEF Routed, Peers
      <3>3. ClientsOK'
        BY <1>0, <2>4, <2>5, <3>1, <3>2, PeerHandlesType
      <3> QED BY <2>2, <2>7, <3>1, <3>3, <1>D DEF ShapeInv
    <2>9. CASE ~Completes(d)
      <3>1. net' = n /\ UNCHANGED <<timers, recorded, toPeer, relay>>
        BY <1>9, <2>9, Arrival
      <3>2. ClientsOK'
        BY <1>0, <2>4, <3>1 DEF ClientsOK
      <3> QED BY <2>2, <2>7, <3>1, <3>2, <1>D DEF ShapeInv
    <2> QED BY <2>6, <2>8, <2>9
  <1>10. ASSUME NEW d \in DOMAIN net, Lose(d)  PROVE ShapeInv'
    <2> DEFINE n == net (-) SetToBag({d})
    <2>1. d \in Datagrams
      BY <1>0 DEF WiresInv
    <2>2. IsABag(n) /\ DOMAIN n \subseteq DOMAIN net
      BY <1>0, BagTake DEF WiresInv
    <2>3. /\ net' = n /\ UNCHANGED <<proto, streams>>
          /\ UNCHANGED <<clients, udpReasm, duplicated, delivered, relay>> /\ lost' = Append(lost, d)
      BY <1>10 DEF Lose
    <2> HIDE DEF n
    <2>4. WiresInv'
      BY <2>2, <2>3, <1>0 DEF WiresInv, streams, Travels
    <2>5. lost' \in Seq(Datagrams)
      BY <2>1, <2>3, <1>0 DEF CollectedInv
    <2>6. CollectedInv'
      BY <2>3, <2>5, <1>0 DEF CollectedInv
    <2> QED BY <2>3, <2>4, <2>6, <1>C, <1>D DEF ShapeInv
  <1>11. ASSUME NEW d \in DOMAIN net, Duplicate(d)  PROVE ShapeInv'
    <2> DEFINE n == net (+) SetToBag({d})
    <2>1. d \in Datagrams
      BY <1>0 DEF WiresInv
    <2>2. IsABag(n) /\ DOMAIN n = DOMAIN net
      BY <1>0, BagDouble DEF WiresInv
    <2>3. /\ net' = n /\ UNCHANGED <<proto, streams>>
          /\ UNCHANGED <<clients, udpReasm, lost, delivered, relay>> /\ duplicated' = Append(duplicated, d)
      BY <1>11 DEF Duplicate
    <2> HIDE DEF n
    <2>4. WiresInv'
      BY <2>2, <2>3, <1>0 DEF WiresInv, streams, Travels
    <2>5. duplicated' \in Seq(Datagrams)
      BY <2>1, <2>3, <1>0 DEF CollectedInv
    <2>6. CollectedInv'
      BY <2>3, <2>5, <1>0 DEF CollectedInv
    <2> QED BY <2>3, <2>4, <2>6, <1>C, <1>D DEF ShapeInv
  <1>12. CASE UNCHANGED vars
    BY <1>12, <1>A, <1>B, <1>C, <1>D DEF vars, udp, ShapeInv
  <1> QED BY <1>1, <1>2, <1>3, <1>4, <1>5, <1>6, <1>7, <1>8, <1>9, <1>10, <1>11, <1>12
          DEF Next, BagToSet

\* Types and routes hold always.
LEMMA ShapeInvariant == Spec => []ShapeInv
  BY ShapeInit, ShapeNext, PTL DEF Spec

\* Every variable holds what the code could store in it, and a frame is collected only as
\* long as some but not all of its fragments have come.
THEOREM TypeCorrect == Spec => []TypeOK
  <1>1. ShapeInv => TypeOK
    BY DEF ShapeInv, WiresInv, CollectedInv, ClientsOK, RelayOK, TypeOK, BagToSet
  <1> QED BY <1>1, ShapeInvariant, PTL

-----------------------------------------------------------------------------
(* A subscriber is registered for a track once.                            *)

\* Nothing is registered at first.
LEMMA RegisteredInit == Init => RegisteredInv
  <1> SUFFICES ASSUME Init  PROVE RegisteredInv
    OBVIOUS
  <1>1. ASSUME NEW s \in Subscribers, NEW t \in Tracks
        PROVE  SubscribesOnce(s, t) /\ subscriberByTrack[t][s] = 0
    <2>1. /\ s \notin open /\ subscribeTimers = {} /\ s \in Peers
          /\ subscriberByTrack[t][s] = 0
      BY Roles DEF Init
    <2>2. toRelay[s] = <<>> /\ DOMAIN toRelay[s] = {}
      BY <2>1 DEF Init
    <2> QED BY <2>1, <2>2 DEF SubscribesOnce
  <1> QED BY <1>1 DEF Init, RegisteredInv

\* What an answer does to the registrations.
LEMMA Registers ==
  ASSUME ShapeInv, NEW p \in Peers, NEW f \in Frames, Routed(p, Relay, f), NEW n,
         RelayHandles(p, f, n)
  PROVE  /\ f.class # "SUBSCRIBE" => UNCHANGED <<subscriberByTrack, subscriberSockets>>
         /\ f.class = "SUBSCRIBE" =>
              /\ p \in Subscribers /\ f = Control("SUBSCRIBE", f.track) /\ f.track \in Tracks
              /\ subscriberSockets' = subscriberSockets \cup {p}
              /\ \A t \in Tracks, s \in Subscribers :
                   subscriberByTrack'[t][s] =
                     IF t = f.track /\ s = p /\ ~(proto = "udp" /\ subscriberByTrack[t][s] > 0)
                     THEN subscriberByTrack[t][s] + 1 ELSE subscriberByTrack[t][s]
  <1>1. CASE f.class # "SUBSCRIBE"
    BY <1>1 DEF RelayHandles, RelayAnnounce, RelaySubscribe, RelayObject
  <1>2. CASE f.class = "SUBSCRIBE"
    <2>1. p \in Subscribers /\ f = Control("SUBSCRIBE", f.track) /\ f.track \in Tracks
      BY <1>2, DirectAssumption, FrameFields DEF Routed
    <2>2. RelaySubscribe(p, f, n)
      BY <1>2 DEF RelayHandles, RelayAnnounce, RelayObject
    <2>3. subscriberSockets' = subscriberSockets \cup {p}
      BY <2>2 DEF RelaySubscribe
    <2> DEFINE c == subscriberByTrack
    <2>4. subscriberByTrack' = [c EXCEPT ![f.track][p] =
                                  IF proto = "udp" /\ @ > 0 THEN @ ELSE @ + 1]
      BY <2>2 DEF RelaySubscribe, Registered
    <2>5. c \in [Tracks -> [Subscribers -> Nat]]
      BY DEF ShapeInv, RelayOK
    <2> HIDE DEF c
    <2>6. \A t \in Tracks, s \in Subscribers :
             subscriberByTrack'[t][s] = IF t = f.track /\ s = p /\ ~(proto = "udp" /\ c[t][s] > 0)
                                        THEN c[t][s] + 1 ELSE c[t][s]
      BY <2>1, <2>4, <2>5
    <2> QED BY <1>2, <2>1, <2>3, <2>6 DEF c
  <1> QED BY <1>1, <1>2

\* How the queue of a subscriber grows.
LEMMA SendsAppend ==
  ASSUME ShapeInv, NEW p \in Peers, NEW f \in Frames, PeerSends(p, <<f>>), proto = "tcp"
  PROVE  \A r \in Peers : toRelay'[r] = IF r = p THEN Append(toRelay[r], f) ELSE toRelay[r]
  <1>1. toRelay' = [toRelay EXCEPT ![p] = @ \o <<f>>] /\ toRelay \in [Peers -> Seq(Frames)]
    BY DEF PeerSends, ShapeInv, WiresInv
  <1>2. \A r \in Peers : toRelay'[r] = IF r = p THEN toRelay[r] \o <<f>> ELSE toRelay[r]
    BY <1>1
  <1>3. \A r \in Peers : toRelay[r] \o <<f>> = Append(toRelay[r], f)
    BY <1>1, AppendIsConcat
  <1> QED BY <1>2, <1>3

\* Every step keeps it: one SUBSCRIBE is sent, handled, and gone.
LEMMA RegisteredNext == ShapeInv /\ RegisteredInv /\ [Next]_vars => RegisteredInv'
  <1> SUFFICES ASSUME ShapeInv, RegisteredInv, [Next]_vars  PROVE RegisteredInv'
    OBVIOUS
  <1>0. /\ gone \subseteq open /\ gone \subseteq Peers /\ open \subseteq Peers
        /\ \A t \in Tracks, s \in Subscribers : subscriberByTrack[t][s] \in {0, 1}
        /\ toRelay \in [Peers -> Seq(Frames)]
    BY DEF RegisteredInv, ShapeInv, WiresInv, ClientsOK
  <1>Q. ASSUME proto = "tcp", NEW s \in Subscribers, NEW t \in Tracks  PROVE SubscribesOnce(s, t)
    BY <1>Q DEF RegisteredInv
  <1>S. Subscribers \subseteq Peers /\ Publisher \notin Subscribers
    BY Roles
  <1>A. ASSUME UNCHANGED <<proto, open, gone, subscriberByTrack, subscriberSockets, subscribeTimers>>,
               proto = "tcp" => \A s \in Subscribers : toRelay'[s] = toRelay[s]
        PROVE  RegisteredInv'
    <2>1. ASSUME proto = "tcp", NEW s \in Subscribers, NEW t \in Tracks  PROVE SubscribesOnce(s, t)'
      BY <1>Q, <1>A, <2>1 DEF SubscribesOnce
    <2> QED BY <1>0, <1>A, <2>1 DEF RegisteredInv
  <1>1. ASSUME NEW p \in Peers, Connect(p)  PROVE RegisteredInv'
    <2>1. /\ open' = open \cup {p} /\ p \notin open
          /\ UNCHANGED <<proto, gone, toRelay, subscriberByTrack, subscriberSockets>>
          /\ \A s \in Subscribers, t \in Tracks : s # p =>
               (<<s, t>> \in subscribeTimers' <=> <<s, t>> \in subscribeTimers)
      BY <1>1 DEF Connect, streams, relay
    <2>2. ASSUME proto = "tcp", NEW s \in Subscribers, NEW t \in Tracks  PROVE SubscribesOnce(s, t)'
      <3>1. SubscribesOnce(s, t)
        BY <2>2, <1>Q
      <3>2. CASE s # p
        BY <2>1, <3>1, <3>2 DEF SubscribesOnce
      <3>3. CASE s = p
        <4>1. toRelay'[s] = <<>> /\ subscriberByTrack'[t][s] = 0 /\ s \in open'
          BY <2>1, <3>1, <3>3 DEF SubscribesOnce
        <4> QED BY <4>1 DEF SubscribesOnce
      <3> QED BY <3>2, <3>3
    <2> QED BY <1>0, <2>1, <2>2 DEF RegisteredInv
  <1>2. ASSUME NEW p \in Peers, RelayReceives(p)  PROVE RegisteredInv'
    <2> DEFINE q == toRelay[p]
               f == Head(q)
    <2>1. q \in Seq(Frames) /\ q # <<>> /\ proto = "tcp"
      BY <1>0, <1>2 DEF RelayReceives, ShapeInv, WiresInv
    <2>2. f \in Frames /\ Routed(p, Relay, f) /\ f = q[1] /\ 1 \in DOMAIN q
      <3>1. f = toRelay[p][1] /\ 1 \in DOMAIN toRelay[p]
        BY <2>1
      <3> QED BY <3>1, <2>1 DEF ShapeInv, WiresInv
    <2>3. /\ RelayHandles(p, f, net) /\ toRelay' = [toRelay EXCEPT ![p] = Tail(@)]
          /\ UNCHANGED <<proto, open, gone, subscribeTimers>>
      BY <1>2 DEF RelayReceives, clients
    <2>4. \A s \in Subscribers : toRelay'[s] = IF s = p THEN Tail(q) ELSE toRelay[s]
      BY <2>3, <1>0, <1>S
    <2>5. \A i \in DOMAIN Tail(q) : i + 1 \in DOMAIN q /\ Tail(q)[i] = q[i + 1] /\ i + 1 # 1 /\ i \in Nat
      BY <2>1
    <2>6. /\ f.class # "SUBSCRIBE" => UNCHANGED <<subscriberByTrack, subscriberSockets>>
          /\ f.class = "SUBSCRIBE" =>
               /\ p \in Subscribers /\ f = Control("SUBSCRIBE", f.track) /\ f.track \in Tracks
               /\ subscriberSockets' = subscriberSockets \cup {p}
               /\ \A t \in Tracks, s \in Subscribers :
                    subscriberByTrack'[t][s] = IF t = f.track /\ s = p
                      THEN subscriberByTrack[t][s] + 1 ELSE subscriberByTrack[t][s]
      BY <2>1, <2>2, <2>3, Registers
    <2> HIDE DEF q, f
    <2>7. ASSUME NEW s \in Subscribers, NEW t \in Tracks
          PROVE  SubscribesOnce(s, t)' /\ subscriberByTrack'[t][s] \in {0, 1}
      <3> DEFINE c == subscriberByTrack[t][s]
                 g == Control("SUBSCRIBE", t)
      <3>1. SubscribesOnce(s, t) /\ c \in {0, 1} /\ s \in Peers
        BY <2>1, <2>7, <1>Q, <1>0, <1>S
      <3>2. CASE f.class = "SUBSCRIBE" /\ s = p /\ t = f.track
        <4>1. f = g /\ q = toRelay[s] /\ toRelay'[s] = Tail(q)
          BY <2>4, <2>6, <3>2 DEF q
        <4>2. c = 0 /\ (\A j \in DOMAIN q : q[j] = g => j = 1) /\ <<s, t>> \notin subscribeTimers
              /\ s \in open
          BY <3>1, <4>1, <2>2 DEF SubscribesOnce
        <4>3. \A i \in DOMAIN Tail(q) : Tail(q)[i] # g
          BY <4>2, <2>5
        <4>4. subscriberByTrack'[t][s] = 1 /\ s \in subscriberSockets'
          BY <2>6, <3>2, <4>2
        <4> QED BY <2>3, <4>1, <4>2, <4>3, <4>4 DEF SubscribesOnce
      <3>3. CASE s = p /\ ~(f.class = "SUBSCRIBE" /\ t = f.track)
        <4>1. q = toRelay[s] /\ toRelay'[s] = Tail(q)
          BY <2>4, <3>3 DEF q
        <4>2. subscriberByTrack'[t][s] = c /\ (s \in subscriberSockets => s \in subscriberSockets')
          BY <2>6, <3>3
        <4>3. s \in open /\ (c = 1 => s \in subscriberSockets)
          BY <3>1, <4>1, <2>1 DEF SubscribesOnce
        <4>4. <<s, t>> \in subscribeTimers => c = 0 /\ \A i \in DOMAIN Tail(q) : Tail(q)[i] # g
          BY <3>1, <4>1, <2>5 DEF SubscribesOnce
        <4>5. ASSUME NEW i \in DOMAIN Tail(q), Tail(q)[i] = g
              PROVE  c = 0 /\ \A j \in DOMAIN Tail(q) : Tail(q)[j] = g => j = i
          <5>1. q[i + 1] = g /\ i + 1 \in DOMAIN q /\ i \in Nat
            BY <4>5, <2>5
          <5>2. c = 0 /\ \A j \in DOMAIN q : q[j] = g => j = i + 1
            BY <3>1, <4>1, <5>1 DEF SubscribesOnce
          <5>3. ASSUME NEW j \in DOMAIN Tail(q), Tail(q)[j] = g  PROVE j = i
            <6>1. j + 1 = i + 1 /\ j \in Nat
              BY <5>2, <5>3, <2>5
            <6> QED BY <6>1, <5>1
          <5> QED BY <5>2, <5>3
        <4> QED BY <3>1, <2>3, <4>1, <4>2, <4>3, <4>4, <4>5 DEF SubscribesOnce
      <3>4. CASE s # p
        <4>1. toRelay'[s] = toRelay[s] /\ subscriberByTrack'[t][s] = c
              /\ (s \in subscriberSockets' <=> s \in subscriberSockets)
          BY <2>4, <2>6, <3>4
        <4> QED BY <3>1, <2>3, <4>1 DEF SubscribesOnce
      <3> QED BY <3>2, <3>3, <3>4
    <2> QED BY <2>3, <2>7, <1>0 DEF RegisteredInv
  <1>3. ASSUME NEW p \in Peers, PeerReceives(p)  PROVE RegisteredInv'
    BY <1>3, <1>A DEF PeerReceives, relay
  <1>4. ASSUME NEW p \in Peers, Leave(p)  PROVE RegisteredInv'
    <2>1. /\ gone' = gone \cup {p} /\ p \in open
          /\ UNCHANGED <<proto, open, toRelay, subscribeTimers, subscriberByTrack, subscriberSockets>>
      BY <1>4 DEF Leave, streams, relay
    <2>2. ASSUME proto = "tcp", NEW s \in Subscribers, NEW t \in Tracks  PROVE SubscribesOnce(s, t)'
      BY <1>Q, <2>1, <2>2 DEF SubscribesOnce
    <2> QED BY <1>0, <2>1, <2>2 DEF RegisteredInv
  <1>5. ASSUME NEW p \in Peers, SocketClosed(p)  PROVE RegisteredInv'
    <2>1. /\ p \in gone /\ toRelay' = [toRelay EXCEPT ![p] = <<>>]
          /\ subscriberSockets' = subscriberSockets \ {p}
          /\ UNCHANGED <<proto, open, gone, subscribeTimers, subscriberByTrack>>
      BY <1>5 DEF SocketClosed, clients
    <2>2. \A s \in Subscribers : toRelay'[s] = IF s = p THEN <<>> ELSE toRelay[s]
      BY <2>1, <1>0, <1>S
    <2>3. ASSUME proto = "tcp", NEW s \in Subscribers, NEW t \in Tracks  PROVE SubscribesOnce(s, t)'
      <3>1. SubscribesOnce(s, t)
        BY <2>3, <1>Q
      <3>2. CASE s = p
        <4>1. toRelay'[s] = <<>> /\ DOMAIN toRelay'[s] = {}
          BY <2>2, <3>2
        <4> QED BY <2>1, <3>1, <3>2, <4>1 DEF SubscribesOnce
      <3>3. CASE s # p
        <4>1. toRelay'[s] = toRelay[s]
          BY <2>2, <3>3
        <4> QED BY <2>1, <3>1, <3>3, <4>1 DEF SubscribesOnce
      <3> QED BY <3>2, <3>3
    <2> QED BY <1>0, <2>1, <2>3 DEF RegisteredInv
  <1>6. ASSUME NEW t \in Tracks, Announce(t)  PROVE RegisteredInv'
    <2>1. UNCHANGED <<proto, open, gone, subscribeTimers, subscriberByTrack, subscriberSockets>>
          /\ PeerSends(Publisher, <<Control("ANNOUNCE", t)>>)
      BY <1>6 DEF Announce, relay
    <2>2. proto = "tcp" => \A s \in Subscribers : toRelay'[s] = toRelay[s]
      BY <2>1, <1>0, <1>S DEF PeerSends
    <2> QED BY <2>1, <2>2, <1>A
  <1>7. ASSUME NEW t \in Tracks, SendGroup(t)  PROVE RegisteredInv'
    <2> DEFINE fs == [i \in 1 .. ObjectsPerGroup[t] |-> Object(t, nextObjectId[t] + i - 1)]
    <2>1. UNCHANGED <<proto, open, gone, subscribeTimers, subscriberByTrack, subscriberSockets>>
          /\ PeerSends(Publisher, fs)
      BY <1>7 DEF SendGroup, relay
    <2> HIDE DEF fs
    <2>2. proto = "tcp" => \A s \in Subscribers : toRelay'[s] = toRelay[s]
      BY <2>1, <1>0, <1>S DEF PeerSends
    <2> QED BY <2>1, <2>2, <1>A
  <1>8. ASSUME NEW u \in Tracks, NEW r \in Subscribers, Subscribe(r, u)  PROVE RegisteredInv'
    <2>1. /\ UNCHANGED <<proto, open, gone, subscriberByTrack, subscriberSockets>>
          /\ PeerSends(r, <<Control("SUBSCRIBE", u)>>) /\ r \in Peers
          /\ <<r, u>> \in subscribeTimers /\ subscribeTimers' = subscribeTimers \ {<<r, u>>}
          /\ r \notin gone
      BY <1>8, <1>S DEF Subscribe, relay
    <2>2. ASSUME proto = "tcp", NEW s \in Subscribers, NEW t \in Tracks  PROVE SubscribesOnce(s, t)'
      <3> DEFINE c == subscriberByTrack[t][s]
                 f == Control("SUBSCRIBE", t)
                 g == Control("SUBSCRIBE", u)
                 q == toRelay[s]
      <3>1. SubscribesOnce(s, t) /\ SubscribesOnce(r, u)
        BY <2>2, <1>Q
      <3>2. g \in Frames /\ f.track = t /\ g.track = u
        BY FrameTypes
      <3>3. toRelay'[s] = IF s = r THEN Append(q, g) ELSE q
        BY <2>1, <2>2, <3>2, <1>S, SendsAppend
      <3>4. CASE s # r
        BY <3>1, <3>3, <3>4, <2>1 DEF SubscribesOnce
      <3>5. CASE s = r
        <4>1. q \in Seq(Frames) /\ toRelay'[s] = Append(q, g)
          BY <1>0, <1>S, <3>3, <3>5
        <4>2. s \in open /\ (c = 1 => s \in subscriberSockets)
          BY <3>1, <3>5, <2>1 DEF SubscribesOnce
        <4>3. u = t => c = 0 /\ \A i \in DOMAIN q : q[i] # f
          BY <3>1, <3>5, <2>1 DEF SubscribesOnce
        <4>4. u # t => f # g
          BY <3>2
        <4>5. <<s, t>> \in subscribeTimers' => u # t /\ <<s, t>> \in subscribeTimers
          BY <2>1, <3>5
        <4>6. /\ <<s, t>> \in subscribeTimers => c = 0 /\ \A i \in DOMAIN q : q[i] # f
              /\ \A i \in DOMAIN q : q[i] = f => c = 0 /\ \A j \in DOMAIN q : q[j] = f => j = i
          BY <3>1 DEF SubscribesOnce
        <4>7. u = t => f = g
          OBVIOUS
        <4> HIDE DEF f, g, q, c
        <4>8. \A i \in DOMAIN Append(q, g) : \/ i \in DOMAIN q /\ Append(q, g)[i] = q[i]
                                             \/ i = Len(q) + 1 /\ Append(q, g)[i] = g
          BY <4>1
        <4>9. <<s, t>> \in subscribeTimers' => c = 0 /\ \A i \in DOMAIN Append(q, g) : Append(q, g)[i] # f
          BY <4>4, <4>5, <4>6, <4>8
        <4>10. ASSUME NEW i \in DOMAIN Append(q, g), Append(q, g)[i] = f
               PROVE  c = 0 /\ \A j \in DOMAIN Append(q, g) : Append(q, g)[j] = f => j = i
          BY <4>10, <4>3, <4>4, <4>6, <4>7, <4>8
        <4> QED BY <2>1, <4>1, <4>2, <4>9, <4>10 DEF SubscribesOnce, c, f
      <3> QED BY <3>4, <3>5
    <2> QED BY <1>0, <2>1, <2>2 DEF RegisteredInv
  <1>9. ASSUME NEW d \in DOMAIN net, DatagramArrives(d)  PROVE RegisteredInv'
    <2>1. d \in Datagrams /\ Travels(d) /\ proto = "udp"
      BY DEF ShapeInv, WiresInv
    <2>2. UNCHANGED <<proto, open, gone>>
      BY <1>9, Arrival
    <2>3. ASSUME NEW t \in Tracks, NEW s \in Subscribers  PROVE subscriberByTrack'[t][s] \in {0, 1}
      <3>1. CASE Completes(d) /\ d.to = Relay
        <4>1. RelayHandles(d.from, d.frame, net (-) SetToBag({d}))
          BY <1>9, <3>1, Arrival
        <4>2. d.from \in Peers /\ Routed(d.from, Relay, d.frame) /\ d.frame \in Frames
          BY <2>1, <3>1, DirectAssumption, DatagramType DEF Travels, Routed, Peers
        <4>3. \/ subscriberByTrack' = subscriberByTrack
              \/ subscriberByTrack'[t][s] = IF t = d.frame.track /\ s = d.from /\ ~(subscriberByTrack[t][s] > 0)
                                            THEN subscriberByTrack[t][s] + 1 ELSE subscriberByTrack[t][s]
          BY <4>1, <4>2, <2>1, Registers
        <4> QED BY <4>3, <1>0
      <3>2. CASE ~(Completes(d) /\ d.to = Relay)
        <4>1. subscriberByTrack' = subscriberByTrack
          BY <1>9, <3>2, Arrival DEF relay
        <4> QED BY <4>1, <1>0
      <3> QED BY <3>1, <3>2
    <2> QED BY <1>0, <2>1, <2>2, <2>3 DEF RegisteredInv
  <1>10. ASSUME NEW d \in DOMAIN net, Lose(d) \/ Duplicate(d)  PROVE RegisteredInv'
    BY <1>10, <1>A DEF Lose, Duplicate, clients, streams, relay
  <1>11. CASE UNCHANGED vars
    BY <1>11, <1>A DEF vars, clients, streams, relay
  <1> QED BY <1>1, <1>2, <1>3, <1>4, <1>5, <1>6, <1>7, <1>8, <1>9, <1>10, <1>11
          DEF Next, BagToSet

\* A subscriber is registered for a track at most once, always.
LEMMA RegisteredInvariant == Spec => []RegisteredInv
  BY RegisteredInit, RegisteredNext, ShapeInvariant, PTL DEF Spec

-----------------------------------------------------------------------------
(* Over TCP: runs of objects in a stream.                                  *)

\* A stream without objects of t is the empty run, from anywhere.
LEMMA LineNone ==
  ASSUME NEW q \in Seq(Frames), NEW t, NEW a \in Nat, \A i \in DOMAIN q : ~ObjectOf(q[i], t)
  PROVE  Line(q, t, a, a)
  BY DEF Line

\* An empty run has no objects, so that it is one from anywhere else too.
LEMMA LineMoves ==
  ASSUME NEW q \in Seq(Frames), NEW t, NEW a \in Nat, NEW b \in Nat, Line(q, t, a, a)
  PROVE  Line(q, t, b, b)
  BY LineNone DEF Line

\* Two runs, the one going on from the other.
LEMMA LineConcat ==
  ASSUME NEW q \in Seq(Frames), NEW g \in Seq(Frames), NEW t \in Tracks,
         NEW a \in Nat, NEW b \in Nat, NEW c \in Nat, Line(q, t, a, b), Line(g, t, b, c)
  PROVE  Line(q \o g, t, a, c)
  <1> DEFINE z == q \o g
             n == Len(q)
  <1>1. /\ n \in Nat /\ DOMAIN q = 1 .. n
        /\ \A i \in DOMAIN z : /\ i \in Int
                               /\ \/ i \in DOMAIN q /\ z[i] = q[i]
                                  \/ i > n /\ i - n \in DOMAIN g /\ z[i] = g[i - n]
        /\ \A i \in DOMAIN q : i \in DOMAIN z /\ z[i] = q[i]
        /\ \A i \in DOMAIN g : i + n \in DOMAIN z /\ z[i + n] = g[i]
    OBVIOUS
  <1>2. /\ a <= b /\ b <= c
        /\ \A i \in DOMAIN q : ObjectOf(q[i], t) => q[i].objectId \in a .. b - 1
        /\ \A i \in DOMAIN g : ObjectOf(g[i], t) => g[i].objectId \in b .. c - 1
        /\ \A id \in a .. b - 1 : \E i \in DOMAIN q : q[i] = Object(t, id)
        /\ \A id \in b .. c - 1 : \E i \in DOMAIN g : g[i] = Object(t, id)
    BY DEF Line
  <1>3. \A i, j \in DOMAIN q : ObjectOf(q[i], t) /\ ObjectOf(q[j], t) /\ i < j =>
           q[i].objectId < q[j].objectId
    BY DEF Line
  <1>4. \A i, j \in DOMAIN g : ObjectOf(g[i], t) /\ ObjectOf(g[j], t) /\ i < j =>
           g[i].objectId < g[j].objectId
    BY DEF Line
  <1> HIDE DEF z, n
  <1>5. a <= c
    BY <1>2
  <1>6. \A i \in DOMAIN z : ObjectOf(z[i], t) => z[i].objectId \in a .. c - 1
    BY <1>1, <1>2
  <1>7. ASSUME NEW id \in a .. c - 1  PROVE \E i \in DOMAIN z : z[i] = Object(t, id)
    <2>1. CASE id < b
      BY <2>1, <1>1, <1>2
    <2>2. CASE id >= b
      <3>1. id \in b .. c - 1
        BY <2>2
      <3>2. PICK i \in DOMAIN g : g[i] = Object(t, id)
        BY <3>1, <1>2
      <3> QED BY <3>2, <1>1
    <2> QED BY <2>1, <2>2
  <1>8. ASSUME NEW i \in DOMAIN z, NEW j \in DOMAIN z, ObjectOf(z[i], t), ObjectOf(z[j], t), i < j
        PROVE  z[i].objectId < z[j].objectId
    <2>0. i \in Int /\ j \in Int
      BY <1>1
    <2>1. CASE i \in DOMAIN q /\ j \in DOMAIN q
      <3>1. z[i] = q[i] /\ z[j] = q[j]
        BY <2>1, <1>1
      <3> QED BY <3>1, <2>1, <1>8, <1>3
    <2>2. CASE i \in DOMAIN q /\ j \notin DOMAIN q
      <3>1. z[i] = q[i] /\ j - n \in DOMAIN g /\ z[j] = g[j - n]
        BY <2>2, <1>1
      <3>2. z[i].objectId \in a .. b - 1 /\ z[j].objectId \in b .. c - 1
        BY <3>1, <2>2, <1>8, <1>2
      <3> QED BY <3>2
    <2>3. CASE i \notin DOMAIN q /\ j \in DOMAIN q
      <3>1. i > n /\ j <= n
        BY <2>3, <1>1
      <3> QED BY <3>1, <2>0, <1>1, <1>8
    <2>4. CASE i \notin DOMAIN q /\ j \notin DOMAIN q
      <3>1. i - n \in DOMAIN g /\ j - n \in DOMAIN g /\ z[i] = g[i - n] /\ z[j] = g[j - n]
        BY <2>4, <1>1
      <3>2. i - n < j - n
        BY <2>0, <1>1, <1>8
      <3> QED BY <3>1, <3>2, <1>8, <1>4
    <2> QED BY <2>1, <2>2, <2>3, <2>4
  <1> QED BY <1>5, <1>6, <1>7, <1>8 DEF Line, z

\* A run begins with its first object, and goes on without it.
LEMMA LineTail ==
  ASSUME NEW q \in Seq(Frames), q # <<>>, NEW t \in Tracks, NEW a \in Nat, NEW b \in Nat,
         Line(q, t, a, b)
  PROVE  /\ ObjectOf(Head(q), t) =>
              Head(q) = Object(t, a) /\ a < b /\ Line(Tail(q), t, a + 1, b)
         /\ ~ObjectOf(Head(q), t) => Line(Tail(q), t, a, b)
  <1> DEFINE z == Tail(q)
             f == Head(q)
  <1>1. /\ 1 \in DOMAIN q /\ f = q[1] /\ f \in Frames
        /\ \A i \in DOMAIN z : i + 1 \in DOMAIN q /\ z[i] = q[i + 1] /\ i \in Nat /\ 1 < i + 1
        /\ \A i \in DOMAIN q : i \in Nat /\ (i # 1 => i - 1 \in DOMAIN z /\ z[i - 1] = q[i] /\ 1 < i)
    OBVIOUS
  <1>2. /\ a <= b
        /\ \A i \in DOMAIN q : ObjectOf(q[i], t) => q[i].objectId \in a .. b - 1
        /\ \A id \in a .. b - 1 : \E i \in DOMAIN q : q[i] = Object(t, id)
    BY DEF Line
  <1>3. \A i, j \in DOMAIN q : ObjectOf(q[i], t) /\ ObjectOf(q[j], t) /\ i < j =>
           q[i].objectId < q[j].objectId
    BY DEF Line
  <1> HIDE DEF z, f
  <1>4. \A i, j \in DOMAIN z : ObjectOf(z[i], t) /\ ObjectOf(z[j], t) /\ i < j =>
           z[i].objectId < z[j].objectId
    <2> SUFFICES ASSUME NEW i \in DOMAIN z, NEW j \in DOMAIN z, ObjectOf(z[i], t), ObjectOf(z[j], t), i < j
                 PROVE  z[i].objectId < z[j].objectId
      OBVIOUS
    <2>1. i + 1 < j + 1 /\ i + 1 \in DOMAIN q /\ j + 1 \in DOMAIN q /\ z[i] = q[i + 1] /\ z[j] = q[j + 1]
      BY <1>1
    <2> QED BY <2>1, <1>3
  <1>5. CASE ~ObjectOf(f, t)
    <2>1. \A i \in DOMAIN z : ObjectOf(z[i], t) => z[i].objectId \in a .. b - 1
      BY <1>1, <1>2
    <2>2. ASSUME NEW id \in a .. b - 1  PROVE \E i \in DOMAIN z : z[i] = Object(t, id)
      <3>1. PICK i \in DOMAIN q : q[i] = Object(t, id)
        BY <1>2
      <3>2. ObjectOf(q[i], t)
        BY <3>1 DEF ObjectOf, Object, Frame
      <3>3. i # 1
        BY <3>2, <1>1, <1>5
      <3> QED BY <3>1, <3>3, <1>1
    <2> QED BY <1>2, <1>4, <1>5, <2>1, <2>2 DEF Line, z, f
  <1>6. CASE ObjectOf(f, t)
    <2>1. f.objectId \in a .. b - 1 /\ f = Object(t, f.objectId) /\ a < b
      BY <1>1, <1>2, <1>6, FrameFields DEF ObjectOf
    <2>2. f.objectId = a
      <3>1. PICK i \in DOMAIN q : q[i] = Object(t, a)
        BY <1>2, <2>1
      <3>2. ObjectOf(q[i], t) /\ q[i].objectId = a
        BY <3>1 DEF ObjectOf, Object, Frame
      <3>3. CASE i = 1
        BY <3>2, <3>3, <1>1
      <3>4. CASE i # 1
        <4>1. f.objectId < a
          BY <3>2, <3>4, <1>1, <1>3, <1>6
        <4> QED BY <4>1, <2>1
      <3> QED BY <3>3, <3>4
    <2>3. \A i \in DOMAIN z : ObjectOf(z[i], t) => z[i].objectId \in a + 1 .. b - 1
      <3> SUFFICES ASSUME NEW i \in DOMAIN z, ObjectOf(z[i], t)
                   PROVE  z[i].objectId \in a + 1 .. b - 1
        OBVIOUS
      <3>1. q[1].objectId < q[i + 1].objectId
        BY <1>1, <1>3, <1>6
      <3>2. q[i + 1].objectId \in a .. b - 1
        BY <1>1, <1>2
      <3> QED BY <3>1, <3>2, <1>1, <2>2
    <2>4. ASSUME NEW id \in a + 1 .. b - 1  PROVE \E i \in DOMAIN z : z[i] = Object(t, id)
      <3>1. id \in a .. b - 1
        OBVIOUS
      <3>2. PICK i \in DOMAIN q : q[i] = Object(t, id)
        BY <3>1, <1>2
      <3>3. q[i].objectId = id
        BY <3>2 DEF Object, Frame
      <3>4. i # 1
        BY <3>3, <2>2, <1>1
      <3> QED BY <3>2, <3>4, <1>1
    <2>5. a + 1 <= b
      BY <2>1
    <2> QED BY <1>4, <1>6, <2>1, <2>2, <2>3, <2>4, <2>5 DEF Line, z, f
  <1> QED BY <1>5, <1>6 DEF z, f

\* The frames of a group, and the copies of an object.
LEMMA LineOfObjects ==
  ASSUME NEW g \in Seq(Frames), NEW t \in Tracks, NEW b \in Nat,
         \A i \in DOMAIN g : g[i] = Object(t, b + i - 1)
  PROVE  Line(g, t, b, b + Len(g))
  <1>1. /\ Len(g) \in Nat /\ DOMAIN g = 1 .. Len(g)
    OBVIOUS
  <1>2. \A i \in DOMAIN g : i \in Nat /\ g[i].objectId = b + i - 1
    BY <1>1 DEF Object, Frame
  <1>3. ASSUME NEW id \in b .. b + Len(g) - 1  PROVE \E i \in DOMAIN g : g[i] = Object(t, id)
    <2>1. id - b + 1 \in DOMAIN g /\ b + (id - b + 1) - 1 = id
      BY <1>1
    <2> QED BY <2>1
  <1>4. \A i \in DOMAIN g : g[i].objectId \in b .. b + Len(g) - 1
    BY <1>1, <1>2
  <1>5. \A i, j \in DOMAIN g : i < j => g[i].objectId < g[j].objectId
    BY <1>2
  <1>6. b <= b + Len(g)
    BY <1>1
  <1> QED BY <1>3, <1>4, <1>5, <1>6 DEF Line

-----------------------------------------------------------------------------
(* Over TCP the relay has the objects in order, and so have subscribers.   *)

\* All streams are empty at first.
LEMMA StreamsInit == Init => StreamsInv
  <1> SUFFICES ASSUME Init  PROVE StreamsInv
    OBVIOUS
  <1>1. Publisher \in Peers /\ Subscribers \subseteq Peers
    BY Roles
  <1>2. <<>> \in Seq(Frames) /\ DOMAIN <<>> = {}
    OBVIOUS
  <1>3. \A t \in Tracks : Line(<<>>, t, 0, 0)
    BY <1>2, LineNone
  <1>4. PublisherLine
    BY <1>1, <1>3 DEF Init, PublisherLine
  <1>5. ASSUME NEW s \in Subscribers, NEW t \in Tracks  PROVE SubscriberLine(s, t)
    <2>1. toPeer[s] = <<>> /\ recorded[s][t] = <<>>
      BY <1>1 DEF Init
    <2>2. Consecutive(<<>>)
      BY DEF Consecutive
    <2>3. Continues(s, t, 0, 0)
      BY <2>1, <2>2, <1>3 DEF Continues
    <2> QED BY <2>3 DEF SubscriberLine
  <1> QED BY <1>4, <1>5 DEF StreamsInv

\* A run is known by its stream and its bounds.
LEMMA PublisherLineStays ==
  ASSUME PublisherLine, gone \subseteq gone', toRelay'[Publisher] = toRelay[Publisher],
         recvFromPubByTrack' = recvFromPubByTrack, nextObjectId' = nextObjectId
  PROVE  PublisherLine'
  BY DEF PublisherLine, Line

\* The same to a subscriber; one that is not registered has no run to keep.
LEMMA SubscriberLineStays ==
  ASSUME NEW s \in Subscribers, NEW t \in Tracks, SubscriberLine(s, t),
         toPeer'[s] = toPeer[s], recorded'[s][t] = recorded[s][t],
         subscriberByTrack'[t][s] = subscriberByTrack[t][s],
         recvFromPubByTrack'[t] = recvFromPubByTrack[t],
         s \in subscriberSockets' => s \in subscriberSockets \/ subscriberByTrack[t][s] = 0
  PROVE  SubscriberLine(s, t)'
  <1>1. PICK a \in Nat, b \in Nat : Continues(s, t, a, b)
    BY DEF SubscriberLine
  <1>2. Copies(t, s)' # 0 => Copies(t, s) # 0
    BY DEF Copies
  <1>3. Line(toPeer[s], t, a, b)'
    BY <1>1 DEF Continues, Line
  <1>4. Continues(s, t, a, b)'
    BY <1>1, <1>2, <1>3 DEF Continues, Consecutive
  <1> QED BY <1>4 DEF SubscriberLine

\* The publisher sends.
LEMMA PublisherLineGrows ==
  ASSUME ShapeInv, PublisherLine, Publisher \notin gone, proto = "tcp", UNCHANGED gone,
         NEW g \in Seq(Frames), PeerSends(Publisher, g),
         recvFromPubByTrack' = recvFromPubByTrack,
         \A t \in Tracks : nextObjectId'[t] \in Nat /\ Line(g, t, nextObjectId[t], nextObjectId'[t])
  PROVE  PublisherLine'
  <1> DEFINE q == toRelay[Publisher]
  <1>1. q \in Seq(Frames) /\ toRelay'[Publisher] = q \o g
    <2>1. toRelay' = [toRelay EXCEPT ![Publisher] = @ \o g] /\ toRelay \in [Peers -> Seq(Frames)]
      BY DEF PeerSends, ShapeInv, WiresInv
    <2> QED BY <2>1, Roles
  <1>2. \A t \in Tracks : Line(q, t, recvFromPubByTrack[t], nextObjectId[t])
    BY DEF PublisherLine
  <1>3. \A t \in Tracks : recvFromPubByTrack[t] \in Nat /\ nextObjectId[t] \in Nat
    BY DEF ShapeInv, ClientsOK, RelayOK
  <1> HIDE DEF q
  <1>4. \A t \in Tracks : Line(q \o g, t, recvFromPubByTrack[t], nextObjectId'[t])
    BY <1>1, <1>2, <1>3, LineConcat
  <1>5. \A t \in Tracks : Line(toRelay'[Publisher], t, recvFromPubByTrack'[t], nextObjectId'[t])
    BY <1>1, <1>4
  <1> QED BY <1>5 DEF PublisherLine, Line

\* The relay takes the next object: it is the next of its track.
LEMMA PublisherLineTail ==
  ASSUME ShapeInv, PublisherLine, proto = "tcp", RelayReceives(Publisher)
  PROVE  LET f == Head(toRelay[Publisher])
         IN  /\ PublisherLine'
             /\ f.class = "OBJECT" => f = Object(f.track, recvFromPubByTrack[f.track])
  <1> DEFINE q == toRelay[Publisher]
             f == Head(q)
             recv == recvFromPubByTrack
  <1>1. q \in Seq(Frames) /\ q # <<>> /\ f \in Frames /\ Routed(Publisher, Relay, f)
    <2>1. q \in Seq(Frames) /\ q # <<>> /\ \A i \in DOMAIN q : Routed(Publisher, Relay, q[i])
      BY Roles DEF RelayReceives, ShapeInv, WiresInv
    <2>2. f = q[1] /\ 1 \in DOMAIN q /\ f \in Frames
      BY <2>1
    <2> QED BY <2>1, <2>2
  <1>2. \A t \in Tracks : Line(q, t, recv[t], nextObjectId[t])
    BY <1>1 DEF PublisherLine
  <1>3. \A t \in Tracks : recv[t] \in Nat /\ nextObjectId[t] \in Nat
    BY DEF ShapeInv, ClientsOK, RelayOK
  <1>4. /\ toRelay'[Publisher] = Tail(q) /\ UNCHANGED <<gone, nextObjectId>>
        /\ RelayHandles(Publisher, f, net)
    BY Roles DEF RelayReceives, ShapeInv, WiresInv, clients
  <1>5. f.class = "OBJECT" => f.track \in Tracks /\ recv' = [recv EXCEPT ![f.track] = @ + 1]
    BY <1>1, <1>4, FrameFields DEF RelayHandles, RelayAnnounce, RelaySubscribe, RelayObject
  <1>6. f.class # "OBJECT" => recv' = recv
    BY <1>4 DEF RelayHandles, RelayAnnounce, RelaySubscribe, RelayObject
  <1>7. recv \in [Tracks -> Nat]
    BY DEF ShapeInv, RelayOK
  <1> HIDE DEF q, f, recv
  <1>8. ASSUME NEW t \in Tracks
        PROVE  /\ ObjectOf(f, t) => f = Object(t, recv[t])
               /\ Line(Tail(q), t, recv'[t], nextObjectId[t])
    <2>1. CASE ObjectOf(f, t)
      <3>1. f = Object(t, recv[t]) /\ Line(Tail(q), t, recv[t] + 1, nextObjectId[t])
        BY <2>1, <1>1, <1>2, <1>3, LineTail DEF f
      <3>2. recv'[t] = recv[t] + 1
        BY <2>1, <1>5, <1>7 DEF ObjectOf
      <3> QED BY <3>1, <3>2
    <2>2. CASE ~ObjectOf(f, t)
      <3>1. Line(Tail(q), t, recv[t], nextObjectId[t])
        BY <2>2, <1>1, <1>2, <1>3, LineTail DEF f
      <3>2. recv'[t] = recv[t]
        BY <2>2, <1>5, <1>6, <1>7 DEF ObjectOf
      <3> QED BY <2>2, <3>1, <3>2
    <2> QED BY <2>1, <2>2
  <1>9. PublisherLine'
    BY <1>4, <1>8 DEF PublisherLine, Line, recv
  <1>10. f.class = "OBJECT" => f = Object(f.track, recv[f.track])
    BY <1>5, <1>8 DEF ObjectOf
  <1> QED BY <1>9, <1>10 DEF f, q, recv

\* The relay forwards the next object, or registers a subscriber.
LEMMA SubscriberLineGrows ==
  ASSUME ShapeInv, RegisteredInv, proto = "tcp", NEW p \in Peers, RelayReceives(p),
         LET f == Head(toRelay[p])
         IN  f.class = "OBJECT" => f = Object(f.track, recvFromPubByTrack[f.track]),
         NEW s \in Subscribers, NEW t \in Tracks, SubscriberLine(s, t)
  PROVE  SubscriberLine(s, t)'
  <1> DEFINE f == Head(toRelay[p])
             q == toPeer[s]
             r == recorded[s][t]
             c == subscriberByTrack[t][s]
             next == recvFromPubByTrack[t]
             g == Answers(f)[s]
  <1>1. PICK a \in Nat, b \in Nat : Continues(s, t, a, b)
    BY DEF SubscriberLine
  <1>2. f \in Frames /\ Routed(p, Relay, f) /\ toRelay[p] # <<>>
    <2> DEFINE x == toRelay[p]
    <2>1. x \in Seq(Frames) /\ x # <<>> /\ \A i \in DOMAIN x : Routed(p, Relay, x[i])
      BY Roles DEF RelayReceives, ShapeInv, WiresInv
    <2>2. Head(x) = x[1] /\ 1 \in DOMAIN x /\ Head(x) \in Frames
      BY <2>1
    <2> QED BY <2>1, <2>2
  <1>3. RelayHandles(p, f, net) /\ RelaySends(Answers(f), net) /\ recorded' = recorded
    BY RelaySendsAnswers DEF RelayReceives, clients
  <1>4. s \in Peers /\ s # Publisher
    BY Roles
  <1>5. q \in Seq(Frames) /\ g \in Seq(Frames) /\ toPeer'[s] = q \o g /\ recorded'[s][t] = r
    BY <1>2, <1>3, <1>4, AnswersType DEF ShapeInv, WiresInv, RelaySends
  <1>6. c \in {0, 1} /\ next \in Nat /\ SubscribesOnce(s, t)
    BY DEF RegisteredInv, ShapeInv, RelayOK
  <1>7. CASE f.class # "OBJECT"
    <2>1. g = <<>>
      BY <1>4, <1>7 DEF Answers, NoFrames
    <2>2. toPeer'[s] = q
      BY <1>5, <2>1, ConcatEmptySeq
    <2>3. recvFromPubByTrack' = recvFromPubByTrack
      BY <1>3, <1>7 DEF RelayHandles, RelayAnnounce, RelaySubscribe, RelayObject
    <2>4. CASE f.class = "SUBSCRIBE" /\ p = s
      <3>1. /\ subscriberSockets' = subscriberSockets \cup {s} /\ f = Control("SUBSCRIBE", f.track)
            /\ subscriberByTrack'[t][s] = IF t = f.track THEN c + 1 ELSE c
        BY <1>2, <1>3, <2>4, Registers
      <3>2. CASE t # f.track
        <4>1. s \in subscriberSockets \/ c = 0
          BY <1>2, <1>6, <2>4 DEF SubscribesOnce
        <4> QED BY <2>2, <2>3, <3>1, <3>2, <4>1, <1>5, SubscriberLineStays
      <3>3. CASE t = f.track
        <4>1. c = 0
          <5>1. 1 \in DOMAIN toRelay[s] /\ toRelay[s][1] = Control("SUBSCRIBE", t)
            <6>1. toRelay[s] \in Seq(Frames) /\ toRelay[s] # <<>>
              BY <1>2, <1>4, <2>4 DEF ShapeInv, WiresInv
            <6>2. 1 \in DOMAIN toRelay[s] /\ Head(toRelay[s]) = toRelay[s][1]
              BY <6>1
            <6> QED BY <6>2, <2>4, <3>1, <3>3
          <5> QED BY <5>1, <1>6 DEF SubscribesOnce
        <4>2. r = <<>> /\ ~(a < b) /\ Line(q, t, a, b)
          BY <1>1, <4>1 DEF Continues
        <4>3. Line(toPeer[s], t, a, b)'
          BY <2>2, <4>2 DEF Line
        <4>4. Continues(s, t, a, b)'
          BY <1>5, <4>2, <4>3 DEF Continues, Consecutive
        <4> QED BY <4>4 DEF SubscriberLine
      <3> QED BY <3>2, <3>3
    <2>5. CASE ~(f.class = "SUBSCRIBE" /\ p = s)
      <3>1. subscriberByTrack'[t][s] = c /\ (s \in subscriberSockets' => s \in subscriberSockets)
        BY <1>2, <1>3, <2>5, Registers
      <3> QED BY <2>2, <2>3, <3>1, <1>5, SubscriberLineStays
    <2> QED BY <2>4, <2>5
  <1>8. CASE f.class = "OBJECT"
    <2>1. UNCHANGED <<subscriberByTrack, subscriberSockets>>
          /\ recvFromPubByTrack' = [recvFromPubByTrack EXCEPT ![f.track] = @ + 1]
      BY <1>3, <1>8 DEF RelayHandles, RelayAnnounce, RelaySubscribe, RelayObject
    <2>2. recvFromPubByTrack \in [Tracks -> Nat] /\ f.track \in Tracks
      BY <1>2, FrameFields DEF ShapeInv, RelayOK
    <2>3. g = [i \in 1 .. Copies(f.track, s) |-> f]
      BY <1>4, <1>8 DEF Answers
    <2>4. Copies(t, s)' = Copies(t, s) /\ Copies(t, s) \in {0, 1}
      BY <2>1, <1>6 DEF Copies
    <2>5. CASE f.track # t
      <3>1. recvFromPubByTrack'[t] = next
        BY <2>1, <2>2, <2>5
      <3>2. \A i \in DOMAIN g : ~ObjectOf(g[i], t)
        BY <2>3, <2>5 DEF ObjectOf
      <3>3. Line(g, t, b, b) /\ Line(q, t, a, b)
        BY <1>1, <1>5, <3>2, LineNone DEF Continues
      <3> HIDE DEF q, g
      <3>4. Line(q \o g, t, a, b)
        BY <1>5, <3>3, LineConcat
      <3>5. Line(toPeer[s], t, a, b)'
        BY <1>5, <3>4 DEF Line
      <3>6. Continues(s, t, a, b)'
        BY <1>1, <1>5, <2>1, <2>4, <3>1, <3>5 DEF Continues, Consecutive
      <3> QED BY <3>6 DEF SubscriberLine
    <2>6. CASE f.track = t /\ Copies(t, s) = 0
      <3>1. g = <<>>
        BY <2>3, <2>6
      <3>2. toPeer'[s] = q
        BY <1>5, <3>1, ConcatEmptySeq
      <3>3. Line(toPeer[s], t, a, b)'
        BY <1>1, <3>2 DEF Continues, Line
      <3>4. Continues(s, t, a, b)'
        BY <1>1, <1>5, <2>1, <2>4, <2>6, <3>3 DEF Continues, Consecutive
      <3> QED BY <3>4 DEF SubscriberLine
    <2>7. CASE f.track = t /\ Copies(t, s) = 1
      <3>1. f = Object(t, next) /\ recvFromPubByTrack'[t] = next + 1
        BY <1>8, <2>1, <2>2, <2>7
      <3>2. c = 1
        BY <2>7, <1>6 DEF Copies
      <3>3. PICK x \in Nat : Line(q, t, x, next) /\ (r # <<>> => x = a)
        <4>1. CASE r # <<>> \/ a < b
          BY <1>1, <2>7, <4>1 DEF Continues
        <4>2. CASE r = <<>> /\ ~(a < b)
          <5>1. Line(q, t, a, b) /\ a = b
            BY <1>1, <4>2 DEF Continues, Line
          <5>2. Line(q, t, next, next)
            BY <5>1, <1>5, <1>6, LineMoves
          <5> QED BY <5>2, <4>2, <1>6
        <4> QED BY <4>1, <4>2
      <3>4. DOMAIN g = 1 .. 1 /\ Len(g) = 1 /\ \A i \in DOMAIN g : g[i] = Object(t, next + i - 1)
        <4>1. g = [i \in 1 .. 1 |-> f]
          BY <2>3, <2>7
        <4>2. \A i \in 1 .. 1 : next + i - 1 = next
          BY <1>6
        <4> QED BY <4>1, <4>2, <3>1
      <3> HIDE DEF q, g, next
      <3>5. Line(g, t, next, next + 1)
        BY <1>5, <1>6, <3>4, LineOfObjects
      <3>6. Line(q \o g, t, x, next + 1) /\ next + 1 \in Nat
        BY <1>5, <1>6, <3>3, <3>5, LineConcat
      <3> PICK m \in Nat : m = next + 1
        BY <3>6
      <3>7. Line(toPeer[s], t, x, m)'
        BY <1>5, <3>6 DEF Line
      <3>8. subscriberByTrack'[t][s] = 1
        BY <2>1, <3>2
      <3>9. Consecutive(r) /\ (r # <<>> => r[Len(r)] + 1 = x)
        BY <1>1, <3>3 DEF Continues
      <3>10. Continues(s, t, x, m)'
        <4>1. recorded'[s][t] = r /\ recvFromPubByTrack'[t] = m
          BY <1>5, <3>1 DEF next
        <4> HIDE DEF r, c, f
        <4>2. Consecutive(recorded[s][t])'
          BY <4>1, <3>9 DEF Consecutive
        <4> QED BY <4>1, <4>2, <3>7, <3>8, <3>9 DEF Continues
      <3> QED BY <3>10 DEF SubscriberLine
    <2> QED BY <2>4, <2>5, <2>6, <2>7
  <1> QED BY <1>7, <1>8

\* A subscriber records the next object.
LEMMA SubscriberLineTail ==
  ASSUME ShapeInv, proto = "tcp", NEW p \in Peers, PeerReceives(p),
         NEW s \in Subscribers, NEW t \in Tracks, SubscriberLine(s, t)
  PROVE  SubscriberLine(s, t)'
  <1> DEFINE q == toPeer[s]
             f == Head(q)
             r == recorded[s][t]
  <1>1. PICK a \in Nat, b \in Nat : Continues(s, t, a, b)
    BY DEF SubscriberLine
  <1>2. /\ toPeer' = [toPeer EXCEPT ![p] = Tail(@)] /\ PeerHandles(p, Head(toPeer[p]))
        /\ UNCHANGED <<subscriberByTrack, subscriberSockets, recvFromPubByTrack>>
        /\ toPeer \in [Peers -> Seq(Frames)] /\ recorded \in [Subscribers -> [Tracks -> Seq(Nat)]]
        /\ toPeer[p] # <<>>
    BY DEF PeerReceives, relay, ShapeInv, WiresInv, ClientsOK
  <1>3. s \in Peers /\ s # Publisher
    BY Roles
  <1>4. CASE p # s
    <2>1. toPeer'[s] = q
      BY <1>2, <1>3, <1>4
    <2>2. recorded'[s][t] = r
      BY <1>2, <1>4, Roles DEF PeerHandles, Start, RecordObject
    <2> QED BY <1>2, <2>1, <2>2, SubscriberLineStays
  <1>5. CASE p = s
    <2>1. q \in Seq(Frames) /\ q # <<>> /\ toPeer'[s] = Tail(q)
      BY <1>2, <1>3, <1>5
    <2>2. f \in Frames /\ f.class = "OBJECT" /\ f.track \in Tracks /\ f.objectId \in Nat
      <3>1. f = q[1] /\ 1 \in DOMAIN q /\ f \in Frames
        BY <2>1
      <3>2. Routed(Relay, s, f)
        BY <3>1, <1>3 DEF ShapeInv, WiresInv
      <3> QED BY <3>1, <3>2, <1>3, FrameFields, DirectAssumption DEF Routed
    <2>3. recorded' = [recorded EXCEPT ![s][f.track] = Append(@, f.objectId)]
      BY <1>2, <1>3, <1>5 DEF PeerHandles, RecordObject
    <2>4. Copies(t, s)' = Copies(t, s)
      BY <1>2 DEF Copies
    <2>5. Line(q, t, a, b) /\ Consecutive(r) /\ (r # <<>> => r[Len(r)] + 1 = a) /\ r \in Seq(Nat)
      BY <1>1, <1>2 DEF Continues
    <2>6. CASE f.track # t
      <3>1. recorded'[s][t] = r
        BY <1>2, <2>2, <2>3, <2>6
      <3>2. Line(Tail(q), t, a, b)
        BY <2>1, <2>5, <2>6, LineTail DEF ObjectOf
      <3>3. Line(toPeer[s], t, a, b)'
        BY <2>1, <3>2 DEF Line
      <3>4. Continues(s, t, a, b)'
        BY <1>1, <1>2, <2>4, <3>1, <3>3 DEF Continues, Consecutive
      <3> QED BY <3>4 DEF SubscriberLine
    <2>7. CASE f.track = t
      <3>1. f = Object(t, a) /\ a < b /\ Line(Tail(q), t, a + 1, b)
        BY <2>1, <2>2, <2>5, <2>7, LineTail DEF ObjectOf
      <3>2. f.objectId = a
        BY <3>1 DEF Object, Frame
      <3>3. recorded'[s][t] = Append(r, a)
        BY <1>2, <2>2, <2>3, <2>7, <3>2
      <3>4. Line(toPeer[s], t, a + 1, b)'
        BY <2>1, <3>1 DEF Line
      <3>5. subscriberByTrack[t][s] # 0 /\ (Copies(t, s) # 0 => b = recvFromPubByTrack[t])
        BY <1>1, <3>1 DEF Continues
      <3> HIDE DEF r, q, f
      <3> DEFINE z == Append(r, a)
      <3>6. /\ Len(z) = Len(r) + 1 /\ Len(r) \in Nat /\ z[Len(z)] = a
            /\ \A i \in 1 .. Len(r) : z[i] = r[i]
            /\ Len(r) = 0 => r = <<>>
        BY <2>5
      <3> HIDE DEF z
      <3>7. Consecutive(z)
        <4>1. CASE r = <<>>
          <5>1. Len(z) = 1
            BY <3>6, <4>1
          <5>3. z[Len(z)] = a
            BY <3>6
          <5>4. z[1] = a
            BY ONLY <5>1, <5>3
          <5>2. z[1] = a /\ \A i \in 1 .. 1 : i = 1
            BY ONLY <5>4
          <5> QED BY <5>1, <5>2 DEF Consecutive
        <4>2. CASE r # <<>>
          <5>1. Len(r) \in 1 .. Len(r) /\ 1 \in 1 .. Len(r)
            BY <3>6, <4>2
          <5>2. \A i \in 1 .. Len(r) : r[i] = r[1] + i - 1 /\ r[i] \in Nat
            BY <2>5 DEF Consecutive
          <5>3. a = r[1] + Len(r) /\ z[1] = r[1]
            <6>1. r[Len(r)] = r[1] + Len(r) - 1 /\ r[1] \in Nat /\ z[1] = r[1]
              BY <5>1, <5>2, <3>6
            <6>2. r[Len(r)] + 1 = a
              BY <2>5, <4>2
            <6> QED BY <6>1, <6>2, <3>6
          <5>4. ASSUME NEW i \in 1 .. Len(z)  PROVE z[i] = z[1] + i - 1
            <6>1. CASE i = Len(z)
              BY <3>6, <5>1, <5>2, <5>3, <6>1
            <6>2. CASE i # Len(z)
              <7>1. i \in 1 .. Len(r)
                BY <3>6, <6>2
              <7> QED BY <7>1, <3>6, <5>2, <5>3
            <6> QED BY <6>1, <6>2
          <5> QED BY <5>4 DEF Consecutive
        <4> QED BY <4>1, <4>2
      <3>8. recorded'[s][t] = z /\ z[Len(z)] + 1 = a + 1
        BY <3>3, <3>6 DEF z
      <3>9. Continues(s, t, a + 1, b)'
        BY <1>2, <2>4, <3>4, <3>5, <3>7, <3>8 DEF Continues, Consecutive
      <3> QED BY <3>9 DEF SubscriberLine
    <2> QED BY <2>6, <2>7
  <1> QED BY <1>4, <1>5

\* Every step keeps the runs.
LEMMA StreamsNext == ShapeInv /\ RegisteredInv /\ StreamsInv /\ [Next]_vars => StreamsInv'
  <1> SUFFICES ASSUME ShapeInv, RegisteredInv, StreamsInv, [Next]_vars, proto' = "tcp"
               PROVE  PublisherLine' /\ \A s \in Subscribers, t \in Tracks : SubscriberLine(s, t)'
    BY DEF StreamsInv, PublisherLine, SubscriberLine
  <1>P. proto = "tcp"
    BY DEF Next, vars, Connect, RelayReceives, PeerReceives, Leave, SocketClosed, Announce, SendGroup,
           Subscribe, DatagramArrives, Lose, Duplicate
  <1>0. PublisherLine /\ \A s \in Subscribers, t \in Tracks : SubscriberLine(s, t)
    BY <1>P DEF StreamsInv
  <1>R. Publisher \in Peers /\ Subscribers \subseteq Peers /\ Publisher \notin Subscribers
    BY Roles
  <1>N. DOMAIN net = {}
    BY <1>P DEF ShapeInv, WiresInv
  <1>T. toRelay \in [Peers -> Seq(Frames)]
    BY DEF ShapeInv, WiresInv
  <1>S. ASSUME UNCHANGED <<toPeer, recorded, subscriberByTrack, recvFromPubByTrack>>,
               subscriberSockets' \subseteq subscriberSockets
        PROVE  \A s \in Subscribers, t \in Tracks : SubscriberLine(s, t)'
    <2> TAKE s \in Subscribers, t \in Tracks
    <2> QED BY <1>0, <1>S, SubscriberLineStays
  <1>1. ASSUME NEW p \in Peers, Connect(p) \/ Leave(p)
        PROVE  PublisherLine' /\ \A s \in Subscribers, t \in Tracks : SubscriberLine(s, t)'
    <2>1. /\ UNCHANGED <<toPeer, recorded, subscriberByTrack, recvFromPubByTrack, subscriberSockets>>
          /\ UNCHANGED <<toRelay, nextObjectId>> /\ gone \subseteq gone'
      BY <1>1 DEF Connect, Leave, streams, relay
    <2> QED BY <2>1, <1>0, <1>S, PublisherLineStays
  <1>2. ASSUME NEW p \in Peers, RelayReceives(p)
        PROVE  PublisherLine' /\ \A s \in Subscribers, t \in Tracks : SubscriberLine(s, t)'
    <2> DEFINE f == Head(toRelay[p])
    <2>1. /\ PublisherLine'
          /\ f.class = "OBJECT" => f = Object(f.track, recvFromPubByTrack[f.track])
      <3>1. CASE p = Publisher
        BY <1>0, <1>2, <1>P, <3>1, PublisherLineTail
      <3>2. CASE p # Publisher
        <4> DEFINE x == toRelay[p]
        <4>1. /\ x \in Seq(Frames) /\ x # <<>> /\ \A i \in DOMAIN x : Routed(p, Relay, x[i])
              /\ toRelay' = [toRelay EXCEPT ![p] = Tail(@)] /\ RelayHandles(p, f, net)
              /\ UNCHANGED <<gone, nextObjectId>>
          BY <1>2 DEF RelayReceives, ShapeInv, WiresInv, clients
        <4>2. f = x[1] /\ 1 \in DOMAIN x
          BY <4>1
        <4>3. f.class = "SUBSCRIBE"
          BY <4>1, <4>2, <3>2, <1>R, DirectAssumption DEF Routed
        <4>4. recvFromPubByTrack' = recvFromPubByTrack
          BY <4>1, <4>3 DEF RelayHandles, RelayAnnounce, RelaySubscribe, RelayObject
        <4>5. toRelay'[Publisher] = toRelay[Publisher]
          BY <4>1, <3>2, <1>T, <1>R
        <4> QED BY <4>1, <4>3, <4>4, <4>5, <1>0, PublisherLineStays
      <3> QED BY <3>1, <3>2
    <2>2. ASSUME NEW s \in Subscribers, NEW t \in Tracks  PROVE SubscriberLine(s, t)'
      BY <1>0, <1>2, <1>P, <2>1, SubscriberLineGrows
    <2> QED BY <2>1, <2>2
  <1>3. ASSUME NEW p \in Peers, PeerReceives(p)
        PROVE  PublisherLine' /\ \A s \in Subscribers, t \in Tracks : SubscriberLine(s, t)'
    <2>1. UNCHANGED <<gone, toRelay, recvFromPubByTrack, nextObjectId>>
      BY <1>3 DEF PeerReceives, relay
    <2>2. ASSUME NEW s \in Subscribers, NEW t \in Tracks  PROVE SubscriberLine(s, t)'
      BY <1>0, <1>3, <1>P, SubscriberLineTail
    <2> QED BY <2>1, <2>2, <1>0, PublisherLineStays
  <1>4. ASSUME NEW p \in Peers, SocketClosed(p)
        PROVE  PublisherLine' /\ \A s \in Subscribers, t \in Tracks : SubscriberLine(s, t)'
    <2>1. /\ UNCHANGED <<toPeer, recorded, subscriberByTrack, recvFromPubByTrack, gone, nextObjectId>>
          /\ subscriberSockets' \subseteq subscriberSockets
          /\ toRelay' = [toRelay EXCEPT ![p] = <<>>] /\ p \in gone
      BY <1>4 DEF SocketClosed, clients
    <2>2. CASE p = Publisher
      <3>1. toRelay'[Publisher] = <<>> /\ Publisher \in gone'
        BY <2>1, <2>2, <1>T, <1>R
      <3> QED BY <3>1, <2>1, <1>S DEF PublisherLine
    <2>3. CASE p # Publisher
      <3>1. toRelay'[Publisher] = toRelay[Publisher]
        BY <2>1, <2>3, <1>T, <1>R
      <3> QED BY <3>1, <2>1, <1>0, <1>S, PublisherLineStays
    <2> QED BY <2>2, <2>3
  <1>5. ASSUME NEW t \in Tracks, Announce(t)
        PROVE  PublisherLine' /\ \A s \in Subscribers, u \in Tracks : SubscriberLine(s, u)'
    <2> DEFINE g == <<Control("ANNOUNCE", t)>>
    <2>1. /\ UNCHANGED <<toPeer, recorded, subscriberByTrack, recvFromPubByTrack, subscriberSockets>>
          /\ UNCHANGED <<gone, nextObjectId>> /\ Publisher \notin gone
          /\ PeerSends(Publisher, g)
      BY <1>5 DEF Announce, relay
    <2>2. g \in Seq(Frames) /\ \A u \in Tracks : \A i \in DOMAIN g : ~ObjectOf(g[i], u)
      <3>1. g \in Seq(Frames) /\ Control("ANNOUNCE", t).class = "ANNOUNCE"
        BY ControlFrames DEF Control, Frame
      <3>2. \A i \in DOMAIN g : g[i] = Control("ANNOUNCE", t)
        OBVIOUS
      <3> HIDE DEF g
      <3> QED BY <3>1, <3>2 DEF ObjectOf
    <2>3. \A u \in Tracks : nextObjectId'[u] \in Nat /\ nextObjectId'[u] = nextObjectId[u]
      BY <2>1 DEF ShapeInv, ClientsOK
    <2> HIDE DEF g
    <2>4. \A u \in Tracks : Line(g, u, nextObjectId[u], nextObjectId'[u])
      BY <2>2, <2>3, LineNone
    <2>5. PublisherLine'
      BY <2>1, <2>2, <2>3, <2>4, <1>0, <1>P, PublisherLineGrows
    <2> QED BY <2>1, <2>5, <1>S
  <1>6. ASSUME NEW t \in Tracks, SendGroup(t)
        PROVE  PublisherLine' /\ \A s \in Subscribers, u \in Tracks : SubscriberLine(s, u)'
    <2> DEFINE g == [i \in 1 .. ObjectsPerGroup[t] |-> Object(t, nextObjectId[t] + i - 1)]
    <2>1. /\ UNCHANGED <<toPeer, recorded, subscriberByTrack, recvFromPubByTrack, subscriberSockets>>
          /\ UNCHANGED gone /\ Publisher \notin gone /\ PeerSends(Publisher, g)
          /\ nextObjectId' = [nextObjectId EXCEPT ![t] = @ + ObjectsPerGroup[t]]
      BY <1>6 DEF SendGroup, relay
    <2>2. /\ g \in Seq(Frames) /\ Len(g) = ObjectsPerGroup[t] /\ ObjectsPerGroup[t] \in Nat \ {0}
          /\ \A i \in DOMAIN g : g[i] = Object(t, nextObjectId[t] + i - 1)
      BY GroupFrames DEF ShapeInv
    <2>3. nextObjectId \in [Tracks -> Nat]
      BY DEF ShapeInv, ClientsOK
    <2> HIDE DEF g
    <2>4. ASSUME NEW u \in Tracks
          PROVE  nextObjectId'[u] \in Nat /\ Line(g, u, nextObjectId[u], nextObjectId'[u])
      <3>1. CASE u = t
        <4>1. nextObjectId'[u] = nextObjectId[t] + Len(g)
          BY <2>1, <2>2, <2>3, <3>1
        <4>2. Line(g, t, nextObjectId[t], nextObjectId[t] + Len(g))
          BY <2>2, <2>3, LineOfObjects
        <4> QED BY <4>1, <4>2, <3>1, <2>2, <2>3
      <3>2. CASE u # t
        <4>1. nextObjectId'[u] = nextObjectId[u] /\ nextObjectId[u] \in Nat
          BY <2>1, <2>3, <3>2
        <4>2. \A i \in DOMAIN g : ~ObjectOf(g[i], u)
          BY <2>2, <3>2 DEF ObjectOf, Object, Frame
        <4> QED BY <4>1, <4>2, <2>2, LineNone
      <3> QED BY <3>1, <3>2
    <2>5. PublisherLine'
      BY <2>1, <2>2, <2>4, <1>0, <1>P, PublisherLineGrows
    <2> QED BY <2>1, <2>5, <1>S
  <1>7. ASSUME NEW t \in Tracks, NEW r \in Subscribers, Subscribe(r, t)
        PROVE  PublisherLine' /\ \A s \in Subscribers, u \in Tracks : SubscriberLine(s, u)'
    <2>1. /\ UNCHANGED <<toPeer, recorded, subscriberByTrack, recvFromPubByTrack, subscriberSockets>>
          /\ UNCHANGED <<gone, nextObjectId>> /\ PeerSends(r, <<Control("SUBSCRIBE", t)>>)
      BY <1>7 DEF Subscribe, relay
    <2>2. toRelay'[Publisher] = toRelay[Publisher]
      BY <2>1, <1>P, <1>R, <1>T DEF PeerSends
    <2> QED BY <2>1, <2>2, <1>0, <1>S, PublisherLineStays
  <1>8. CASE UNCHANGED vars
    <2>1. /\ UNCHANGED <<toPeer, recorded, subscriberByTrack, recvFromPubByTrack, subscriberSockets>>
          /\ UNCHANGED <<toRelay, nextObjectId, gone>>
      BY <1>8 DEF vars, streams, clients, relay
    <2> QED BY <2>1, <1>0, <1>S, PublisherLineStays
  <1> QED BY <1>1, <1>2, <1>3, <1>4, <1>5, <1>6, <1>7, <1>8, <1>N DEF Next, BagToSet

\* Over TCP the runs hold always.
LEMMA StreamsInvariant == Spec => []StreamsInv
  BY StreamsInit, StreamsNext, ShapeInvariant, RegisteredInvariant, PTL DEF Spec

-----------------------------------------------------------------------------
(* Over UDP: what has happened to the datagrams of a frame.                *)

\* The range of a sequence after Append.
LEMMA RangeOfAppend ==
  ASSUME NEW S, NEW q \in Seq(S), NEW d
  PROVE  Range(Append(q, d)) = Range(q) \cup {d}
  <1>1. DOMAIN Append(q, d) = DOMAIN q \cup {Len(q) + 1} /\ Len(q) + 1 \notin DOMAIN q
    OBVIOUS
  <1>2. \A i \in DOMAIN q : Append(q, d)[i] = q[i]
    OBVIOUS
  <1>3. Append(q, d)[Len(q) + 1] = d
    OBVIOUS
  <1> QED BY <1>1, <1>2, <1>3 DEF Range

\* A step sends the datagrams of New, and what it delivers or records is whole.
LEMMA CausesStep ==
  ASSUME CausesInv, proto = "udp", NEW New \in SUBSET Datagrams,
         \A d \in Datagrams : Sent(d)' <=> Sent(d) \/ d \in New,
         delivered \subseteq delivered',
         nextObjectId \in [Tracks -> Nat], nextObjectId' \in [Tracks -> Nat],
         \A t \in Tracks : nextObjectId[t] <= nextObjectId'[t],
         \A d \in New : Travels(d) /\ \A i \in 0 .. FragmentCount(d.frame) - 1 :
                                        Datagram(d.from, d.to, d.frame, i) \in New,
         \A d \in New : d.frame.class = "OBJECT" =>
           /\ d.from = Relay => Whole(Publisher, Relay, d.frame)'
           /\ d.from = Publisher => d.frame.objectId < nextObjectId'[d.frame.track],
         \A s \in Subscribers, t \in Tracks : RecordedWhole(s, t)'
  PROVE  CausesInv'
  <1>1. ASSUME NEW from, NEW to, NEW f, Whole(from, to, f)  PROVE Whole(from, to, f)'
    BY <1>1 DEF Whole
  <1>2. ASSUME NEW d \in Datagrams, Sent(d)'  PROVE Caused(d)'
    <2>0. /\ d.from \in Places /\ d.to \in Places /\ d.frame \in Frames
          /\ \A i \in Nat : Datagram(d.from, d.to, d.frame, i) \in Datagrams
      BY DatagramType
    <2>1. FragmentCount(d.frame) \in Nat
      BY <2>0, FragmentCountType
    <2>2. CASE Sent(d)
      <3>1. Caused(d)
        BY <2>2 DEF CausesInv
      <3>2. \A i \in 0 .. FragmentCount(d.frame) - 1 : Sent(Datagram(d.from, d.to, d.frame, i))'
        BY <2>0, <2>1, <3>1 DEF Caused
      <3>3. d.frame.class = "OBJECT" /\ d.from = Relay => Whole(Publisher, Relay, d.frame)'
        BY <3>1, <1>1 DEF Caused
      <3>4. d.frame.class = "OBJECT" /\ d.from = Publisher =>
              d.frame.objectId < nextObjectId'[d.frame.track]
        <4>1. SUFFICES ASSUME d.frame.class = "OBJECT", d.from = Publisher
                       PROVE  d.frame.objectId < nextObjectId'[d.frame.track]
          OBVIOUS
        <4>2. d.frame.track \in Tracks /\ d.frame.objectId \in Nat
          BY <2>0, <4>1, FrameFields
        <4>3. d.frame.objectId < nextObjectId[d.frame.track]
          BY <3>1, <4>1 DEF Caused
        <4> QED BY <4>2, <4>3
      <3>5. Travels(d)
        BY <3>1 DEF Caused
      <3> QED BY <3>2, <3>3, <3>4, <3>5 DEF Caused, Travels
    <2>3. CASE d \in New
      <3>1. \A i \in 0 .. FragmentCount(d.frame) - 1 : Sent(Datagram(d.from, d.to, d.frame, i))'
        BY <2>0, <2>1, <2>3
      <3> QED BY <3>1, <2>3 DEF Caused, Travels
    <2> QED BY <1>2, <2>2, <2>3
  <1> QED BY <1>2 DEF CausesInv

\* What has come stays whole.
LEMMA RecordedWholeStays ==
  ASSUME CausesInv, proto = "udp", delivered \subseteq delivered', recorded' = recorded
  PROVE  \A s \in Subscribers, t \in Tracks : RecordedWhole(s, t)'
  <1>1. \A s \in Subscribers, t \in Tracks : RecordedWhole(s, t)
    BY DEF CausesInv
  <1> QED BY <1>1 DEF RecordedWhole, Whole

\* A peer sends.
LEMMA CausesSend ==
  ASSUME ShapeInv, ShapeInv', CausesInv, proto = "udp", NEW p \in Peers, NEW fs \in Seq(Frames),
         PeerSends(p, fs), \A i \in DOMAIN fs : Routed(p, Relay, fs[i]),
         UNCHANGED <<delivered, lost, recorded>>,
         \A t \in Tracks : nextObjectId[t] <= nextObjectId'[t],
         \A i \in DOMAIN fs : fs[i].class = "OBJECT" =>
           fs[i].objectId < nextObjectId'[fs[i].track]
  PROVE  CausesInv'
  <1> DEFINE b == AllFragments(p, Relay, fs)
  <1>1. /\ IsABag(b) /\ DOMAIN b \subseteq Datagrams
        /\ \A d \in DOMAIN b : /\ d.from = p /\ d.to = Relay
                               /\ \E i \in DOMAIN fs : d.frame = fs[i]
                               /\ d.fragIndex \in 0 .. FragmentCount(d.frame) - 1
        /\ \A i \in DOMAIN fs : \A k \in 0 .. FragmentCount(fs[i]) - 1 :
             Datagram(p, Relay, fs[i], k) \in DOMAIN b
    BY FragmentsBag, Roles
  <1>2. net' = net (+) b /\ IsABag(net)
    BY DEF PeerSends, ShapeInv, WiresInv
  <1> HIDE DEF b
  <1>3. DOMAIN net' = DOMAIN net \cup DOMAIN b
    BY <1>1, <1>2, BagAdd
  <1>4. \A d \in Datagrams : Sent(d)' <=> Sent(d) \/ d \in DOMAIN b
    BY <1>3 DEF Sent
  <1>5. \A d \in DOMAIN b : Travels(d) /\ \A i \in 0 .. FragmentCount(d.frame) - 1 :
                                            Datagram(d.from, d.to, d.frame, i) \in DOMAIN b
    BY <1>1 DEF Travels
  <1>6. \A d \in DOMAIN b : d.frame.class = "OBJECT" =>
           /\ d.from = Relay => Whole(Publisher, Relay, d.frame)'
           /\ d.from = Publisher => d.frame.objectId < nextObjectId'[d.frame.track]
    BY <1>1, Roles
  <1>7. nextObjectId \in [Tracks -> Nat] /\ nextObjectId' \in [Tracks -> Nat]
    BY DEF ShapeInv, ClientsOK
  <1>8. \A s \in Subscribers, t \in Tracks : RecordedWhole(s, t)'
    BY RecordedWholeStays
  <1> DEFINE New == DOMAIN b
  <1>9. New \in SUBSET Datagrams /\ delivered \subseteq delivered'
    BY <1>1
  <1> HIDE DEF New
  <1> QED BY <1>4, <1>5, <1>6, <1>7, <1>8, <1>9, CausesStep DEF New

\* A datagram comes, or is lost.
LEMMA SentStays ==
  ASSUME ShapeInv, NEW d \in DOMAIN net, NEW B \in SUBSET Datagrams,
         DOMAIN net' = DOMAIN (net (-) SetToBag({d})) \cup B,
         \/ delivered' = delivered \cup {d} /\ lost' = lost
         \/ delivered' = delivered /\ lost' = Append(lost, d)
  PROVE  \A e \in Datagrams : Sent(e)' <=> Sent(e) \/ e \in B
  <1> DEFINE n == net (-) SetToBag({d})
  <1>1. DOMAIN n \subseteq DOMAIN net /\ DOMAIN net \subseteq DOMAIN n \cup {d}
    BY BagTake DEF ShapeInv, WiresInv
  <1>2. lost \in Seq(Datagrams)
    BY DEF ShapeInv, CollectedInv
  <1>3. Range(Append(lost, d)) = Range(lost) \cup {d}
    BY <1>2, RangeOfAppend
  <1> HIDE DEF n
  <1>4. DOMAIN net' = DOMAIN n \cup B
    BY DEF n
  <1> QED BY <1>1, <1>3, <1>4 DEF Sent

\* A frame is completed only when all its datagrams have come.
LEMMA ArrivalWhole ==
  ASSUME ShapeInv, NEW d \in DOMAIN net, DatagramArrives(d), Completes(d)
  PROVE  Whole(d.from, d.to, d.frame)'
  <1>1. d \in Datagrams /\ Travels(d) /\ CollectedInv /\ delivered' = delivered \cup {d}
    BY Arrival DEF ShapeInv, WiresInv
  <1> DEFINE r == Add(Collected(Key(d)), d.fragIndex)
             old == Collected(Key(d)).have
  <1>2. /\ r.have = old \cup {d.fragIndex}
        /\ r.receivedFrags = FragmentCount(d.frame) => r.have = 0 .. FragmentCount(d.frame) - 1
        /\ \A i \in old : Datagram(d.from, d.to, d.frame, i) \in delivered
    BY <1>1, FragmentAdds
  <1>3. r.receivedFrags = FragmentCount(d.frame)
    BY DEF Completes
  <1>4. d = Datagram(d.from, d.to, d.frame, d.fragIndex)
    BY <1>1, DatagramType
  <1> HIDE DEF r, old
  <1>5. \A i \in 0 .. FragmentCount(d.frame) - 1 : Datagram(d.from, d.to, d.frame, i) \in delivered'
    BY <1>1, <1>2, <1>3, <1>4
  <1> QED BY <1>5 DEF Whole

\* What a completed datagram makes the relay send, or a subscriber record.
LEMMA ArrivalSends ==
  ASSUME ShapeInv, NEW d \in DOMAIN net, DatagramArrives(d), Completes(d), d.to = Relay
  PROVE  LET b == RelayFragments(Answers(d.frame))
             n == net (-) SetToBag({d})
         IN  /\ net' = n (+) b /\ IsABag(n) /\ IsABag(b)
             /\ DOMAIN net' = DOMAIN n \cup DOMAIN b
             /\ DOMAIN b \in SUBSET Datagrams
             /\ \A e \in DOMAIN b : /\ e.from = Relay /\ Travels(e)
                                    /\ \A i \in 0 .. FragmentCount(e.frame) - 1 :
                                         Datagram(e.from, e.to, e.frame, i) \in DOMAIN b
                                    /\ e.frame.class = "OBJECT" => e.frame = d.frame
             /\ RelayHandles(d.from, d.frame, n) /\ UNCHANGED recorded
             /\ (\A p \in Peers : \A i, j \in DOMAIN Answers(d.frame)[p] :
                   Answers(d.frame)[p][i] = Answers(d.frame)[p][j] => i = j)
                  => \A e \in DOMAIN b : b[e] = 1
  <1> DEFINE n == net (-) SetToBag({d})
             frames == Answers(d.frame)
             b == RelayFragments(frames)
  <1>1. d \in Datagrams /\ Travels(d) /\ proto = "udp" /\ d.frame \in Frames
    BY DatagramType DEF ShapeInv, WiresInv
  <1>2. RelayHandles(d.from, d.frame, n) /\ UNCHANGED recorded
    BY Arrival
  <1>3. net' = n (+) b
    BY <1>1, <1>2, RelaySendsAnswers DEF RelaySends
  <1>4. IsABag(n)
    BY BagTake DEF ShapeInv, WiresInv
  <1>5. /\ frames \in [Peers -> Seq(Frames)]
        /\ \A p \in Peers : \A i \in DOMAIN frames[p] : Routed(Relay, p, frames[p][i])
        /\ \A p \in Peers : \A i \in DOMAIN frames[p] :
             frames[p][i].class = "OBJECT" => frames[p][i] = d.frame
    BY <1>1, AnswersType DEF ShapeInv
  <1> HIDE DEF frames
  <1>6. /\ IsABag(b) /\ DOMAIN b \subseteq Datagrams
        /\ \A e \in DOMAIN b : /\ e.from = Relay /\ e.to \in Peers
                               /\ \E i \in DOMAIN frames[e.to] : e.frame = frames[e.to][i]
                               /\ e.fragIndex \in 0 .. FragmentCount(e.frame) - 1
        /\ \A p \in Peers : \A i \in DOMAIN frames[p] :
             \A k \in 0 .. FragmentCount(frames[p][i]) - 1 :
               Datagram(Relay, p, frames[p][i], k) \in DOMAIN b
        /\ (\A p \in Peers : \A i, j \in DOMAIN frames[p] : frames[p][i] = frames[p][j] => i = j)
             => \A e \in DOMAIN b : b[e] = 1
    BY <1>5, RelayFragmentsBag
  <1> HIDE DEF b
  <1>7. ASSUME NEW e \in DOMAIN b
        PROVE  /\ e.from = Relay /\ Travels(e)
               /\ \A i \in 0 .. FragmentCount(e.frame) - 1 :
                    Datagram(e.from, e.to, e.frame, i) \in DOMAIN b
               /\ e.frame.class = "OBJECT" => e.frame = d.frame
    <2>1. PICK i \in DOMAIN frames[e.to] : e.frame = frames[e.to][i]
      BY <1>6
    <2>2. e.from = Relay /\ e.to \in Peers /\ e.fragIndex \in 0 .. FragmentCount(e.frame) - 1
      BY <1>6
    <2> QED BY <2>1, <2>2, <1>5, <1>6 DEF Travels
  <1> HIDE DEF n
  <1>8. DOMAIN net' = DOMAIN n \cup DOMAIN b
    BY <1>3, <1>4, <1>6, BagAdd
  <1>9. DOMAIN b \in SUBSET Datagrams
    BY <1>6
  <1> QED BY <1>2, <1>3, <1>4, <1>6, <1>7, <1>8, <1>9 DEF n, b, frames

\* Nothing is sent at first.
LEMMA CausesInit == Init => CausesInv
  <1> SUFFICES ASSUME Init  PROVE CausesInv
    OBVIOUS
  <1>1. \A d : ~Sent(d)
    BY DEF Init, Sent, EmptyBag, SetToBag, Range
  <1>2. \A s \in Subscribers, t \in Tracks : RecordedWhole(s, t)
    BY DEF Init, RecordedWhole
  <1> QED BY <1>1, <1>2 DEF CausesInv

\* What a subscriber records when the last fragment has come.
LEMMA ArrivalRecords ==
  ASSUME ShapeInv, NEW d \in DOMAIN net, DatagramArrives(d), Completes(d), d.to # Relay
  PROVE  /\ net' = net (-) SetToBag({d})
         /\ d.to = Publisher => UNCHANGED recorded
         /\ d.to # Publisher =>
              /\ d.to \in Subscribers /\ d.from = Relay /\ d.frame.class = "OBJECT"
              /\ d.frame.track \in Tracks /\ d.frame.objectId \in Nat
              /\ d.frame = Object(d.frame.track, d.frame.objectId)
              /\ \A s \in Subscribers, t \in Tracks :
                   recorded'[s][t] = IF s = d.to /\ t = d.frame.track
                                     THEN Append(recorded[s][t], d.frame.objectId)
                                     ELSE recorded[s][t]
  <1>1. d \in Datagrams /\ Travels(d) /\ d.frame \in Frames
    BY DatagramType DEF ShapeInv, WiresInv
  <1>2. PeerHandles(d.to, d.frame) /\ net' = net (-) SetToBag({d})
    BY Arrival
  <1>3. CASE d.to = Publisher
    BY <1>2, <1>3 DEF PeerHandles, Start
  <1>4. CASE d.to # Publisher
    <2>1. d.to \in Subscribers /\ d.from = Relay /\ d.frame.class = "OBJECT"
      BY <1>1, <1>4, DirectAssumption DEF Travels, Routed
    <2>2. /\ d.frame.track \in Tracks /\ d.frame.objectId \in Nat
          /\ d.frame = Object(d.frame.track, d.frame.objectId)
      BY <1>1, <2>1, FrameFields
    <2>3. recorded' = [recorded EXCEPT ![d.to][d.frame.track] = Append(@, d.frame.objectId)]
      BY <1>2, <1>4 DEF PeerHandles, RecordObject
    <2>4. recorded \in [Subscribers -> [Tracks -> Seq(Nat)]]
      BY DEF ShapeInv, ClientsOK
    <2> DEFINE p == d.to
               u == d.frame.track
               id == d.frame.objectId
    <2> HIDE DEF p, u, id
    <2>5. p \in Subscribers /\ u \in Tracks /\ recorded' = [recorded EXCEPT ![p][u] = Append(@, id)]
      BY <2>1, <2>2, <2>3 DEF p, u, id
    <2>6. \A s \in Subscribers, t \in Tracks :
            recorded'[s][t] = IF s = p /\ t = u THEN Append(recorded[s][t], id) ELSE recorded[s][t]
      BY <2>4, <2>5
    <2> QED BY <1>2, <1>4, <2>1, <2>2, <2>6 DEF p, u, id
  <1> QED BY <1>2, <1>3, <1>4

\* An arrival keeps CausesInv.
LEMMA CausesArrives ==
  ASSUME ShapeInv, ShapeInv', CausesInv, proto = "udp", NEW d \in DOMAIN net, DatagramArrives(d)
  PROVE  CausesInv'
  <1>1. /\ d \in Datagrams /\ Travels(d) /\ delivered' = delivered \cup {d} /\ lost' = lost
        /\ nextObjectId' = nextObjectId
    BY Arrival DEF ShapeInv, WiresInv, faults
  <1>2. /\ nextObjectId \in [Tracks -> Nat] /\ nextObjectId' \in [Tracks -> Nat]
        /\ \A t \in Tracks : nextObjectId[t] <= nextObjectId'[t]
        /\ delivered \subseteq delivered'
    BY <1>1 DEF ShapeInv, ClientsOK
  <1> DEFINE n == net (-) SetToBag({d})
  <1>N. ASSUME net' = n, \A s \in Subscribers, t \in Tracks : RecordedWhole(s, t)'
        PROVE  CausesInv'
    <2> DEFINE B == {}
    <2>1. DOMAIN net' = DOMAIN n \cup B /\ B \in SUBSET Datagrams
      BY <1>N
    <2> HIDE DEF B
    <2>2. \A e \in Datagrams : Sent(e)' <=> Sent(e) \/ e \in B
      BY <1>1, <2>1, SentStays
    <2>3. \A e : e \notin B
      BY DEF B
    <2> QED BY <1>2, <1>N, <2>1, <2>2, <2>3, CausesStep
  <1>3. CASE Completes(d) /\ d.to = Relay
    <2> DEFINE b == RelayFragments(Answers(d.frame))
    <2>1. /\ DOMAIN net' = DOMAIN n \cup DOMAIN b
          /\ DOMAIN b \in SUBSET Datagrams
          /\ \A e \in DOMAIN b : /\ e.from = Relay /\ Travels(e)
                                 /\ \A i \in 0 .. FragmentCount(e.frame) - 1 :
                                      Datagram(e.from, e.to, e.frame, i) \in DOMAIN b
                                 /\ e.frame.class = "OBJECT" => e.frame = d.frame
          /\ UNCHANGED recorded
      BY <1>3, ArrivalSends
    <2>2. Whole(d.from, Relay, d.frame)'
      <3>1. Whole(d.from, d.to, d.frame)'
        BY <1>3, ArrivalWhole
      <3> QED BY <3>1, <1>3
    <2>3. d.frame.class = "OBJECT" => d.from = Publisher
      BY <1>1, <1>3, DirectAssumption DEF Travels, Routed
    <2> DEFINE B == DOMAIN b
    <2> HIDE DEF b, n
    <2>4. \A e \in B : e.frame.class = "OBJECT" =>
            /\ e.from = Relay => Whole(Publisher, Relay, e.frame)'
            /\ e.from = Publisher => e.frame.objectId < nextObjectId'[e.frame.track]
      <3> SUFFICES ASSUME NEW e \in B, e.frame.class = "OBJECT"
                   PROVE  e.from = Relay /\ Whole(Publisher, Relay, e.frame)' /\ e.from # Publisher
        OBVIOUS
      <3>1. e.from = Relay /\ e.frame = d.frame /\ d.from = Publisher
        BY <2>1, <2>3
      <3> QED BY <2>2, <3>1, DirectAssumption
    <2>5. \A s \in Subscribers, t \in Tracks : RecordedWhole(s, t)'
      BY <1>2, <2>1, RecordedWholeStays
    <2>6. B \in SUBSET Datagrams /\ \A e \in Datagrams : Sent(e)' <=> Sent(e) \/ e \in B
      BY <1>1, <2>1, SentStays DEF n
    <2>7. \A e \in B : Travels(e) /\ \A i \in 0 .. FragmentCount(e.frame) - 1 :
                                        Datagram(e.from, e.to, e.frame, i) \in B
      BY <2>1
    <2> HIDE DEF B
    <2> QED BY <1>2, <2>4, <2>5, <2>6, <2>7, CausesStep
  <1>4. CASE Completes(d) /\ d.to # Relay
    <2>1. /\ net' = n
          /\ d.to = Publisher => UNCHANGED recorded
          /\ d.to # Publisher =>
               /\ d.from = Relay
               /\ d.frame = Object(d.frame.track, d.frame.objectId)
               /\ \A s \in Subscribers, t \in Tracks :
                    recorded'[s][t] = IF s = d.to /\ t = d.frame.track
                                      THEN Append(recorded[s][t], d.frame.objectId)
                                      ELSE recorded[s][t]
      BY <1>4, ArrivalRecords
    <2>2. CASE d.to = Publisher
      BY <1>2, <2>1, <2>2, <1>N, RecordedWholeStays
    <2>3. CASE d.to # Publisher
      <3> DEFINE u == d.frame.track
                 id == d.frame.objectId
      <3>1. Whole(Relay, d.to, Object(u, id))'
        <4>1. Whole(d.from, d.to, d.frame)' /\ d.from = Relay /\ d.frame = Object(u, id)
          BY <1>4, <2>1, <2>3, ArrivalWhole
        <4> QED BY <4>1
      <3> HIDE DEF u, id
      <3>2. ASSUME NEW s \in Subscribers, NEW t \in Tracks  PROVE RecordedWhole(s, t)'
        <4>1. PICK r \in Seq(Nat) : r = recorded[s][t]
          BY DEF ShapeInv, ClientsOK
        <4>2. PICK z : z = recorded'[s][t]
          OBVIOUS
        <4>3. \A i \in DOMAIN r : Whole(Relay, s, Object(t, r[i]))
          BY <4>1 DEF CausesInv, RecordedWhole
        <4>4. \A i \in DOMAIN r : Whole(Relay, s, Object(t, r[i]))'
          BY <4>3, <1>2 DEF Whole
        <4>5. CASE s = d.to /\ t = u
          <5>1. z = Append(r, id)
            BY <2>1, <2>3, <4>1, <4>2, <4>5 DEF u, id
          <5>2. \A i \in DOMAIN z : (i \in DOMAIN r /\ z[i] = r[i]) \/ z[i] = id
            BY <5>1
          <5>3. PICK m : m = id /\ Whole(Relay, d.to, Object(u, m))'
            BY <3>1
          <5>4. PICK w : w = u /\ Whole(Relay, d.to, Object(w, m))'
            BY <5>3
          <5>5. \A i \in DOMAIN z : Whole(Relay, s, Object(t, z[i]))'
            BY <4>4, <4>5, <5>2, <5>3, <5>4
          <5> QED BY <4>2, <5>5 DEF RecordedWhole
        <4>6. CASE ~(s = d.to /\ t = u)
          <5>1. z = r
            BY <2>1, <2>3, <4>1, <4>2, <4>6 DEF u, id
          <5> QED BY <4>2, <4>4, <5>1 DEF RecordedWhole
        <4> QED BY <4>5, <4>6
      <3> QED BY <2>1, <3>2, <1>N
    <2> QED BY <2>2, <2>3
  <1>5. CASE ~Completes(d)
    <2>1. net' = n /\ UNCHANGED recorded
      BY <1>5, Arrival
    <2> QED BY <1>2, <2>1, <1>N, RecordedWholeStays
  <1> QED BY <1>3, <1>4, <1>5

\* Every step keeps the causes.
LEMMA CausesNext == ShapeInv /\ ShapeInv' /\ CausesInv /\ [Next]_vars => CausesInv'
  <1> SUFFICES ASSUME ShapeInv, ShapeInv', CausesInv, [Next]_vars, proto' = "udp"
               PROVE  CausesInv'
    BY DEF CausesInv
  <1>P. proto = "udp"
    BY DEF Next, vars, Connect, RelayReceives, PeerReceives, Leave, SocketClosed, Announce, SendGroup,
           Subscribe, DatagramArrives, Lose, Duplicate
  <1>E. /\ \A p \in Peers : toRelay[p] = <<>> /\ toPeer[p] = <<>>
        /\ nextObjectId \in [Tracks -> Nat]
    BY <1>P DEF ShapeInv, WiresInv, ClientsOK
  <1>R. Publisher \in Peers /\ Subscribers \subseteq Peers /\ Publisher \notin Subscribers
    BY Roles
  <1>S. ASSUME \A e \in Datagrams : Sent(e)' <=> Sent(e), UNCHANGED <<delivered, nextObjectId, recorded>>
        PROVE  CausesInv'
    <2> DEFINE B == {}
    <2>1. B \in SUBSET Datagrams /\ \A e : e \notin B
      OBVIOUS
    <2> HIDE DEF B
    <2>2. \A e \in Datagrams : Sent(e)' <=> Sent(e) \/ e \in B
      BY <1>S, <2>1
    <2>3. \A t \in Tracks : nextObjectId[t] <= nextObjectId'[t]
      BY <1>S, <1>E
    <2>4. \A s \in Subscribers, t \in Tracks : RecordedWhole(s, t)'
      BY <1>P, <1>S, RecordedWholeStays
    <2> QED BY <1>P, <1>E, <1>S, <2>1, <2>2, <2>3, <2>4, CausesStep
  <1>1. ASSUME UNCHANGED <<net, delivered, lost, nextObjectId, recorded>>  PROVE CausesInv'
    BY <1>1, <1>S DEF Sent
  <1>2. ASSUME NEW p \in Peers, Connect(p) \/ RelayReceives(p) \/ PeerReceives(p) \/ Leave(p)
                                \/ SocketClosed(p)
        PROVE  CausesInv'
    <2>1. Connect(p) \/ Leave(p)
      BY <1>2, <1>P, <1>E DEF RelayReceives, PeerReceives, SocketClosed
    <2> QED BY <2>1, <1>1 DEF Connect, Leave, udp, faults
  <1>3. ASSUME NEW t \in Tracks, Announce(t)  PROVE CausesInv'
    <2> DEFINE fs == <<Control("ANNOUNCE", t)>>
    <2>1. fs \in Seq(Frames) /\ (\A i \in DOMAIN fs : Routed(Publisher, Relay, fs[i]))
          /\ \A i \in DOMAIN fs : fs[i].class # "OBJECT"
      BY ControlFrames, FrameTypes
    <2>2. PeerSends(Publisher, fs) /\ UNCHANGED <<delivered, lost, recorded, nextObjectId>>
      BY <1>3 DEF Announce, faults
    <2>3. \A u \in Tracks : nextObjectId[u] <= nextObjectId'[u]
      BY <1>E, <2>2
    <2> HIDE DEF fs
    <2> QED BY <1>P, <1>R, <2>1, <2>2, <2>3, CausesSend
  <1>4. ASSUME NEW t \in Tracks, NEW s \in Subscribers, Subscribe(s, t)  PROVE CausesInv'
    <2> DEFINE fs == <<Control("SUBSCRIBE", t)>>
    <2>1. fs \in Seq(Frames) /\ (\A i \in DOMAIN fs : Routed(s, Relay, fs[i]))
          /\ \A i \in DOMAIN fs : fs[i].class # "OBJECT"
      BY ControlFrames, FrameTypes
    <2>2. PeerSends(s, fs) /\ UNCHANGED <<delivered, lost, recorded, nextObjectId>>
      BY <1>4 DEF Subscribe, faults
    <2>3. \A u \in Tracks : nextObjectId[u] <= nextObjectId'[u]
      BY <1>E, <2>2
    <2> HIDE DEF fs
    <2> QED BY <1>P, <1>R, <2>1, <2>2, <2>3, CausesSend
  <1>5. ASSUME NEW t \in Tracks, SendGroup(t)  PROVE CausesInv'
    <2> DEFINE fs == [i \in 1 .. ObjectsPerGroup[t] |-> Object(t, nextObjectId[t] + i - 1)]
    <2>1. /\ fs \in Seq(Frames) /\ DOMAIN fs = 1 .. ObjectsPerGroup[t]
          /\ ObjectsPerGroup[t] \in Nat \ {0}
          /\ \A i \in DOMAIN fs : /\ fs[i] = Object(t, nextObjectId[t] + i - 1)
                                  /\ Routed(Publisher, Relay, fs[i])
      BY GroupFrames DEF ShapeInv
    <2>2. PeerSends(Publisher, fs) /\ UNCHANGED <<delivered, lost, recorded>>
          /\ nextObjectId' = [nextObjectId EXCEPT ![t] = @ + ObjectsPerGroup[t]]
      BY <1>5 DEF SendGroup, faults
    <2> HIDE DEF fs
    <2>3. \A u \in Tracks : nextObjectId[u] <= nextObjectId'[u]
      BY <1>E, <2>1, <2>2
    <2>4. \A i \in DOMAIN fs : fs[i].objectId < nextObjectId'[fs[i].track]
      <3> SUFFICES ASSUME NEW i \in DOMAIN fs  PROVE fs[i].objectId < nextObjectId'[fs[i].track]
        OBVIOUS
      <3>1. fs[i].objectId = nextObjectId[t] + i - 1 /\ fs[i].track = t
        <4>1. fs[i] = Object(t, nextObjectId[t] + i - 1)
          BY <2>1
        <4> QED BY <4>1 DEF Object, Frame
      <3>2. nextObjectId'[t] = nextObjectId[t] + ObjectsPerGroup[t] /\ nextObjectId[t] \in Nat
        BY <2>2, <1>E
      <3> QED BY <3>1, <3>2, <2>1
    <2> QED BY <1>P, <1>R, <2>1, <2>2, <2>3, <2>4, CausesSend
  <1>6. ASSUME NEW d \in DOMAIN net, DatagramArrives(d)  PROVE CausesInv'
    BY <1>P, <1>6, CausesArrives
  <1>7. ASSUME NEW d \in DOMAIN net, Lose(d)  PROVE CausesInv'
    <2>1. /\ net' = net (-) SetToBag({d}) /\ lost' = Append(lost, d)
          /\ UNCHANGED <<delivered, nextObjectId, recorded>>
      BY <1>7 DEF Lose, clients
    <2> DEFINE B == {}
    <2>2. DOMAIN net' = DOMAIN (net (-) SetToBag({d})) \cup B /\ B \in SUBSET Datagrams
      BY <2>1
    <2>3. \A e : e \notin B
      OBVIOUS
    <2> HIDE DEF B
    <2>4. \A e \in Datagrams : Sent(e)' <=> Sent(e) \/ e \in B
      BY <2>1, <2>2, SentStays
    <2> QED BY <2>1, <2>3, <2>4, <1>S
  <1>8. ASSUME NEW d \in DOMAIN net, Duplicate(d)  PROVE CausesInv'
    <2>1. net' = net (+) SetToBag({d}) /\ UNCHANGED <<delivered, lost, nextObjectId, recorded>>
      BY <1>8 DEF Duplicate, clients
    <2>2. DOMAIN net' = DOMAIN net
      BY <2>1, BagDouble DEF ShapeInv, WiresInv
    <2>3. \A e \in Datagrams : Sent(e)' <=> Sent(e)
      BY <2>1, <2>2 DEF Sent
    <2> QED BY <2>1, <2>3, <1>S
  <1>9. CASE UNCHANGED vars
    BY <1>9, <1>1 DEF vars, udp, faults, clients
  <1> QED BY <1>2, <1>3, <1>4, <1>5, <1>6, <1>7, <1>8, <1>9 DEF Next, BagToSet

\* Over UDP the causes hold always.
LEMMA CausesInvariant == Spec => []CausesInv
  BY CausesInit, CausesNext, ShapeInvariant, PTL DEF Spec

-----------------------------------------------------------------------------
(* Over UDP: nothing of an object happens twice unless it was duplicated.  *)

\* Nothing has happened at first.
LEMMA OnceInit == Init => OnceInv
  <1> SUFFICES ASSUME Init  PROVE OnceInv
    OBVIOUS
  <1>1. DOMAIN net = {} /\ delivered = {} /\ DOMAIN udpReasm = {}
    BY DEF Init, EmptyBag, SetToBag
  <1>2. \A s \in Subscribers, t \in Tracks : recorded[s][t] = <<>>
    BY DEF Init
  <1>3. \A s \in Subscribers, t \in Tracks : RecordedOnce(s, t)
    BY <1>2 DEF RecordedOnce
  <1> QED BY <1>1, <1>3 DEF OnceInv

\* What is under way after n, and what b sends.
LEMMA SentOnceStep ==
  ASSUME NEW n, NEW b, IsABag(n), IsABag(b), net' = n (+) b,
         \A d \in DOMAIN n : Pristine(d.frame)' =>
           n[d] = 1 /\ d \notin delivered' /\ d \notin Range(lost'),
         \A d \in DOMAIN b : Pristine(d.frame)' =>
           b[d] = 1 /\ d \notin DOMAIN n /\ d \notin delivered' /\ d \notin Range(lost')
  PROVE  \A d \in DOMAIN net' : Pristine(d.frame)' => SentOnce(d)'
  <1>1. /\ DOMAIN net' = DOMAIN n \cup DOMAIN b
        /\ \A e \in DOMAIN n \ DOMAIN b : net'[e] = n[e]
        /\ \A e \in DOMAIN b \ DOMAIN n : net'[e] = b[e]
    <2> DEFINE m == n (+) b
    <2>1. /\ DOMAIN m = DOMAIN n \cup DOMAIN b
          /\ \A e \in DOMAIN n \ DOMAIN b : m[e] = n[e]
          /\ \A e \in DOMAIN b \ DOMAIN n : m[e] = b[e]
      BY BagAdd
    <2>2. net' = m
      OBVIOUS
    <2> HIDE DEF m
    <2> QED BY <2>1, <2>2
  <1> SUFFICES ASSUME NEW d \in DOMAIN net', Pristine(d.frame)'  PROVE SentOnce(d)'
    OBVIOUS
  <1>2. CASE d \in DOMAIN b
    <2>1. b[d] = 1 /\ d \notin DOMAIN n /\ d \notin delivered' /\ d \notin Range(lost')
      BY <1>2
    <2>2. net'[d] = 1
      BY <1>1, <1>2, <2>1
    <2> QED BY <2>1, <2>2 DEF SentOnce, Range
  <1>3. CASE d \notin DOMAIN b
    <2>1. d \in DOMAIN n /\ net'[d] = n[d]
      BY <1>1, <1>3
    <2>2. n[d] = 1 /\ d \notin delivered' /\ d \notin Range(lost')
      BY <2>1
    <2> QED BY <2>1, <2>2 DEF SentOnce, Range
  <1> QED BY <1>2, <1>3

\* What a peer sends of an object is new.
LEMMA OnceSend ==
  ASSUME ShapeInv, CausesInv, OnceInv, proto = "udp", NEW p \in Peers, NEW fs \in Seq(Frames),
         PeerSends(p, fs), UNCHANGED <<delivered, lost, recorded, duplicated, udpReasm, proto>>,
         \A i \in DOMAIN fs : fs[i].class = "OBJECT" =>
           p = Publisher /\ fs[i].objectId \in Nat /\ fs[i].objectId >= nextObjectId[fs[i].track],
         \A i, j \in DOMAIN fs : fs[i] = fs[j] => i = j
  PROVE  OnceInv'
  <1> DEFINE b == AllFragments(p, Relay, fs)
  <1>1. /\ IsABag(b) /\ DOMAIN b \subseteq Datagrams
        /\ \A d \in DOMAIN b : /\ d.from = p /\ d.to = Relay
                               /\ \E i \in DOMAIN fs : d.frame = fs[i]
                               /\ d.fragIndex \in 0 .. FragmentCount(d.frame) - 1
        /\ \A d \in DOMAIN b : b[d] = 1
    BY FragmentsBag, Roles
  <1>2. net' = net (+) b /\ IsABag(net)
    BY DEF PeerSends, ShapeInv, WiresInv
  <1> HIDE DEF b
  <1>3. \A f : Pristine(f)' <=> Pristine(f)
    BY DEF Pristine, Duplicated
  <1>4. \A d \in DOMAIN b : Pristine(d.frame)' =>
           b[d] = 1 /\ d \notin DOMAIN net /\ d \notin delivered' /\ d \notin Range(lost')
    <2> SUFFICES ASSUME NEW d \in DOMAIN b, Pristine(d.frame)'  PROVE ~Sent(d)
      BY <1>1 DEF Sent
    <2>1. d.frame.class = "OBJECT"
      BY <1>3 DEF Pristine
    <2>2. d.from = Publisher /\ d.frame.objectId \in Nat
          /\ d.frame.objectId >= nextObjectId[d.frame.track]
      BY <1>1, <2>1
    <2>3. nextObjectId[d.frame.track] \in Nat
      BY <1>1, DatagramType, FrameFields DEF ShapeInv, ClientsOK
    <2>4. ASSUME Sent(d)  PROVE FALSE
      <3>1. d.frame.objectId < nextObjectId[d.frame.track]
        BY <1>1, <2>1, <2>2, <2>4 DEF CausesInv, Caused
      <3> QED BY <3>1, <2>2, <2>3
    <2> QED BY <2>4
  <1>5. \A d \in DOMAIN net : Pristine(d.frame)' =>
           net[d] = 1 /\ d \notin delivered' /\ d \notin Range(lost')
    BY <1>3 DEF OnceInv, SentOnce
  <1>6. \A d \in DOMAIN net' : Pristine(d.frame)' => SentOnce(d)'
    BY <1>1, <1>2, <1>4, <1>5, SentOnceStep
  <1>7. \A d \in delivered' : Pristine(d.frame)' => Kept(d)'
    BY <1>3 DEF OnceInv, Kept, Whole, Key
  <1>8. \A k \in DOMAIN udpReasm' : Pristine(k.frame)' => ~Whole(k.from, k.at, k.frame)'
    BY <1>3 DEF OnceInv, Whole
  <1>9. \A s \in Subscribers, t \in Tracks : RecordedOnce(s, t)'
    BY DEF OnceInv, RecordedOnce, Duplicated
  <1> QED BY <1>6, <1>7, <1>8, <1>9 DEF OnceInv

\* The relay answers each peer with one frame at most.
LEMMA AnswersOnce ==
  ASSUME ShapeInv, RegisteredInv, NEW f \in Frames, NEW p \in Peers
  PROVE  \A i, j \in DOMAIN Answers(f)[p] : i = j
  <1>0. f.track \in Tracks
    BY FrameFields
  <1>1. \A q \in Peers : NoFrames[q] = <<>>
    BY DEF NoFrames
  <1>2. CASE f.class = "OBJECT"
    <2>1. Answers(f)[p] = IF p = Publisher THEN <<>> ELSE [i \in 1 .. Copies(f.track, p) |-> f]
      BY <1>2 DEF Answers
    <2>2. CASE p = Publisher
      BY <2>1, <2>2
    <2>3. CASE p # Publisher
      <3>1. p \in Subscribers
        BY <2>3, Roles
      <3>2. Copies(f.track, p) \in {0, 1}
        BY <1>0, <3>1 DEF Copies, RegisteredInv
      <3>3. DOMAIN Answers(f)[p] = 1 .. Copies(f.track, p)
        BY <2>1, <2>3
      <3> QED BY <3>2, <3>3
    <2> QED BY <2>2, <2>3
  <1>3. CASE f.class = "SUBSCRIBE" /\ f.track \in publisherByTrackKey \cap publishedTracks
    <2>1. Answers(f) = [NoFrames EXCEPT ![Publisher] = <<Control("SUBSCRIBE_OK", f.track)>>]
      BY <1>3 DEF Answers
    <2>2. Answers(f)[p] = IF p = Publisher THEN <<Control("SUBSCRIBE_OK", f.track)>> ELSE <<>>
      BY <1>1, <2>1 DEF NoFrames
    <2> QED BY <2>2
  <1>4. CASE /\ f.class # "OBJECT"
             /\ ~(f.class = "SUBSCRIBE" /\ f.track \in publisherByTrackKey \cap publishedTracks)
    BY <1>1, <1>4 DEF Answers
  <1> QED BY <1>2, <1>3, <1>4

\* A frame that is being collected has several fragments: it is an object.
LEMMA CollectedObjects ==
  ASSUME CollectedInv, NEW k \in DOMAIN udpReasm
  PROVE  k.frame.class = "OBJECT" /\ k.frame \in Frames
  BY DEF CollectedInv, Keys, FragmentCount

\* After an arrival each datagram under way is still the only one of its kind.
LEMMA ArrivesOnce ==
  ASSUME ShapeInv, RegisteredInv, CausesInv, OnceInv, proto = "udp",
         NEW d \in DOMAIN net, DatagramArrives(d)
  PROVE  /\ \A e \in DOMAIN net' : Pristine(e.frame)' => SentOnce(e)'
         /\ \A f : Pristine(f)' <=> Pristine(f)
         /\ Pristine(d.frame) => d \notin delivered
  <1> DEFINE n == net (-) SetToBag({d})
  <1>1. /\ d \in Datagrams /\ Travels(d) /\ delivered' = delivered \cup {d} /\ lost' = lost
        /\ duplicated' = duplicated
    BY Arrival DEF ShapeInv, WiresInv, faults
  <1>2. \A f : Pristine(f)' <=> Pristine(f)
    BY <1>1 DEF Pristine, Duplicated
  <1>3. \A e \in DOMAIN net : Pristine(e.frame) => net[e] = 1 /\ e \notin delivered /\ e \notin Range(lost)
    BY DEF OnceInv, SentOnce
  <1>4. /\ IsABag(n) /\ DOMAIN n \subseteq DOMAIN net
        /\ net[d] = 1 => d \notin DOMAIN n
        /\ \A e \in DOMAIN n : e # d => n[e] = net[e]
    BY BagTake DEF ShapeInv, WiresInv
  <1>5. \A e \in DOMAIN n : Pristine(e.frame)' =>
           n[e] = 1 /\ e \notin delivered' /\ e \notin Range(lost')
    <2> SUFFICES ASSUME NEW e \in DOMAIN n, Pristine(e.frame)'
                 PROVE  n[e] = 1 /\ e \notin delivered' /\ e \notin Range(lost')
      OBVIOUS
    <2> HIDE DEF n
    <2>1. e \in DOMAIN net /\ Pristine(e.frame)
      BY <1>2, <1>4
    <2>2. net[e] = 1 /\ e \notin delivered /\ e \notin Range(lost)
      BY <2>1, <1>3
    <2>3. e # d
      BY <2>2, <1>4
    <2> QED BY <2>2, <2>3, <1>1, <1>4
  <1>6. CASE Completes(d) /\ d.to = Relay
    <2> DEFINE b == RelayFragments(Answers(d.frame))
    <2>1. /\ net' = n (+) b /\ IsABag(b) /\ DOMAIN b \in SUBSET Datagrams
          /\ \A e \in DOMAIN b : e.from = Relay /\ (e.frame.class = "OBJECT" => e.frame = d.frame)
          /\ (\A p \in Peers : \A i, j \in DOMAIN Answers(d.frame)[p] :
                Answers(d.frame)[p][i] = Answers(d.frame)[p][j] => i = j)
               => \A e \in DOMAIN b : b[e] = 1
      BY <1>6, ArrivalSends
    <2>2. \A p \in Peers : \A i, j \in DOMAIN Answers(d.frame)[p] : i = j
      BY <1>1, DatagramType, AnswersOnce
    <2>3. \A e \in DOMAIN b : b[e] = 1
      BY <2>1, <2>2
    <2>4. \A e \in DOMAIN b : Pristine(e.frame)' =>
             b[e] = 1 /\ e \notin DOMAIN n /\ e \notin delivered' /\ e \notin Range(lost')
      <3> SUFFICES ASSUME NEW e \in DOMAIN b, Pristine(e.frame)'
                   PROVE  b[e] = 1 /\ e \notin DOMAIN n /\ e \notin delivered' /\ e \notin Range(lost')
        OBVIOUS
      <3> HIDE DEF b, n
      <3>1. e.frame = d.frame /\ e.from = Relay /\ Pristine(d.frame) /\ e.frame.class = "OBJECT"
            /\ e \in Datagrams
        BY <1>2, <2>1 DEF Pristine
      <3>2. d \notin delivered
        BY <3>1, <1>3
      <3>3. d.from = Publisher /\ d.fragIndex \in 0 .. FragmentCount(d.frame) - 1
        BY <1>1, <1>6, <3>1, DirectAssumption DEF Travels, Routed
      <3>4. ~Whole(Publisher, Relay, d.frame)
        <4>1. d = Datagram(Publisher, Relay, d.frame, d.fragIndex)
          BY <1>1, <1>6, <3>3, DatagramType
        <4> QED BY <3>2, <3>3, <4>1 DEF Whole
      <3>5. ~Sent(e)
        BY <3>1, <3>4 DEF CausesInv, Caused
      <3>6. e # d
        BY <3>1, <3>3, DirectAssumption
      <3> QED BY <1>1, <1>4, <2>3, <3>5, <3>6 DEF Sent
    <2> HIDE DEF b, n
    <2>5. \A e \in DOMAIN net' : Pristine(e.frame)' => SentOnce(e)'
      BY <1>4, <1>5, <2>1, <2>4, SentOnceStep
    <2> QED BY <1>2, <1>3, <2>5
  <1>7. CASE ~(Completes(d) /\ d.to = Relay)
    <2>1. net' = n
      BY <1>7, Arrival
    <2> HIDE DEF n
    <2>2. \A e \in DOMAIN net' : Pristine(e.frame)' => SentOnce(e)'
      BY <2>1, <1>5 DEF SentOnce, Range
    <2> QED BY <1>2, <1>3, <2>2
  <1> QED BY <1>6, <1>7

\* What is kept of the fragments that have come.
LEMMA ArrivesKept ==
  ASSUME ShapeInv, OnceInv, proto = "udp", NEW d \in DOMAIN net, DatagramArrives(d),
         \A f : Pristine(f)' <=> Pristine(f),
         Pristine(d.frame) => d \notin delivered
  PROVE  /\ \A e \in delivered' : Pristine(e.frame)' => Kept(e)'
         /\ \A k \in DOMAIN udpReasm' : Pristine(k.frame)' => ~Whole(k.from, k.at, k.frame)'
  <1> DEFINE key == Key(d)
             r == Add(Collected(key), d.fragIndex)
             old == Collected(key).have
             m == FragmentCount(d.frame)
  <1>1. /\ d \in Datagrams /\ Travels(d) /\ delivered' = delivered \cup {d} /\ CollectedInv
        /\ d.fragIndex \in 0 .. m - 1 /\ delivered \subseteq Datagrams
    BY Arrival DEF ShapeInv, WiresInv, Travels, CollectedInv
  <1>2. /\ r.have = old \cup {d.fragIndex}
        /\ r.have \subseteq 0 .. m - 1
        /\ r.have = 0 .. m - 1 => r.receivedFrags = m
        /\ key \in DOMAIN udpReasm => old = udpReasm[key].have
        /\ key \notin DOMAIN udpReasm => old = {}
    BY <1>1, FragmentAdds
  <1>3. key.at = d.to /\ key.from = d.from /\ key.frame = d.frame /\ key \in Keys
    BY <1>1, KeyType
  <1>4. d = Datagram(d.from, d.to, d.frame, d.fragIndex)
    BY <1>1, DatagramType
  <1>5. r.receivedFrags = m => Whole(d.from, d.to, d.frame)'
    BY ArrivalWhole DEF Completes
  <1>6. /\ r.receivedFrags = m => udpReasm' = [x \in DOMAIN udpReasm \ {key} |-> udpReasm[x]]
        /\ r.receivedFrags # m =>
             udpReasm' = [x \in DOMAIN udpReasm \cup {key} |-> IF x = key THEN r ELSE udpReasm[x]]
    BY Arrival DEF ArrivalReasm, Without, Restrict
  <1> HIDE DEF key, r, old, m
  <1>7. \A from, to, f : Whole(from, to, f) => Whole(from, to, f)'
    BY <1>1 DEF Whole
  <1>8. \A x \in DOMAIN udpReasm : x # key => x \in DOMAIN udpReasm' /\ udpReasm'[x] = udpReasm[x]
    BY <1>6
  <1>9. ASSUME NEW e \in delivered', Pristine(e.frame)'  PROVE Kept(e)'
    <2>0. Key(e)' = Key(e) /\ e \in Datagrams
      BY <1>1 DEF Key
    <2>1. CASE e = d
      <3>1. CASE r.receivedFrags = m
        BY <2>1, <3>1, <1>5 DEF Kept, Whole
      <3>2. CASE r.receivedFrags # m
        <4>1. key \in DOMAIN udpReasm' /\ udpReasm'[key] = r
          BY <3>2, <1>6
        <4>2. Key(e)' = key
          BY <2>1 DEF key, Key
        <4> QED BY <2>1, <4>1, <4>2, <1>2 DEF Kept
      <3> QED BY <3>1, <3>2
    <2>2. CASE e # d
      <3>1. e \in delivered /\ Pristine(e.frame)
        BY <2>2, <1>1, <1>9
      <3>2. Kept(e)
        BY <3>1 DEF OnceInv
      <3>3. CASE Whole(e.from, e.to, e.frame)
        BY <3>3, <1>7 DEF Kept
      <3>4. CASE Key(e) \in DOMAIN udpReasm /\ e.fragIndex \in udpReasm[Key(e)].have
        <4>1. CASE Key(e) # key
          BY <2>0, <3>4, <4>1, <1>8 DEF Kept
        <4>2. CASE Key(e) = key
          <5>1. e.from = d.from /\ e.to = d.to /\ e.frame = d.frame
            BY <4>2, <2>0, <1>3, KeyType
          <5>2. CASE r.receivedFrags = m
            <6>1. Whole(e.from, e.to, e.frame)'
              BY <5>1, <5>2, <1>5
            <6> QED BY <6>1 DEF Kept
          <5>3. CASE r.receivedFrags # m
            <6>1. key \in DOMAIN udpReasm' /\ udpReasm'[key] = r
              BY <5>3, <1>6
            <6>2. e.fragIndex \in r.have
              BY <3>4, <4>2, <1>2
            <6> QED BY <6>1, <6>2, <4>2, <2>0 DEF Kept
          <5> QED BY <5>2, <5>3
        <4> QED BY <4>1, <4>2
      <3> QED BY <3>2, <3>3, <3>4 DEF Kept
    <2> QED BY <2>1, <2>2
  <1>10. ASSUME NEW k \in DOMAIN udpReasm', Pristine(k.frame)', Whole(k.from, k.at, k.frame)'  PROVE FALSE
    <2>1. CASE k # key
      <3>1. k \in DOMAIN udpReasm /\ Pristine(k.frame) /\ k \in Keys
        <4>1. k \in DOMAIN udpReasm
          BY <2>1, <1>6
        <4> QED BY <4>1, <1>1, <1>10 DEF CollectedInv
      <3>2. ~Whole(k.from, k.at, k.frame)
        BY <3>1 DEF OnceInv
      <3>3. PICK i \in 0 .. FragmentCount(k.frame) - 1 : Datagram(k.from, k.at, k.frame, i) \notin delivered
        BY <3>2 DEF Whole
      <3>4. Datagram(k.from, k.at, k.frame, i) = d
        BY <3>3, <1>1, <1>10 DEF Whole
      <3>5. k.from = d.from /\ k.at = d.to /\ k.frame = d.frame
        BY <3>4, DatagramFields
      <3>6. k = key
        BY <3>1, <3>5, <1>3 DEF Keys
      <3> QED BY <3>6, <2>1
    <2>2. CASE k = key
      <3>1. r.receivedFrags # m
        BY <2>2, <1>6
      <3>2. Pristine(d.frame) /\ Whole(d.from, d.to, d.frame)' /\ d \notin delivered
        <4>1. Pristine(k.frame)
          BY <1>10
        <4> QED BY <4>1, <2>2, <1>3, <1>10
      <3>3. ~Whole(d.from, d.to, d.frame)
        BY <3>2, <1>1, <1>4 DEF Whole, m
      <3>4. ASSUME NEW j \in 0 .. m - 1  PROVE j \in r.have
        <4> DEFINE e == Datagram(d.from, d.to, d.frame, j)
        <4>1. e \in delivered'
          BY <3>2 DEF Whole, m
        <4>2. e.from = d.from /\ e.to = d.to /\ e.frame = d.frame /\ e.fragIndex = j
          BY DatagramFields
        <4> HIDE DEF e
        <4>3. CASE e = d
          BY <4>2, <4>3, <1>2
        <4>4. CASE e # d
          <5>1. e \in delivered /\ Pristine(e.frame)
            BY <4>1, <4>2, <4>4, <3>2, <1>1
          <5>2. Kept(e)
            BY <5>1 DEF OnceInv
          <5>3. Key(e) = key
            BY <4>2 DEF Key, key
          <5>4. key \in DOMAIN udpReasm /\ j \in udpReasm[key].have
            BY <5>2, <5>3, <4>2, <3>3 DEF Kept
          <5> QED BY <5>4, <1>2
        <4> QED BY <4>3, <4>4
      <3>5. r.have = 0 .. m - 1
        BY <3>4, <1>2
      <3> QED BY <3>1, <3>5, <1>2
    <2> QED BY <2>1, <2>2
  <1> QED BY <1>9, <1>10

\* An object is recorded once.
LEMMA ArrivesRecorded ==
  ASSUME ShapeInv, CausesInv, OnceInv, proto = "udp", NEW d \in DOMAIN net, DatagramArrives(d),
         \A f : Pristine(f)' <=> Pristine(f),
         Pristine(d.frame) => d \notin delivered
  PROVE  \A s \in Subscribers, t \in Tracks : RecordedOnce(s, t)'
  <1>0. /\ d \in Datagrams /\ Travels(d) /\ duplicated' = duplicated
        /\ d.fragIndex \in 0 .. FragmentCount(d.frame) - 1
        /\ d = Datagram(d.from, d.to, d.frame, d.fragIndex)
    BY Arrival, DatagramType DEF ShapeInv, WiresInv, faults, Travels
  <1>1. \A f : Duplicated(f)' <=> Duplicated(f)
    BY <1>0 DEF Duplicated
  <1>2. ASSUME recorded' = recorded  PROVE \A s \in Subscribers, t \in Tracks : RecordedOnce(s, t)'
    BY <1>0, <1>2 DEF OnceInv, RecordedOnce, Duplicated
  <1>3. CASE Completes(d) /\ d.to # Relay /\ d.to # Publisher
    <2>1. PICK u \in Tracks, id \in Nat :
            /\ d.from = Relay /\ d.frame = Object(u, id) /\ d.frame.class = "OBJECT"
            /\ \A s \in Subscribers, t \in Tracks :
                 recorded'[s][t] = IF s = d.to /\ t = u THEN Append(recorded[s][t], id) ELSE recorded[s][t]
      BY <1>3, ArrivalRecords
    <2> TAKE s \in Subscribers, t \in Tracks
    <2>2. PICK r \in Seq(Nat) : r = recorded[s][t]
      BY DEF ShapeInv, ClientsOK
    <2>3. PICK z : z = recorded'[s][t]
      OBVIOUS
    <2>4. \A i, j \in DOMAIN r : i < j /\ r[i] = r[j] => Duplicated(Object(t, r[i]))
      BY <2>2 DEF OnceInv, RecordedOnce
    <2>5. \A i \in DOMAIN r : Whole(Relay, s, Object(t, r[i]))
      BY <2>2 DEF CausesInv, RecordedWhole
    <2>6. CASE s = d.to /\ t = u
      <3>1. z = Append(r, id)
        BY <2>1, <2>2, <2>3, <2>6
      <3>2. \A i \in DOMAIN z : (i \in DOMAIN r /\ z[i] = r[i]) \/ (i = Len(r) + 1 /\ z[i] = id)
        BY <3>1
      <3>3. \A i \in DOMAIN r : i \in Nat /\ i < Len(r) + 1
        OBVIOUS
      <3>4. ASSUME NEW i \in DOMAIN z, NEW j \in DOMAIN z, i < j, z[i] = z[j]
            PROVE  Duplicated(Object(t, z[i]))
        <4>1. i \in DOMAIN r /\ z[i] = r[i]
          BY <3>2, <3>3, <3>4
        <4>2. CASE j \in DOMAIN r /\ z[j] = r[j]
          BY <2>4, <3>4, <4>1, <4>2
        <4>3. CASE z[j] = id
          <5>1. Whole(Relay, s, Object(t, id)) /\ z[i] = id
            BY <2>5, <3>4, <4>1, <4>3
          <5>2. d \in delivered
            BY <5>1, <1>0, <2>1, <2>6 DEF Whole
          <5>3. Duplicated(d.frame)
            BY <5>2, <2>1 DEF Pristine
          <5> QED BY <5>1, <5>3, <2>1, <2>6
        <4> QED BY <3>2, <4>2, <4>3
      <3> QED BY <2>3, <3>4, <1>1 DEF RecordedOnce
    <2>7. CASE ~(s = d.to /\ t = u)
      <3>1. z = r
        BY <2>1, <2>2, <2>3, <2>7
      <3> QED BY <2>3, <2>4, <3>1, <1>1 DEF RecordedOnce
    <2> QED BY <2>6, <2>7
  <1>4. CASE ~(Completes(d) /\ d.to # Relay /\ d.to # Publisher)
    <2>1. recorded' = recorded
      BY <1>4, Arrival, ArrivalRecords
    <2> QED BY <2>1, <1>2
  <1> QED BY <1>3, <1>4

\* Every step keeps it.
LEMMA OnceNext ==
  ShapeInv /\ RegisteredInv /\ CausesInv /\ OnceInv /\ [Next]_vars => OnceInv'
  <1> SUFFICES ASSUME ShapeInv, RegisteredInv, CausesInv, OnceInv, [Next]_vars, proto' = "udp"
               PROVE  OnceInv'
    BY DEF OnceInv
  <1>P. proto = "udp"
    BY DEF Next, vars, Connect, RelayReceives, PeerReceives, Leave, SocketClosed, Announce, SendGroup,
           Subscribe, DatagramArrives, Lose, Duplicate
  <1>E. /\ \A p \in Peers : toRelay[p] = <<>> /\ toPeer[p] = <<>>
        /\ nextObjectId \in [Tracks -> Nat]
    BY <1>P DEF ShapeInv, WiresInv, ClientsOK
  <1>R. Publisher \in Peers /\ Subscribers \subseteq Peers /\ Publisher \notin Subscribers
    BY Roles
  <1>O. /\ \A d \in DOMAIN net : Pristine(d.frame) => SentOnce(d)
        /\ \A d \in delivered : Pristine(d.frame) => Kept(d)
        /\ \A k \in DOMAIN udpReasm : Pristine(k.frame) => ~Whole(k.from, k.at, k.frame)
        /\ \A s \in Subscribers, t \in Tracks : RecordedOnce(s, t)
    BY <1>P DEF OnceInv
  <1>S. ASSUME UNCHANGED <<delivered, udpReasm, recorded>>,
               \A f : Duplicated(f) => Duplicated(f)',
               \A d \in DOMAIN net' : Pristine(d.frame)' => SentOnce(d)'
        PROVE  OnceInv'
    <2>1. \A f : Pristine(f)' => Pristine(f)
      BY <1>S DEF Pristine
    <2>2. \A d \in delivered' : Pristine(d.frame)' => Kept(d)'
      BY <1>O, <1>S, <2>1 DEF Kept, Whole, Key
    <2>3. \A k \in DOMAIN udpReasm' : Pristine(k.frame)' => ~Whole(k.from, k.at, k.frame)'
      BY <1>O, <1>S, <2>1 DEF Whole
    <2>4. \A s \in Subscribers, t \in Tracks : RecordedOnce(s, t)'
      <3> TAKE s \in Subscribers, t \in Tracks
      <3>1. PICK r : r = recorded[s][t] /\ r = recorded'[s][t]
        BY <1>S
      <3>2. \A i, j \in DOMAIN r : i < j /\ r[i] = r[j] => Duplicated(Object(t, r[i]))
        BY <1>O, <3>1 DEF RecordedOnce
      <3>3. \A i, j \in DOMAIN r : i < j /\ r[i] = r[j] => Duplicated(Object(t, r[i]))'
        BY <1>S, <3>2
      <3> QED BY <3>1, <3>3 DEF RecordedOnce
    <2> QED BY <1>S, <2>2, <2>3, <2>4 DEF OnceInv
  <1>1. ASSUME UNCHANGED <<net, delivered, lost, duplicated, udpReasm, recorded>>  PROVE OnceInv'
    <2>1. \A f : Duplicated(f)' <=> Duplicated(f)
      BY <1>1 DEF Duplicated
    <2>2. \A d \in DOMAIN net' : Pristine(d.frame)' => SentOnce(d)'
      BY <1>1, <1>O, <2>1 DEF Pristine, SentOnce
    <2> QED BY <1>1, <2>1, <2>2, <1>S
  <1>2. ASSUME NEW p \in Peers, Connect(p) \/ RelayReceives(p) \/ PeerReceives(p) \/ Leave(p)
                                \/ SocketClosed(p)
        PROVE  OnceInv'
    <2>1. Connect(p) \/ Leave(p)
      BY <1>2, <1>P, <1>E DEF RelayReceives, PeerReceives, SocketClosed
    <2> QED BY <2>1, <1>1 DEF Connect, Leave, udp, faults
  <1>3. ASSUME NEW t \in Tracks, Announce(t)  PROVE OnceInv'
    <2> DEFINE fs == <<Control("ANNOUNCE", t)>>
    <2>1. fs \in Seq(Frames) /\ (\A i \in DOMAIN fs : fs[i].class # "OBJECT")
          /\ \A i, j \in DOMAIN fs : i = j
      BY ControlFrames, FrameTypes
    <2>2. PeerSends(Publisher, fs) /\ UNCHANGED <<delivered, lost, recorded, duplicated, udpReasm, proto>>
      BY <1>3 DEF Announce, faults
    <2> HIDE DEF fs
    <2> QED BY <1>P, <1>R, <2>1, <2>2, OnceSend
  <1>4. ASSUME NEW t \in Tracks, NEW s \in Subscribers, Subscribe(s, t)  PROVE OnceInv'
    <2> DEFINE fs == <<Control("SUBSCRIBE", t)>>
    <2>1. fs \in Seq(Frames) /\ (\A i \in DOMAIN fs : fs[i].class # "OBJECT")
          /\ \A i, j \in DOMAIN fs : i = j
      BY ControlFrames, FrameTypes
    <2>2. PeerSends(s, fs) /\ UNCHANGED <<delivered, lost, recorded, duplicated, udpReasm, proto>>
      BY <1>4 DEF Subscribe, faults
    <2> HIDE DEF fs
    <2> QED BY <1>P, <1>R, <2>1, <2>2, OnceSend
  <1>5. ASSUME NEW t \in Tracks, SendGroup(t)  PROVE OnceInv'
    <2> DEFINE fs == [i \in 1 .. ObjectsPerGroup[t] |-> Object(t, nextObjectId[t] + i - 1)]
    <2>1. /\ fs \in Seq(Frames) /\ DOMAIN fs = 1 .. ObjectsPerGroup[t]
          /\ ObjectsPerGroup[t] \in Nat \ {0}
          /\ \A i \in DOMAIN fs : fs[i] = Object(t, nextObjectId[t] + i - 1)
      BY GroupFrames DEF ShapeInv
    <2>2. PeerSends(Publisher, fs) /\ UNCHANGED <<delivered, lost, recorded, duplicated, udpReasm, proto>>
      BY <1>5 DEF SendGroup, faults
    <2> HIDE DEF fs
    <2>3. ASSUME NEW i \in DOMAIN fs
          PROVE  /\ fs[i].objectId = nextObjectId[t] + i - 1 /\ fs[i].track = t /\ i \in Nat /\ i >= 1
                 /\ fs[i].objectId \in Nat /\ fs[i].objectId >= nextObjectId[fs[i].track]
      <3>1. fs[i] = Object(t, nextObjectId[t] + i - 1) /\ i \in Nat /\ i >= 1 /\ nextObjectId[t] \in Nat
        BY <2>1, <1>E
      <3>2. fs[i].objectId = nextObjectId[t] + i - 1 /\ fs[i].track = t
        BY <3>1 DEF Object, Frame
      <3> QED BY <3>1, <3>2
    <2>4. ASSUME NEW i \in DOMAIN fs, NEW j \in DOMAIN fs, fs[i] = fs[j]  PROVE i = j
      <3>1. nextObjectId[t] + i - 1 = nextObjectId[t] + j - 1 /\ i \in Nat /\ j \in Nat
        BY <2>3, <2>4
      <3> QED BY <3>1, <1>E
    <2> QED BY <1>P, <1>R, <2>1, <2>2, <2>3, <2>4, OnceSend
  <1>6. ASSUME NEW d \in DOMAIN net, DatagramArrives(d)  PROVE OnceInv'
    <2>1. /\ \A e \in DOMAIN net' : Pristine(e.frame)' => SentOnce(e)'
          /\ \A f : Pristine(f)' <=> Pristine(f)
          /\ Pristine(d.frame) => d \notin delivered
      BY <1>P, <1>6, ArrivesOnce
    <2>2. /\ \A e \in delivered' : Pristine(e.frame)' => Kept(e)'
          /\ \A k \in DOMAIN udpReasm' : Pristine(k.frame)' => ~Whole(k.from, k.at, k.frame)'
      BY <1>P, <1>6, <2>1, ArrivesKept
    <2>3. \A s \in Subscribers, t \in Tracks : RecordedOnce(s, t)'
      BY <1>P, <1>6, <2>1, ArrivesRecorded
    <2> QED BY <2>1, <2>2, <2>3 DEF OnceInv
  <1>7. ASSUME NEW d \in DOMAIN net, Lose(d)  PROVE OnceInv'
    <2> DEFINE n == net (-) SetToBag({d})
    <2>1. /\ net' = n /\ lost' = Append(lost, d)
          /\ UNCHANGED <<delivered, duplicated, udpReasm, recorded>>
      BY <1>7 DEF Lose, clients
    <2>2. /\ DOMAIN n \subseteq DOMAIN net /\ (net[d] = 1 => d \notin DOMAIN n)
          /\ \A e \in DOMAIN n : e # d => n[e] = net[e]
      BY BagTake DEF ShapeInv, WiresInv
    <2>3. Range(lost') = Range(lost) \cup {d}
      BY <2>1, RangeOfAppend DEF ShapeInv, CollectedInv
    <2> HIDE DEF n
    <2>4. \A f : Duplicated(f)' <=> Duplicated(f)
      BY <2>1 DEF Duplicated
    <2>5. ASSUME NEW e \in DOMAIN net', Pristine(e.frame)'  PROVE SentOnce(e)'
      <3>1. e \in DOMAIN net /\ Pristine(e.frame)
        BY <2>1, <2>2, <2>4, <2>5 DEF Pristine
      <3>2. net[e] = 1 /\ e \notin delivered /\ e \notin Range(lost)
        BY <3>1, <1>O DEF SentOnce
      <3>3. e # d
        BY <3>2, <2>1, <2>2
      <3>4. net'[e] = 1 /\ e \notin delivered' /\ e \notin Range(lost')
        BY <3>2, <3>3, <2>1, <2>2, <2>3
      <3> QED BY <3>4 DEF SentOnce, Range
    <2> QED BY <2>1, <2>4, <2>5, <1>S
  <1>8. ASSUME NEW d \in DOMAIN net, Duplicate(d)  PROVE OnceInv'
    <2> DEFINE n == net (+) SetToBag({d})
    <2>1. /\ net' = n /\ duplicated' = Append(duplicated, d)
          /\ UNCHANGED <<delivered, lost, udpReasm, recorded>>
      BY <1>8 DEF Duplicate, clients
    <2>2. DOMAIN n = DOMAIN net /\ \A e \in DOMAIN n : e # d => n[e] = net[e]
      BY BagDouble DEF ShapeInv, WiresInv
    <2> HIDE DEF n
    <2>3. \A f : Duplicated(f)' <=> Duplicated(f) \/ d.frame = f
      <3> DEFINE z == Append(duplicated, d)
      <3>1. duplicated \in Seq(Datagrams)
        BY DEF ShapeInv, CollectedInv
      <3>2. /\ \A i \in DOMAIN duplicated : i \in DOMAIN z /\ z[i] = duplicated[i]
            /\ Len(duplicated) + 1 \in DOMAIN z /\ z[Len(duplicated) + 1] = d
            /\ \A i \in DOMAIN z : (i \in DOMAIN duplicated /\ z[i] = duplicated[i]) \/ z[i] = d
        BY <3>1
      <3> HIDE DEF z
      <3>3. duplicated' = z
        BY <2>1 DEF z
      <3>4. \A f : (\E i \in DOMAIN z : z[i].frame = f) <=>
                   (\E i \in DOMAIN duplicated : duplicated[i].frame = f) \/ d.frame = f
        BY <3>2
      <3> QED BY <3>3, <3>4 DEF Duplicated
    <2>4. ASSUME NEW e \in DOMAIN net', Pristine(e.frame)'  PROVE SentOnce(e)'
      <3>1. e \in DOMAIN net /\ Pristine(e.frame) /\ e # d
        BY <2>1, <2>2, <2>3, <2>4 DEF Pristine
      <3> QED BY <3>1, <1>O, <2>1, <2>2 DEF SentOnce
    <2> QED BY <2>1, <2>3, <2>4, <1>S
  <1>9. CASE UNCHANGED vars
    BY <1>9, <1>1 DEF vars, udp, faults, clients
  <1> QED BY <1>2, <1>3, <1>4, <1>5, <1>6, <1>7, <1>8, <1>9 DEF Next, BagToSet

\* Over UDP nothing happens twice without a duplicate, always.
LEMMA OnceInvariant == Spec => []OnceInv
  BY OnceInit, OnceNext, ShapeInvariant, RegisteredInvariant, CausesInvariant, PTL DEF Spec

-----------------------------------------------------------------------------
(* What subscribers record.                                                *)

\* Over UDP an object is recorded only when each of its datagrams has come, to the relay and
\* to the subscriber; and an object is left half collected only if the rest is under way or
\* was lost, or one of its datagrams was duplicated.
THEOREM RecordedWhenWhole == Spec => []ObjectsWhole
  <1>1. ShapeInv /\ CausesInv /\ OnceInv => ObjectsWhole
    <2> SUFFICES ASSUME ShapeInv, CausesInv, OnceInv, proto = "udp"
                 PROVE
                   /\ \A s \in Subscribers, t \in Tracks : \A id \in Range(recorded[s][t]) :
                        Whole(Publisher, Relay, Object(t, id)) /\ Whole(Relay, s, Object(t, id))
                   /\ \A k \in DOMAIN udpReasm :
                        LET of(q) == {d.fragIndex : d \in {e \in q : e.frame = k.frame}}
                        IN  \/ of(Range(duplicated)) # {}
                            \/ \E d \in BagToSet(net) \cup Range(lost) :
                                 Key(d) = k /\ d.fragIndex \notin udpReasm[k].have
      BY DEF ObjectsWhole
    <2>1. ASSUME NEW s \in Subscribers, NEW t \in Tracks, NEW id \in Range(recorded[s][t])
          PROVE  Whole(Publisher, Relay, Object(t, id)) /\ Whole(Relay, s, Object(t, id))
      <3>1. Whole(Relay, s, Object(t, id))
        BY <2>1 DEF CausesInv, RecordedWhole, Range
      <3>2. id \in Nat
        <4>1. recorded[s][t] \in Seq(Nat)
          BY DEF ShapeInv, ClientsOK
        <4> QED BY <4>1, <2>1 DEF Range
      <3> DEFINE f == Object(t, id)
                 d == Datagram(Relay, s, f, 0)
      <3>3. f \in Frames /\ f.class = "OBJECT"
        BY <3>2, FrameTypes
      <3>4. 0 \in 0 .. FragmentCount(f) - 1
        BY <3>3, FragmentCountType
      <3>5. d \in delivered /\ d \in Datagrams /\ d.from = Relay /\ d.frame = f
        BY <3>1, <3>4, DatagramFields DEF Whole, ShapeInv, CollectedInv
      <3> HIDE DEF d, f
      <3>6. Whole(Publisher, Relay, f)
        BY <3>3, <3>5 DEF CausesInv, Caused, Sent
      <3> QED BY <3>1, <3>6 DEF f
    <2>2. ASSUME NEW k \in DOMAIN udpReasm, ~Duplicated(k.frame)
          PROVE  \E d \in BagToSet(net) \cup Range(lost) :
                   Key(d) = k /\ d.fragIndex \notin udpReasm[k].have
      <3> DEFINE m == FragmentCount(k.frame)
                 h == udpReasm[k].have
      <3>1. /\ k \in Keys /\ k.frame.class = "OBJECT" /\ k.frame \in Frames
            /\ h \subseteq 0 .. m - 1 /\ h # {} /\ Cardinality(h) \in 1 .. m - 1
            /\ \A i \in h : Datagram(k.from, k.at, k.frame, i) \in delivered
        BY CollectedObjects DEF ShapeInv, CollectedInv
      <3>2. m \in Nat \ {0}
        BY <3>1, FragmentCountType
      <3>3. ~Whole(k.from, k.at, k.frame)
        BY <2>2, <3>1 DEF OnceInv, Pristine
      <3>4. PICK j \in h : TRUE
        BY <3>1
      <3>5. \A i \in 0 .. m - 1 : Sent(Datagram(k.from, k.at, k.frame, i))
        <4>1. Datagram(k.from, k.at, k.frame, j) \in delivered
              /\ Datagram(k.from, k.at, k.frame, j) \in Datagrams
          BY <3>1, <3>4 DEF ShapeInv, CollectedInv
        <4>2. Caused(Datagram(k.from, k.at, k.frame, j))
          BY <4>1 DEF CausesInv, Sent
        <4> QED BY <4>2, DatagramFields DEF Caused
      <3>6. PICK i \in 0 .. m - 1 : i \notin h
        <4>1. CASE h = 0 .. m - 1
          <5>1. 0 \in Int /\ m - 1 \in Int
            BY <3>2
          <5>2. Cardinality(0 .. m - 1) = IF 0 > m - 1 THEN 0 ELSE (m - 1) - 0 + 1
            BY <5>1, FS_Interval
          <5>3. Cardinality(0 .. m - 1) = m
            BY <5>2, <3>2
          <5> HIDE DEF m, h
          <5> QED BY <5>3, <4>1, <3>1, <3>2
        <4> QED BY <4>1, <3>1
      <3> DEFINE d == Datagram(k.from, k.at, k.frame, i)
      <3>7. d.from = k.from /\ d.to = k.at /\ d.frame = k.frame /\ d.fragIndex = i
        BY DatagramFields
      <3>8. Sent(d)
        BY <3>5, <3>6
      <3> HIDE DEF d
      <3>9. Key(d) = k
        BY <3>7, <3>1 DEF Key, Keys
      <3>10. d \notin delivered
        <4> SUFFICES ASSUME d \in delivered  PROVE FALSE
          OBVIOUS
        <4>1. Kept(d)
          BY <3>1, <3>7, <2>2 DEF OnceInv, Pristine
        <4> QED BY <4>1, <3>3, <3>6, <3>7, <3>9 DEF Kept
      <3> QED BY <3>6, <3>7, <3>8, <3>9, <3>10 DEF Sent, BagToSet
    <2>3. ASSUME NEW k \in DOMAIN udpReasm, Duplicated(k.frame)
          PROVE  {d.fragIndex : d \in {e \in Range(duplicated) : e.frame = k.frame}} # {}
      <3>1. PICK i \in DOMAIN duplicated : duplicated[i].frame = k.frame
        BY <2>3 DEF Duplicated
      <3>2. duplicated[i] \in {e \in Range(duplicated) : e.frame = k.frame}
        BY <3>1 DEF Range
      <3> QED BY <3>2
    <2> QED BY <2>1, <2>2, <2>3
  <1> QED BY <1>1, ShapeInvariant, CausesInvariant, OnceInvariant, PTL

\* Over TCP a subscriber records a gapless, ascending run of each track; over UDP an object
\* is recorded twice only if one of its own datagrams was duplicated.
THEOREM RecordsTrack == Spec => []RecordedHonestly
  <1>1. ShapeInv /\ StreamsInv /\ OnceInv => RecordedHonestly
    <2> SUFFICES ASSUME ShapeInv, StreamsInv, OnceInv, NEW s \in Subscribers, NEW t \in Tracks
                 PROVE  LET q == recorded[s][t]
                        IN  /\ proto = "tcp" => \A i \in 2 .. Len(q) : q[i] = q[i - 1] + 1
                            /\ \A i, j \in 1 .. Len(q) :
                                 (i < j /\ q[i] = q[j]) =>
                                   \E d \in Range(duplicated) : d.frame = Object(t, q[i])
      BY DEF RecordedHonestly
    <2> DEFINE q == recorded[s][t]
    <2>1. q \in Seq(Nat) /\ proto \in {"tcp", "udp"}
      BY DEF ShapeInv, ClientsOK, WiresInv
    <2>2. CASE proto = "tcp"
      <3>1. Consecutive(q)
        BY <2>2 DEF StreamsInv, SubscriberLine, Continues
      <3> HIDE DEF q
      <3>2. \A i \in 1 .. Len(q) : q[i] = q[1] + i - 1 /\ q[i] \in Nat /\ i \in Nat
        BY <2>1, <3>1 DEF Consecutive
      <3>3. ASSUME NEW i \in 2 .. Len(q)  PROVE q[i] = q[i - 1] + 1
        <4>1. i \in 1 .. Len(q) /\ i - 1 \in 1 .. Len(q) /\ 1 \in 1 .. Len(q) /\ Len(q) \in Nat
          BY <2>1
        <4>2. q[i] = q[1] + i - 1 /\ q[i - 1] = q[1] + (i - 1) - 1 /\ q[1] \in Nat
          BY <4>1, <3>2
        <4> QED BY <4>1, <4>2
      <3>4. ASSUME NEW i \in 1 .. Len(q), NEW j \in 1 .. Len(q), i < j, q[i] = q[j]  PROVE FALSE
        <4>1. 1 \in 1 .. Len(q) /\ Len(q) \in Nat
          BY <2>1
        <4>2. q[i] = q[1] + i - 1 /\ q[j] = q[1] + j - 1 /\ q[1] \in Nat /\ i \in Nat /\ j \in Nat
          BY <4>1, <3>2
        <4> QED BY <4>2, <3>4
      <3> QED BY <3>3, <3>4 DEF q
    <2>3. CASE proto = "udp"
      <3>1. DOMAIN q = 1 .. Len(q)
        BY <2>1
      <3>2. \A i, j \in DOMAIN q : i < j /\ q[i] = q[j] => Duplicated(Object(t, q[i]))
        BY <2>3 DEF OnceInv, RecordedOnce
      <3>3. \A f : Duplicated(f) => \E d \in Range(duplicated) : d.frame = f
        BY DEF Duplicated, Range
      <3> QED BY <2>3, <3>1, <3>2, <3>3
    <2> QED BY <2>1, <2>2, <2>3
  <1> QED BY <1>1, ShapeInvariant, StreamsInvariant, OnceInvariant, PTL

-----------------------------------------------------------------------------
(* Bytes at their place.                                                   *)

\* Behind its first i bytes, b goes on with x.
Has(b, i, x) == i + Len(x) <= Len(b) /\ \A k \in 1 .. Len(x) : b[i + k] = x[k]

\* The bytes of a concatenation.
LEMMA JoinIs ==
  ASSUME NEW x \in Bytes, NEW y \in Bytes
  PROVE  /\ x \o y \in Bytes /\ Len(x \o y) = Len(x) + Len(y)
         /\ \A k \in 1 .. Len(x) : (x \o y)[k] = x[k]
         /\ \A k \in 1 .. Len(y) : (x \o y)[Len(x) + k] = y[k]
  <1>1. /\ x \o y \in Seq(Byte) /\ Len(x \o y) = Len(x) + Len(y)
        /\ \A i \in 1 .. Len(x) + Len(y) :
             (x \o y)[i] = IF i <= Len(x) THEN x[i] ELSE y[i - Len(x)]
    BY ConcatProperties DEF Bytes
  <1>2. Len(x) \in Nat /\ Len(y) \in Nat
    BY BytesAre
  <1> DEFINE c == x \o y
  <1> HIDE DEF c
  <1>3. ASSUME NEW k \in 1 .. Len(x)
        PROVE  c[k] = x[k]
    <2>1. k \in 1 .. Len(x) + Len(y) /\ k <= Len(x)
      BY <1>2
    <2> QED BY <1>1, <2>1 DEF c
  <1>4. ASSUME NEW k \in 1 .. Len(y)
        PROVE  c[Len(x) + k] = y[k]
    <2>1. Len(x) + k \in 1 .. Len(x) + Len(y) /\ ~(Len(x) + k <= Len(x)) /\ (Len(x) + k) - Len(x) = k
      BY <1>2
    <2> QED BY <1>1, <2>1 DEF c
  <1> QED BY <1>1, <1>3, <1>4 DEF c, Bytes

\* The two parts of x are where x is.
LEMMA HasJoin ==
  ASSUME NEW b \in Bytes, NEW i \in Nat, NEW x \in Bytes, NEW y \in Bytes, Has(b, i, x \o y)
  PROVE  /\ Has(b, i, x) /\ Has(b, i + Len(x), y) /\ i + Len(x) \in Nat
         /\ i + Len(x) + Len(y) <= Len(b)
  <1>1. Len(x) \in Nat /\ Len(y) \in Nat /\ Len(b) \in Nat
    BY BytesAre
  <1>2. PICK c \in Bytes : /\ c = x \o y /\ Len(c) = Len(x) + Len(y)
                           /\ \A k \in 1 .. Len(x) : c[k] = x[k]
                           /\ \A k \in 1 .. Len(y) : c[Len(x) + k] = y[k]
    BY JoinIs
  <1>3. i + (Len(x) + Len(y)) <= Len(b) /\ \A k \in 1 .. Len(x) + Len(y) : b[i + k] = c[k]
    BY <1>2 DEF Has
  <1>4. ASSUME NEW k \in 1 .. Len(x)
        PROVE  b[i + k] = x[k]
    <2>1. k \in 1 .. Len(x) + Len(y)
      BY <1>1
    <2> QED BY <1>2, <1>3, <2>1
  <1>5. ASSUME NEW k \in 1 .. Len(y)
        PROVE  b[i + Len(x) + k] = y[k]
    <2>1. Len(x) + k \in 1 .. Len(x) + Len(y) /\ i + (Len(x) + k) = i + Len(x) + k
      BY <1>1
    <2> QED BY <1>2, <1>3, <2>1
  <1>6. i + Len(x) <= Len(b) /\ (i + Len(x)) + Len(y) <= Len(b) /\ i + Len(x) \in Nat
    BY <1>1, <1>3
  <1> QED BY <1>4, <1>5, <1>6 DEF Has

\* What is in a part is in the whole.
LEMMA HasWithin ==
  ASSUME NEW b \in Bytes, NEW i \in Nat, NEW x \in Bytes, NEW j \in Nat, NEW y \in Bytes,
         Has(b, i, x), Has(x, j, y)
  PROVE  Has(b, i + j, y)
  <1>1. Len(x) \in Nat /\ Len(y) \in Nat /\ Len(b) \in Nat
    BY BytesAre
  <1>2. /\ i + Len(x) <= Len(b) /\ \A k \in 1 .. Len(x) : b[i + k] = x[k]
        /\ j + Len(y) <= Len(x) /\ \A k \in 1 .. Len(y) : x[j + k] = y[k]
    BY DEF Has
  <1>3. ASSUME NEW k \in 1 .. Len(y)
        PROVE  b[(i + j) + k] = y[k]
    <2>1. j + k \in 1 .. Len(x) /\ i + (j + k) = (i + j) + k
      BY <1>1, <1>2
    <2> QED BY <1>2, <2>1
  <1>4. (i + j) + Len(y) <= Len(b)
    BY <1>1, <1>2
  <1> QED BY <1>3, <1>4 DEF Has

\* All of b is in b, and in b with more behind it.
LEMMA HasAll ==
  ASSUME NEW b \in Bytes, NEW c \in Bytes
  PROVE  Has(b, 0, b) /\ Has(b \o c, 0, b)
  <1>1. Len(b) \in Nat /\ Len(c) \in Nat
    BY BytesAre
  <1>2. Len(b \o c) = Len(b) + Len(c) /\ \A k \in 1 .. Len(b) : (b \o c)[k] = b[k]
    BY JoinIs
  <1>3. 0 + Len(b) <= Len(b) /\ 0 + Len(b) <= Len(b) + Len(c) /\ \A k \in 1 .. Len(b) : 0 + k = k
    BY <1>1
  <1> HIDE DEF Byte
  <1> DEFINE d == b \o c
  <1> HIDE DEF d
  <1>4. Len(d) = Len(b) + Len(c) /\ \A k \in 1 .. Len(b) : d[k] = b[k]
    BY <1>2 DEF d
  <1>5. Has(d, 0, b) /\ Has(b, 0, b)
    BY <1>3, <1>4 DEF Has
  <1> QED BY <1>5 DEF d

\* The part is what SubSeq takes there.
LEMMA HasIs ==
  ASSUME NEW b \in Bytes, NEW i \in Nat, NEW x \in Bytes, Has(b, i, x)
  PROVE  SubSeq(b, i + 1, i + Len(x)) = x
  <1>1. Len(x) \in Nat /\ Len(b) \in Nat
    BY BytesAre
  <1>2. i + Len(x) <= Len(b) /\ \A k \in 1 .. Len(x) : b[i + k] = x[k]
    BY DEF Has
  <1> DEFINE s == SubSeq(b, i + 1, i + Len(x))
  <1>3. /\ Len(s) = Len(x) /\ s \in Bytes
        /\ \A k \in 1 .. Len(x) : s[k] = b[i + k]
    <2>1. i + 1 \in 1 .. Len(b) + 1 /\ i + Len(x) \in i .. Len(b)
      BY <1>1, <1>2
    <2>2. s = [k \in 1 .. Len(x) |-> b[i + k]]
      <3>1. (i + Len(x)) - (i + 1) + 1 = Len(x)
        BY <1>1
      <3>2. \A k \in 1 .. Len(x) : k + (i + 1) - 1 = i + k
        BY <1>1
      <3>3. s = [k \in 1 .. (i + Len(x)) - (i + 1) + 1 |-> b[k + (i + 1) - 1]]
        BY <1>1 DEF SubSeq, Bytes
      <3> QED BY <3>1, <3>2, <3>3
    <2>3. \A k \in 1 .. Len(x) : b[i + k] \in Byte
      <3>1. \A k \in 1 .. Len(x) : i + k \in 1 .. Len(b)
        BY <1>1, <1>2
      <3> QED BY <3>1 DEF Bytes
    <2>4. s \in [1 .. Len(x) -> Byte]
      BY <2>2, <2>3
    <2>5. \A k \in 1 .. Len(x) : s[k] = b[i + k]
      BY <2>2
    <2> HIDE DEF s
    <2> QED BY <1>1, <2>4, <2>5, SMTT(30) DEF Bytes
  <1> HIDE DEF s
  <1>4. \A k \in 1 .. Len(x) : s[k] = x[k]
    BY <1>2, <1>3
  <1>5. s = x
    BY <1>1, <1>3, <1>4 DEF Bytes
  <1> QED BY <1>5 DEF s

-----------------------------------------------------------------------------
(* Numbers and strings at their place.                                     *)

\* A number is its low byte and what is above.
Divided(v) == v % 256 \in Byte /\ (v % 256) + 256 * Up(v) = v

LEMMA UpIs == \A v \in Int : Up(v) \in Int /\ Divided(v)
  <1>1. \A v \in Int : v \div 256 \in Int /\ v % 256 \in 0 .. 255 /\ (v % 256) + 256 * (v \div 256) = v
    BY SMT
  <1> QED BY <1>1, InByte DEF Up, Divided

\* What is above a smaller number is no larger.
LEMMA UpMonotonic ==
  ASSUME NEW v \in Int, NEW w \in Int, v <= w
  PROVE  Up(v) <= Up(w)
  <1>1. \A x, y \in Int : x <= y => x \div 256 <= y \div 256
    BY SMT
  <1> QED BY <1>1 DEF Up

LEMMA UpZero == Up(0) = 0 /\ Up(-1) = -1
  <1>1. ASSUME NEW v \in {0, -1}
        PROVE  Up(v) = v
    <2>0. Up(v) \in Int /\ Divided(v)
      <3>1. v \in Int
        OBVIOUS
      <3> QED BY <3>1, UpIs
    <2> DEFINE m == v % 256
               u == Up(v)
    <2>1. m \in Byte
      BY <2>0 DEF Divided
    <2>2. u \in Int /\ m + 256 * u = v
      BY <2>0 DEF Divided
    <2> HIDE DEF m, u
    <2>3. m \in 0 .. 255
      BY <2>1 DEF Byte
    <2>4. u = v
      BY <2>2, <2>3, SMT
    <2> QED BY <2>4 DEF u
  <1> QED BY <1>1

\* A word is no negative number, and what is between two words, or two longs, is one.
LEMMA WordsAre ==
  /\ 0 \in Words
  /\ \A v \in Words : v \in Nat
  /\ \A v \in Words : \A u \in Nat : u <= v => u \in Words
  <1>1. Up4(0) = 0 /\ Up4(-1) = -1
    BY UpZero DEF Up4
  <1>2. ASSUME NEW v \in Int, NEW w \in Int, v <= w
        PROVE  Up4(v) \in Int /\ Up4(w) \in Int /\ Up4(v) <= Up4(w)
    <2>1. Up(v) \in Int /\ Up(w) \in Int /\ Up(v) <= Up(w)
      BY <1>2, UpIs, UpMonotonic
    <2>2. Up(Up(v)) \in Int /\ Up(Up(w)) \in Int /\ Up(Up(v)) <= Up(Up(w))
      BY <2>1, UpIs, UpMonotonic
    <2>3. /\ Up(Up(Up(v))) \in Int /\ Up(Up(Up(w))) \in Int
          /\ Up(Up(Up(v))) <= Up(Up(Up(w)))
      BY <2>2, UpIs, UpMonotonic
    <2>4. /\ Up(Up(Up(Up(v)))) \in Int /\ Up(Up(Up(Up(w)))) \in Int
          /\ Up(Up(Up(Up(v)))) <= Up(Up(Up(Up(w))))
      BY <2>3, UpIs, UpMonotonic
    <2> QED BY <2>4 DEF Up4
  <1>3. ASSUME NEW v \in Words
        PROVE  v \in Nat
    <2>1. v \in Int /\ Up4(v) = 0
      BY DEF Words
    <2>2. CASE v <= -1
      <3>1. Up4(v) <= Up4(-1)
        BY <1>2, <2>1, <2>2
      <3> QED BY <1>1, <2>1, <3>1
    <2> QED BY <2>1, <2>2
  <1>4. ASSUME NEW v \in Words, NEW u \in Nat, u <= v
        PROVE  u \in Words
    <2>1. v \in Int /\ Up4(v) = 0 /\ u \in Int /\ 0 <= u
      BY <1>4 DEF Words
    <2>2. Up4(0) <= Up4(u) /\ Up4(u) <= Up4(v) /\ Up4(u) \in Int
      BY <1>2, <1>4, <2>1
    <2>3. Up4(u) = 0
      BY <1>1, <2>1, <2>2
    <2> QED BY <2>1, <2>3 DEF Words
  <1> QED BY <1>1, <1>3, <1>4 DEF Words

\* Every word is a long, and so is every number between two longs.
LEMMA LongsAre ==
  /\ -1 \in Longs
  /\ Words \subseteq Longs
  /\ \A v \in Longs : v \in Int
  /\ \A v \in Longs : \A u \in Nat : u <= v => u \in Longs
  <1> DEFINE Top(v) == Up(Up(Up(Up4(v))))
  <1>1. Top(0) = 0 /\ Top(-1) = -1 /\ Up(Up(Up(0))) = 0
    BY UpZero DEF Up4
  <1>2. ASSUME NEW v \in Int, NEW w \in Int, v <= w
        PROVE  Top(v) \in Int /\ Top(w) \in Int /\ Top(v) <= Top(w)
    <2>1. Up(v) \in Int /\ Up(w) \in Int /\ Up(v) <= Up(w)
      BY <1>2, UpIs, UpMonotonic
    <2>2. Up(Up(v)) \in Int /\ Up(Up(w)) \in Int /\ Up(Up(v)) <= Up(Up(w))
      BY <2>1, UpIs, UpMonotonic
    <2>3. /\ Up(Up(Up(v))) \in Int /\ Up(Up(Up(w))) \in Int
          /\ Up(Up(Up(v))) <= Up(Up(Up(w)))
      BY <2>2, UpIs, UpMonotonic
    <2>4. Up4(v) \in Int /\ Up4(w) \in Int /\ Up4(v) <= Up4(w)
      BY <2>3, UpIs, UpMonotonic DEF Up4
    <2>5. Up(Up4(v)) \in Int /\ Up(Up4(w)) \in Int /\ Up(Up4(v)) <= Up(Up4(w))
      BY <2>4, UpIs, UpMonotonic
    <2>6. Up(Up(Up4(v))) \in Int /\ Up(Up(Up4(w))) \in Int /\ Up(Up(Up4(v))) <= Up(Up(Up4(w)))
      BY <2>5, UpIs, UpMonotonic
    <2> QED BY <2>6, UpIs, UpMonotonic
  <1>3. \A v \in Longs : v \in Int /\ Top(v) \in -128 .. 127
    BY DEF Longs
  <1>4. \A v \in Int : Top(v) \in -128 .. 127 => v \in Longs
    BY DEF Longs
  <1>5. \A v \in Words : v \in Int /\ Top(v) = 0
    BY <1>1 DEF Words
  <1> HIDE DEF Top
  <1>6. ASSUME NEW v \in Longs, NEW u \in Nat, u <= v
        PROVE  u \in Longs
    <2>1. Top(0) <= Top(u) /\ Top(u) <= Top(v) /\ Top(u) \in Int
      BY <1>2, <1>3, <1>6
    <2>2. \A x \in -128 .. 127 : x \in Int /\ x <= 127
      OBVIOUS
    <2>3. \A x, y \in Int : 0 <= x /\ x <= y /\ y <= 127 => x \in -128 .. 127
      OBVIOUS
    <2>4. Top(u) \in -128 .. 127
      BY <1>1, <1>3, <2>1, <2>2, <2>3, Zenon
    <2> QED BY <1>4, <2>4
  <1>7. Words \subseteq Longs
    BY <1>4, <1>5
  <1>8. -1 \in Longs
    BY <1>1, <1>4
  <1> QED BY <1>3, <1>6, <1>7, <1>8

\* Four bytes of v and what is above them are v.
LEMMA ValueIs ==
  ASSUME NEW b \in Bytes, NEW i \in Nat, NEW v \in Int, Has(b, i, PutU32(v))
  PROVE  /\ Value(b, i + 1, Up4(v)) = v
         /\ \A k \in 1 .. 4 : b[i + k] \in Byte
         /\ i + 4 <= Len(b) /\ b[i + 4] = Up(Up(Up(v))) % 256
  <1> DEFINE w == Up(v)
             x == Up(w)
             y == Up(x)
             z == Up(y)
             p == PutU32(v)
  <1>1. w \in Int /\ Divided(v)
    BY UpIs
  <1> HIDE DEF w
  <1>2. x \in Int /\ Divided(w)
    BY <1>1, UpIs
  <1> HIDE DEF x
  <1>3. y \in Int /\ Divided(x)
    BY <1>2, UpIs
  <1> HIDE DEF y
  <1>4. z \in Int /\ Divided(y)
    BY <1>3, UpIs
  <1> HIDE DEF z
  <1>5. Len(p) = 4 /\ p[1] = v % 256 /\ p[2] = w % 256 /\ p[3] = x % 256 /\ p[4] = y % 256
    BY DEF PutU32, w, x, y
  <1>6. z = Up4(v) /\ y = Up(Up(Up(v)))
    BY DEF Up4, w, x, y, z
  <1> HIDE DEF p
  <1>7. i + 4 <= Len(b) /\ \A k \in 1 .. 4 : b[i + k] = p[k]
    BY <1>5 DEF Has, p
  <1>8. b[i + 1] = v % 256 /\ b[i + 2] = w % 256 /\ b[i + 3] = x % 256 /\ b[i + 4] = y % 256
    <2>1. 1 \in 1 .. 4 /\ 2 \in 1 .. 4 /\ 3 \in 1 .. 4 /\ 4 \in 1 .. 4
      OBVIOUS
    <2>2. b[i + 1] = p[1] /\ b[i + 2] = p[2] /\ b[i + 3] = p[3] /\ b[i + 4] = p[4]
      BY <1>7, <2>1
    <2> QED BY <1>5, <2>2
  <1>9. (i + 1) + 1 = i + 2 /\ (i + 1) + 2 = i + 3 /\ (i + 1) + 3 = i + 4
    OBVIOUS
  <1>10. Value(b, i + 1, z) = (v % 256) + 256 * ((w % 256) + 256 * ((x % 256) + 256 * ((y % 256) + 256 * z)))
    BY <1>8, <1>9 DEF Value
  <1>11. Value(b, i + 1, z) = v
    <2>1. (v % 256) + 256 * w = v /\ (w % 256) + 256 * x = w
      BY <1>1, <1>2 DEF Divided, w, x
    <2>2. (x % 256) + 256 * y = x /\ (y % 256) + 256 * z = y
      BY <1>3, <1>4 DEF Divided, y, z
    <2> QED BY <1>10, <2>1, <2>2
  <1>12. \A k \in 1 .. 4 : b[i + k] \in Byte
    <2>1. Len(b) \in Nat
      BY BytesAre
    <2>2. \A k \in 1 .. 4 : i + k \in 1 .. Len(b)
      BY <1>7, <2>1
    <2> QED BY <2>2 DEF Bytes
  <1> QED BY <1>6, <1>7, <1>8, <1>11, <1>12

\* The bytes of a number.
LEMMA PutU32Is ==
  ASSUME NEW v \in Int
  PROVE  PutU32(v) \in Bytes /\ Len(PutU32(v)) = 4
  <1>1. PICK w \in Int : w = Up(v)
    BY UpIs
  <1>2. PICK x \in Int : x = Up(w)
    BY UpIs
  <1>3. PICK y \in Int : y = Up(x)
    BY UpIs
  <1>4. PICK c \in Byte, d \in Byte, e \in Byte, f \in Byte :
          c = v % 256 /\ d = w % 256 /\ e = x % 256 /\ f = y % 256
    <2>1. Divided(v) /\ Divided(w) /\ Divided(x) /\ Divided(y)
      BY UpIs
    <2> QED BY <2>1 DEF Divided
  <1>5. PutU32(v) = <<c, d, e, f>>
    BY <1>1, <1>2, <1>3, <1>4 DEF PutU32
  <1> HIDE DEF Byte
  <1> QED BY <1>5 DEF Bytes

LEMMA PutI64Is ==
  ASSUME NEW v \in Int
  PROVE  PutI64(v) \in Bytes /\ Len(PutI64(v)) = 8 /\ Up4(v) \in Int
  <1>1. Up4(v) \in Int
    BY UpIs DEF Up4
  <1>2. /\ PutU32(v) \in Bytes /\ Len(PutU32(v)) = 4
        /\ PutU32(Up4(v)) \in Bytes /\ Len(PutU32(Up4(v))) = 4
    BY <1>1, PutU32Is
  <1>3. PutI64(v) \in Bytes /\ Len(PutI64(v)) = Len(PutU32(v)) + Len(PutU32(Up4(v)))
    BY <1>2, BytesJoin DEF PutI64
  <1> QED BY <1>1, <1>2, <1>3

\* A 32-bit number is read where it was written.
LEMMA U32Read ==
  ASSUME NEW b \in Bytes, NEW i \in Nat, NEW v \in Words, Has(b, i, PutU32(v))
  PROVE  GetU32(b, i + 1) = v /\ v \in Nat /\ i + 4 \in Nat /\ i + 4 <= Len(b)
  <1>1. v \in Int /\ v \in Nat /\ Up4(v) = 0
    BY WordsAre DEF Words
  <1>2. Value(b, i + 1, 0) = v /\ i + 4 <= Len(b)
    BY <1>1, ValueIs
  <1> QED BY <1>1, <1>2 DEF GetU32

\* So is a 64-bit one, with its sign.
LEMMA I64Read ==
  ASSUME NEW b \in Bytes, NEW i \in Nat, NEW v \in Longs, Has(b, i, PutI64(v))
  PROVE  GetI64(b, i + 1) = v
  <1> DEFINE w == Up4(v)
             u == Up(Up(Up(w)))
  <1>1. v \in Int /\ u \in -128 .. 127 /\ w \in Int
    BY LongsAre, PutI64Is DEF Longs
  <1>2. u \in Int /\ (u % 256) + 256 * Up(u) = u /\ u % 256 \in 0 .. 255 /\ Up(u) \in Int
    <2>1. \A t \in -128 .. 127 : t \in Int
      OBVIOUS
    <2>2. u \in Int
      BY <1>1, <2>1
    <2> HIDE DEF u
    <2>3. Divided(u) /\ Up(u) \in Int
      BY <2>2, UpIs
    <2>4. (u % 256) + 256 * Up(u) = u /\ u % 256 \in 0 .. 255
      BY <2>3 DEF Divided, Byte
    <2> QED BY <2>2, <2>3, <2>4
  <1>3. Up4(w) = Up(u)
    BY DEF Up4
  <1>4. Has(b, i, PutU32(v)) /\ Has(b, i + 4, PutU32(w))
    <2>1. /\ PutU32(v) \in Bytes /\ Len(PutU32(v)) = 4 /\ PutU32(w) \in Bytes
          /\ Has(b, i, PutU32(v) \o PutU32(w))
      BY <1>1, PutU32Is DEF PutI64
    <2> QED BY <2>1, HasJoin
  <1>5. /\ Value(b, i + 1, w) = v
        /\ Value(b, i + 4 + 1, Up4(w)) = w
        /\ b[i + 4 + 4] = u % 256
    <2>1. i + 4 \in Nat
      OBVIOUS
    <2> HIDE DEF w
    <2>2. Value(b, i + 4 + 1, Up4(w)) = w /\ b[i + 4 + 4] = u % 256
      BY <1>1, <1>4, <2>1, ValueIs
    <2>3. Value(b, i + 1, Up4(v)) = v
      BY <1>1, <1>4, ValueIs
    <2> QED BY <2>2, <2>3 DEF w
  <1> HIDE DEF w, u
  <1>6. (IF u % 256 < 128 THEN 0 ELSE -1) = Up(u)
    BY <1>1, <1>2
  <1>7. (i + 1) + 4 = i + 4 + 1 /\ (i + 1) + 7 = i + 4 + 4
    OBVIOUS
  <1>8. Value(b, (i + 1) + 4, IF b[(i + 1) + 7] < 128 THEN 0 ELSE -1) = w
    BY <1>3, <1>5, <1>6, <1>7
  <1> QED BY <1>5, <1>8 DEF GetI64

\* The strings whose length fits its field.
Strings == {s \in Bytes : Len(s) \in Words}

\* A string is read where it was written, and what is behind it is found.
LEMMA StringRead ==
  ASSUME NEW b \in Bytes, NEW i \in Nat, NEW s \in Strings, Has(b, i, PutStr(s))
  PROVE  /\ GetU32(b, i + 1) = Len(s) /\ GetStr(b, i + 1) = s
         /\ After(b, i + 1) = i + 4 + Len(s) + 1 /\ i + 4 + Len(s) <= Len(b)
  <1>1. s \in Bytes /\ Len(s) \in Words /\ Len(s) \in Nat /\ Len(s) \in Int
    BY BytesAre DEF Strings
  <1>2. PutU32(Len(s)) \in Bytes /\ Len(PutU32(Len(s))) = 4
    BY <1>1, PutU32Is
  <1>3. /\ Has(b, i, PutU32(Len(s))) /\ Has(b, i + 4, s) /\ i + 4 \in Nat
        /\ i + 4 + Len(s) <= Len(b)
    BY <1>1, <1>2, HasJoin DEF PutStr
  <1>4. GetU32(b, i + 1) = Len(s)
    BY <1>1, <1>3, U32Read
  <1>5. SubSeq(b, i + 4 + 1, i + 4 + Len(s)) = s
    BY <1>1, <1>3, HasIs
  <1>6. (i + 1) + 4 = i + 4 + 1 /\ (i + 1) + 3 + Len(s) = i + 4 + Len(s)
        /\ (i + 1) + 4 + Len(s) = i + 4 + Len(s) + 1
    BY <1>1
  <1>7. GetStr(b, i + 1) = s
    BY <1>4, <1>5, <1>6 DEF GetStr
  <1> QED BY <1>3, <1>4, <1>6, <1>7 DEF After

LEMMA PutStrIs ==
  ASSUME NEW s \in Strings
  PROVE  PutStr(s) \in Bytes /\ Len(PutStr(s)) = 4 + Len(s) /\ Len(s) \in Nat
  <1>1. s \in Bytes /\ Len(s) \in Int
    BY BytesAre DEF Strings
  <1>2. PutU32(Len(s)) \in Bytes /\ Len(PutU32(Len(s))) = 4
    BY <1>1, PutU32Is
  <1>3. PutStr(s) \in Bytes /\ Len(PutStr(s)) = Len(PutU32(Len(s))) + Len(s)
    BY <1>1, <1>2, BytesJoin DEF PutStr
  <1> QED BY <1>1, <1>2, <1>3, BytesAre

-----------------------------------------------------------------------------
(* Fields and frames.                                                      *)

\* Numbers one after the other, eight bytes each.
LEMMA NumbersAre ==
  ASSUME NEW n \in Nat \ {0}, NEW ns \in [1 .. n -> Longs]
  PROVE  /\ Numbers(ns) \in Bytes /\ Len(Numbers(ns)) = 8 * n
         /\ \A k \in 1 .. n : Has(Numbers(ns), 8 * k - 8, PutI64(ns[k]))
  <1> DEFINE ss == [k \in DOMAIN ns |-> PutI64(ns[k])]
  <1>1. \A k \in 1 .. n : ss[k] = PutI64(ns[k]) /\ ss[k] \in Bytes /\ Len(ss[k]) = 8
    <2>1. \A k \in 1 .. n : ns[k] \in Int
      BY LongsAre
    <2> QED BY <2>1, PutI64Is
  <1>2. Len(ss) = n
    BY LenProperties, <1>1
  <1>3. Numbers(ns) = FlattenSeq(ss)
    BY DEF Numbers
  <1> HIDE DEF ss
  <1>4. PICK f : /\ f = [i \in 1 .. n |-> IF i = 1 THEN ss[i] ELSE f[i - 1] \o ss[i]]
                 /\ FlattenSeq(ss) = f[n]
    BY <1>2, FlattenIs
  <1> DEFINE Good == {i \in Nat : i + 1 <= n =>
                 /\ f[i + 1] \in Bytes /\ Len(f[i + 1]) = 8 * (i + 1)
                 /\ \A k \in 1 .. i + 1 : Has(f[i + 1], 8 * k - 8, ss[k])}
  <1>5. f[1] = ss[1] /\ \A i \in 1 .. n : i # 1 => f[i] = f[i - 1] \o ss[i]
    <2>1. 1 \in 1 .. n
      OBVIOUS
    <2> QED BY <1>4, <2>1
  <1>6. 0 \in Good
    <2>1. 1 \in 1 .. n /\ 0 + 1 = 1 /\ 8 * 1 - 8 = 0 /\ 8 * 1 = 8
      OBVIOUS
    <2>2. ss[1] \in Bytes /\ Len(ss[1]) = 8
      BY <1>1, <2>1
    <2>3. Has(ss[1], 0, ss[1])
      BY <2>2, HasAll
    <2>4. \A k \in 1 .. 1 : Has(f[1], 8 * k - 8, ss[k])
      <3>1. \A k \in 1 .. 1 : k = 1
        OBVIOUS
      <3> QED BY <1>5, <2>1, <2>3, <3>1, Zenon
    <2> QED BY <1>5, <2>1, <2>2, <2>4
  <1>7. ASSUME NEW i \in Nat, i \in Good
        PROVE  i + 1 \in Good
    <2>1. SUFFICES ASSUME (i + 1) + 1 <= n
                   PROVE  /\ f[(i + 1) + 1] \in Bytes /\ Len(f[(i + 1) + 1]) = 8 * ((i + 1) + 1)
                          /\ \A k \in 1 .. (i + 1) + 1 : Has(f[(i + 1) + 1], 8 * k - 8, ss[k])
      OBVIOUS
    <2> DEFINE m == i + 1
               x == f[m]
               y == ss[m + 1]
    <2>2. /\ m \in Nat /\ m <= n /\ m + 1 \in 1 .. n /\ m + 1 # 1 /\ (m + 1) - 1 = m
          /\ 8 * (m + 1) = 8 * m + 8 /\ 8 * (m + 1) - 8 = 8 * m
      BY <2>1
    <2>3. x \in Bytes /\ Len(x) = 8 * m /\ \A k \in 1 .. m : Has(x, 8 * k - 8, ss[k])
      BY <1>7, <2>2
    <2>4. y \in Bytes /\ Len(y) = 8
      BY <1>1, <2>2
    <2>5. f[m + 1] = x \o y
      BY <1>5, <2>2
    <2> HIDE DEF m, Good
    <2>6. x \o y \in Bytes /\ Len(x \o y) = 8 * (m + 1)
      <3>1. x \o y \in Bytes /\ Len(x \o y) = Len(x) + Len(y)
        BY <2>3, <2>4, BytesJoin
      <3> QED BY <2>2, <2>3, <2>4, <3>1
    <2>7. Has(x \o y, 0, x) /\ Has(x \o y, 8 * m, y)
      <3> HIDE DEF x, y
      <3>1. Has(x \o y, 0, x \o y)
        BY <2>6, HasAll
      <3>2. Has(x \o y, 0, x) /\ Has(x \o y, 0 + Len(x), y)
        BY <2>3, <2>4, <2>6, <3>1, HasJoin
      <3>3. 0 + Len(x) = 8 * m
        BY <2>2, <2>3
      <3> QED BY <3>2, <3>3
    <2>8. ASSUME NEW k \in 1 .. m + 1
          PROVE  Has(x \o y, 8 * k - 8, ss[k])
      <3>1. CASE k = m + 1
        BY <2>2, <2>7, <3>1
      <3>2. CASE k # m + 1
        <4> HIDE DEF x, y
        <4>1. k \in 1 .. m /\ 8 * k - 8 \in Nat /\ 0 + (8 * k - 8) = 8 * k - 8
          BY <2>2, <3>2
        <4>2. ss[k] \in Bytes
          BY <1>1, <2>2, <4>1
        <4>3. Has(x, 8 * k - 8, ss[k])
          BY <2>3, <4>1
        <4> QED BY <2>3, <2>6, <2>7, <4>1, <4>2, <4>3, HasWithin
      <3> QED BY <3>1, <3>2
    <2> QED BY <2>5, <2>6, <2>8 DEF m
  <1>8. \A i \in Nat : i \in Good
    <2> HIDE DEF Good
    <2> QED BY <1>6, <1>7, NatInductionOn
  <1> DEFINE m == n - 1
  <1>9. m \in Nat /\ m + 1 = n /\ m + 1 <= n
    OBVIOUS
  <1> HIDE DEF m
  <1>10. f[n] \in Bytes /\ Len(f[n]) = 8 * n /\ \A k \in 1 .. n : Has(f[n], 8 * k - 8, ss[k])
    <2>1. m \in Good
      BY <1>8, <1>9
    <2> QED BY <1>9, <2>1
  <1> HIDE DEF Good
  <1>11. \A k \in 1 .. n : Has(f[n], 8 * k - 8, PutI64(ns[k]))
    BY <1>1, <1>10
  <1> QED BY <1>3, <1>4, <1>10, <1>11

\* They are read where they were written.
LEMMA NumbersRead ==
  ASSUME NEW n \in Nat \ {0}, NEW ns \in [1 .. n -> Longs], NEW b \in Bytes, NEW i \in Nat,
         Has(b, i, Numbers(ns))
  PROVE  \A k \in 1 .. n : GetI64(b, i + 8 * k - 7) = ns[k]
  <1> SUFFICES ASSUME NEW k \in 1 .. n
               PROVE  GetI64(b, i + 8 * k - 7) = ns[k]
    OBVIOUS
  <1>1. Numbers(ns) \in Bytes /\ Has(Numbers(ns), 8 * k - 8, PutI64(ns[k]))
    BY NumbersAre
  <1>2. ns[k] \in Longs /\ PutI64(ns[k]) \in Bytes
    BY LongsAre, PutI64Is
  <1>3. 8 * k - 8 \in Nat /\ i + (8 * k - 8) \in Nat /\ i + (8 * k - 8) + 1 = i + 8 * k - 7
    OBVIOUS
  <1>4. Has(b, i + (8 * k - 8), PutI64(ns[k]))
    BY <1>1, <1>2, <1>3, HasWithin
  <1>5. GetI64(b, i + (8 * k - 8) + 1) = ns[k]
    BY <1>2, <1>3, <1>4, I64Read
  <1> QED BY <1>3, <1>5

\* The length of a frame, if it is there, is a number.
LEMMA LengthIs ==
  ASSUME NEW b \in Bytes, Len(b) >= 4
  PROVE  GetU32(b, 1) \in Nat
  <1>1. Len(b) \in Nat /\ \A i \in 1 .. Len(b) : b[i] \in Int /\ 0 <= b[i]
    BY BytesAre
  <1>2. 1 \in 1 .. Len(b) /\ 2 \in 1 .. Len(b) /\ 3 \in 1 .. Len(b) /\ 4 \in 1 .. Len(b)
    BY <1>1
  <1>3. b[1] \in Nat /\ b[2] \in Nat /\ b[3] \in Nat /\ b[4] \in Nat
    BY <1>1, <1>2
  <1>4. 1 + 1 = 2 /\ 1 + 2 = 3 /\ 1 + 3 = 4
    OBVIOUS
  <1>5. GetU32(b, 1) = b[1] + 256 * (b[2] + 256 * (b[3] + 256 * (b[4] + 256 * 0)))
    BY <1>4 DEF GetU32, Value
  <1> DEFINE w == b[1]
             x == b[2]
             y == b[3]
             z == b[4]
  <1>6. w \in Nat /\ x \in Nat /\ y \in Nat /\ z \in Nat
    BY <1>3
  <1>7. GetU32(b, 1) = w + 256 * (x + 256 * (y + 256 * (z + 256 * 0)))
    BY <1>5
  <1> HIDE DEF w, x, y, z
  <1> QED BY <1>6, <1>7, SMT

\* The front of bytes, and what is behind them.
LEMMA FrontIs ==
  ASSUME NEW b \in Bytes, NEW c \in Bytes, NEW n \in Nat, n <= Len(b)
  PROVE  SubSeq(b \o c, 5, n) = SubSeq(b, 5, n)
  <1>1. Len(b) \in Nat
    BY BytesAre
  <1>2. CASE n < 5
    <2>1. n \in Int /\ 5 \in Int
      OBVIOUS
    <2> QED BY <1>2, <2>1, SubSeqEmpty
  <1>3. CASE n >= 5
    <2>1. 5 \in 1 .. Len(b) /\ n \in 1 .. Len(b)
      BY <1>1, <1>3
    <2> QED BY <2>1, SubSeqOfConcat1 DEF Bytes
  <1> QED BY <1>2, <1>3

\* More bytes change nothing of a frame that is there whole.
LEMMA FrameStays ==
  ASSUME NEW b \in Bytes, NEW c \in Bytes, HasFrame(b)
  PROVE  /\ HasFrame(b \o c) /\ Body(b \o c) = Body(b) /\ GetU32(b \o c, 1) = GetU32(b, 1)
         /\ GetU32(b, 1) \in Nat /\ 4 + GetU32(b, 1) <= Len(b) /\ Body(b) \in Bytes
  <1>1. Len(b) \in Nat /\ Len(c) \in Nat /\ Len(b) >= 4 /\ Len(b) >= 4 + GetU32(b, 1)
    BY BytesAre DEF HasFrame
  <1>2. GetU32(b, 1) \in Nat
    BY <1>1, LengthIs
  <1> DEFINE d == b \o c
  <1>3. d \in Bytes /\ Len(d) = Len(b) + Len(c) /\ \A k \in 1 .. Len(b) : d[k] = b[k]
    BY JoinIs
  <1>4. SubSeq(d, 5, 4 + GetU32(b, 1)) = SubSeq(b, 5, 4 + GetU32(b, 1))
    BY <1>1, <1>2, FrontIs
  <1> HIDE DEF d
  <1>5. 1 \in 1 .. Len(b) /\ 2 \in 1 .. Len(b) /\ 3 \in 1 .. Len(b) /\ 4 \in 1 .. Len(b)
    BY <1>1
  <1>6. d[1] = b[1] /\ d[2] = b[2] /\ d[3] = b[3] /\ d[4] = b[4]
    BY <1>3, <1>5
  <1>7. 1 + 1 = 2 /\ 1 + 2 = 3 /\ 1 + 3 = 4
    OBVIOUS
  <1>8. GetU32(d, 1) = GetU32(b, 1)
    BY <1>6, <1>7 DEF GetU32, Value
  <1>9. HasFrame(d)
    BY <1>1, <1>2, <1>3, <1>8 DEF HasFrame
  <1>10. Body(d) = Body(b)
    BY <1>4, <1>8 DEF Body
  <1>11. Body(b) \in Bytes
    <2>1. 5 \in 1 .. Len(b) + 1 /\ 4 + GetU32(b, 1) \in Int
      BY <1>1, <1>2
    <2>2. \A k \in 5 .. 4 + GetU32(b, 1) : b[k] \in Byte
      <3>1. \A k \in 5 .. 4 + GetU32(b, 1) : k \in 1 .. Len(b)
        BY <1>1, <1>2
      <3> QED BY <3>1 DEF Bytes
    <2> QED BY <1>1, <1>2, SubSeqProperties DEF Body, Bytes
  <1> QED BY <1>1, <1>2, <1>8, <1>9, <1>10, <1>11 DEF d

\* The frame of a body is found at the front of what comes.
LEMMA FrameRead ==
  ASSUME NEW body \in Strings, NEW rest \in Bytes
  PROVE  LET w == LengthPrefixed(body)
         IN  /\ w \in Bytes /\ Len(w) = 4 + Len(body) /\ Len(body) \in Nat
             /\ HasFrame(w \o rest) /\ Body(w \o rest) = body
             /\ GetU32(w \o rest, 1) = Len(body)
  <1> DEFINE w == LengthPrefixed(body)
  <1>1. w = PutStr(body)
    BY DEF LengthPrefixed, PutStr
  <1>2. w \in Bytes /\ Len(w) = 4 + Len(body) /\ Len(body) \in Nat
    BY <1>1, PutStrIs
  <1>3. Has(w, 0, w)
    BY <1>2, HasAll
  <1>4. GetU32(w, 0 + 1) = Len(body) /\ GetStr(w, 0 + 1) = body
    BY <1>1, <1>2, <1>3, StringRead
  <1> HIDE DEF w
  <1>5. 0 + 1 = 1 /\ 1 + 4 = 5 /\ 1 + 3 = 4
    OBVIOUS
  <1>6. GetU32(w, 1) = Len(body) /\ SubSeq(w, 5, 4 + Len(body)) = body
    BY <1>4, <1>5 DEF GetStr
  <1>7. HasFrame(w) /\ Body(w) = body
    BY <1>2, <1>6 DEF HasFrame, Body
  <1>8. HasFrame(w \o rest) /\ Body(w \o rest) = body /\ GetU32(w \o rest, 1) = Len(body)
    BY <1>2, <1>6, <1>7, FrameStays
  <1> QED BY <1>2, <1>8 DEF w

-----------------------------------------------------------------------------
(* Objects and control messages.                                           *)

\* The objects that a frame can carry: its fields hold their numbers.
ObjectMessages ==
  {f \in [trackId : Longs, groupId : Longs, subgroupId : Longs, objectId : Longs,
          priority : Longs, payloadLength : Longs \cap Nat, creationTime : Longs,
          trackAlias : Bytes] : 60 + Len(f.trackAlias) + f.payloadLength \in Words}

\* And the control messages.
ControlMessages ==
  {c \in [type : Byte, trackId : Longs, publisherId : Longs, priority : Longs,
          payloadSize : Longs, startObjectId : Longs, subscriberPriority : Longs,
          statusCode : Longs, sendInterval : Longs, deliveryTimeout : Longs,
          trackNamespace : Bytes, trackName : Bytes, trackAlias : Bytes, subscriberId : Bytes] :
     89 + Len(c.trackNamespace) + Len(c.trackName) + Len(c.trackAlias) + Len(c.subscriberId)
       \in Words}

\* An object comes out of its frame as it went in, whatever is behind it.
LEMMA ObjectRead ==
  ASSUME NEW f \in ObjectMessages
  PROVE  /\ Encode(f) \in Bytes
         /\ Len(Encode(f)) = 64 + Len(f.trackAlias) + f.payloadLength
         /\ f \in {ObjectIn(b) : b \in Bytes}
         /\ \A rest \in Bytes :
              TryParse(Encode(f) \o rest) = [consumed |-> Len(Encode(f)), frames |-> <<f>>]
  <1> DEFINE ns == <<f.trackId, f.groupId, f.subgroupId, f.objectId, f.priority,
                     f.payloadLength, f.creationTime>>
             s  == f.trackAlias
             p  == f.payloadLength
             x  == Numbers(ns)
             y  == PutStr(s)
             z  == [i \in 1 .. f.payloadLength |-> 0]
             w  == x \o y
             body == w \o z
  <1>1. /\ f = [trackId |-> f.trackId, groupId |-> f.groupId, subgroupId |-> f.subgroupId,
                objectId |-> f.objectId, priority |-> f.priority,
                payloadLength |-> f.payloadLength, creationTime |-> f.creationTime,
                trackAlias |-> f.trackAlias]
        /\ f.trackId \in Longs /\ f.groupId \in Longs /\ f.subgroupId \in Longs
        /\ f.objectId \in Longs /\ f.priority \in Longs /\ f.payloadLength \in Longs
        /\ f.creationTime \in Longs
        /\ p \in Nat /\ s \in Bytes /\ 60 + Len(s) + p \in Words
    BY DEF ObjectMessages
  <1>2. s \in Strings /\ Len(s) \in Nat
    <2>1. Len(s) \in Nat
      BY <1>1, BytesAre
    <2>2. Len(s) <= 60 + Len(s) + p
      BY <1>1, <2>1
    <2>3. Len(s) \in Words
      BY <1>1, <2>1, <2>2, WordsAre
    <2> QED BY <1>1, <2>1, <2>3 DEF Strings
  <1>3. ns \in [1 .. 7 -> Longs]
    BY <1>1
  <1>4. /\ ns[1] = f.trackId /\ ns[2] = f.groupId /\ ns[3] = f.subgroupId /\ ns[4] = f.objectId
        /\ ns[5] = f.priority /\ ns[6] = f.payloadLength /\ ns[7] = f.creationTime
    OBVIOUS
  <1>5. Encode(f) = LengthPrefixed(body)
    BY DEF Encode
  <1> HIDE DEF ns
  <1>6. x \in Bytes /\ Len(x) = 56
    <2>0. 7 \in Nat \ {0}
      OBVIOUS
    <2>1. Len(x) = 8 * 7 /\ x \in Bytes
      BY <1>3, <2>0, NumbersAre DEF x
    <2> QED BY <2>1
  <1>7. y \in Bytes /\ Len(y) = 4 + Len(s)
    BY <1>2, PutStrIs
  <1>8. z \in Bytes /\ Len(z) = p
    <2>1. 0 \in Byte
      BY InByte
    <2> QED BY <1>1, <2>1, BytesOf
  <1> HIDE DEF x, y, z, s, p
  <1>9. w \in Bytes /\ Len(w) = 60 + Len(s)
    <2>1. w \in Bytes /\ Len(w) = Len(x) + Len(y)
      BY <1>6, <1>7, BytesJoin
    <2> QED BY <1>2, <1>6, <1>7, <2>1
  <1>10. body \in Bytes /\ Len(body) = 60 + Len(s) + p
    <2> HIDE DEF w
    <2>1. body \in Bytes /\ Len(body) = Len(w) + Len(z)
      BY <1>8, <1>9, BytesJoin
    <2> QED BY <1>8, <1>9, <2>1
  <1>11. Has(body, 0, x) /\ Has(body, 56, y)
    <2> DEFINE b == body
    <2>1. Has(b, 0, body)
      BY <1>10, HasAll
    <2>2. b \in Bytes
      BY <1>10
    <2> HIDE DEF b
    <2>3. Has(b, 0, w)
      <3> HIDE DEF w
      <3> QED BY <1>8, <1>9, <2>1, <2>2, HasJoin
    <2>4. Has(b, 0, x) /\ Has(b, 0 + Len(x), y)
      BY <1>6, <1>7, <2>2, <2>3, HasJoin
    <2>5. 0 + Len(x) = 56
      BY <1>6
    <2> QED BY <2>4, <2>5 DEF b
  <1> HIDE DEF body
  <1>12. ObjectIn(body) = f
    <2>0. 7 \in Nat \ {0} /\ 0 \in Nat
      OBVIOUS
    <2>1. \A k \in 1 .. 7 : GetI64(body, 0 + 8 * k - 7) = ns[k]
      BY <1>3, <1>10, <1>11, <2>0, NumbersRead DEF x
    <2>2. \A k \in 1 .. 7 : GetI64(body, 8 * k - 7) = ns[k]
      <3>1. \A k \in 1 .. 7 : 0 + 8 * k - 7 = 8 * k - 7
        OBVIOUS
      <3> QED BY <2>1, <3>1
    <2>3. /\ 1 \in 1 .. 7 /\ 2 \in 1 .. 7 /\ 3 \in 1 .. 7 /\ 4 \in 1 .. 7 /\ 5 \in 1 .. 7
          /\ 6 \in 1 .. 7 /\ 7 \in 1 .. 7
      OBVIOUS
    <2>4. /\ GetI64(body, 8 * 1 - 7) = f.trackId /\ GetI64(body, 8 * 2 - 7) = f.groupId
          /\ GetI64(body, 8 * 3 - 7) = f.subgroupId /\ GetI64(body, 8 * 4 - 7) = f.objectId
          /\ GetI64(body, 8 * 5 - 7) = f.priority /\ GetI64(body, 8 * 6 - 7) = f.payloadLength
          /\ GetI64(body, 8 * 7 - 7) = f.creationTime
      BY <1>4, <2>2, <2>3
    <2>5. GetStr(body, 57) = s
      <3>1. GetStr(body, 56 + 1) = s /\ 56 + 1 = 57
        BY <1>2, <1>10, <1>11, StringRead DEF y
      <3> QED BY <3>1
    <2> QED BY <1>1, <2>4, <2>5 DEF ObjectIn, s
  <1>13. body \in Strings
    BY <1>1, <1>10 DEF Strings, s, p
  <1>14. Encode(f) \in Bytes /\ Len(Encode(f)) = 4 + Len(body)
    <2>1. <<>> \in Bytes
      BY DEF Bytes
    <2> QED BY <1>5, <1>13, <2>1, FrameRead
  <1>15. ASSUME NEW rest \in Bytes
         PROVE  TryParse(Encode(f) \o rest) = [consumed |-> Len(Encode(f)), frames |-> <<f>>]
    <2>1. /\ HasFrame(Encode(f) \o rest) /\ Body(Encode(f) \o rest) = body
          /\ GetU32(Encode(f) \o rest, 1) = Len(body)
      BY <1>5, <1>13, FrameRead
    <2> QED BY <1>12, <1>14, <2>1 DEF TryParse, Took
  <1>16. Len(Encode(f)) = 64 + Len(f.trackAlias) + f.payloadLength
    BY <1>1, <1>2, <1>10, <1>14 DEF s, p
  <1> QED BY <1>10, <1>12, <1>14, <1>15, <1>16

\* And a control message.
LEMMA ControlRead ==
  ASSUME NEW c \in ControlMessages
  PROVE  /\ EncodeControl(c) \in Bytes
         /\ Len(EncodeControl(c)) = 93 + Len(c.trackNamespace) + Len(c.trackName)
                                       + Len(c.trackAlias) + Len(c.subscriberId)
         /\ c \in {ControlIn(b) : b \in Bytes}
         /\ \A rest \in Bytes : TryParseControl(EncodeControl(c) \o rest)
                                  = [consumed |-> Len(EncodeControl(c)), frames |-> <<c>>]
  <1> DEFINE ns == <<c.trackId, c.publisherId, c.priority, c.payloadSize,
                     c.startObjectId, c.subscriberPriority, c.statusCode,
                     c.sendInterval, c.deliveryTimeout>>
             a1 == c.trackNamespace
             a2 == c.trackName
             a3 == c.trackAlias
             a4 == c.subscriberId
             t  == <<c.type>>
             x  == Numbers(ns)
             p1 == PutStr(a1)
             p2 == PutStr(a2)
             p3 == PutStr(a3)
             p4 == PutStr(a4)
             b0 == t \o x
             b1 == b0 \o p1
             b2 == b1 \o p2
             b3 == b2 \o p3
             body == b3 \o p4
             l1 == Len(a1)
             l2 == Len(a2)
             l3 == Len(a3)
             l4 == Len(a4)
  <1>1. /\ c = [type |-> c.type, trackId |-> c.trackId, publisherId |-> c.publisherId,
                priority |-> c.priority, payloadSize |-> c.payloadSize,
                startObjectId |-> c.startObjectId, subscriberPriority |-> c.subscriberPriority,
                statusCode |-> c.statusCode, sendInterval |-> c.sendInterval,
                deliveryTimeout |-> c.deliveryTimeout, trackNamespace |-> c.trackNamespace,
                trackName |-> c.trackName, trackAlias |-> c.trackAlias,
                subscriberId |-> c.subscriberId]
        /\ c.type \in Byte
        /\ c.trackId \in Longs /\ c.publisherId \in Longs /\ c.priority \in Longs
        /\ c.payloadSize \in Longs /\ c.startObjectId \in Longs
        /\ c.subscriberPriority \in Longs /\ c.statusCode \in Longs
        /\ c.sendInterval \in Longs /\ c.deliveryTimeout \in Longs
        /\ a1 \in Bytes /\ a2 \in Bytes /\ a3 \in Bytes /\ a4 \in Bytes
        /\ 89 + l1 + l2 + l3 + l4 \in Words
    BY DEF ControlMessages
  <1>2. l1 \in Nat /\ l2 \in Nat /\ l3 \in Nat /\ l4 \in Nat
    BY <1>1, BytesAre
  <1>3. ns \in [1 .. 9 -> Longs]
    BY <1>1
  <1>4. /\ ns[1] = c.trackId /\ ns[2] = c.publisherId /\ ns[3] = c.priority
        /\ ns[4] = c.payloadSize /\ ns[5] = c.startObjectId /\ ns[6] = c.subscriberPriority
        /\ ns[7] = c.statusCode /\ ns[8] = c.sendInterval /\ ns[9] = c.deliveryTimeout
    OBVIOUS
  <1>5. EncodeControl(c) = LengthPrefixed(body)
    BY DEF EncodeControl
  <1>6. t \in Bytes /\ Len(t) = 1 /\ t[1] = c.type
    BY <1>1 DEF Bytes
  <1> HIDE DEF ns, a1, a2, a3, a4, t
  <1>7. a1 \in Strings /\ a2 \in Strings /\ a3 \in Strings /\ a4 \in Strings
    <2> HIDE DEF l1, l2, l3, l4
    <2>1. /\ l1 <= 89 + l1 + l2 + l3 + l4 /\ l2 <= 89 + l1 + l2 + l3 + l4
          /\ l3 <= 89 + l1 + l2 + l3 + l4 /\ l4 <= 89 + l1 + l2 + l3 + l4
      BY <1>2
    <2>2. l1 \in Words /\ l2 \in Words /\ l3 \in Words /\ l4 \in Words
      BY <1>1, <1>2, <2>1, WordsAre
    <2> QED BY <1>1, <2>2 DEF Strings, l1, l2, l3, l4
  <1>8. x \in Bytes /\ Len(x) = 72
    <2>0. 9 \in Nat \ {0}
      OBVIOUS
    <2>1. Len(x) = 8 * 9 /\ x \in Bytes
      BY <1>3, <2>0, NumbersAre DEF x
    <2> QED BY <2>1
  <1>9. /\ p1 \in Bytes /\ Len(p1) = 4 + l1 /\ p2 \in Bytes /\ Len(p2) = 4 + l2
        /\ p3 \in Bytes /\ Len(p3) = 4 + l3 /\ p4 \in Bytes /\ Len(p4) = 4 + l4
    BY <1>7, PutStrIs
  <1> HIDE DEF x, p1, p2, p3, p4, l1, l2, l3, l4
  <1>10. b0 \in Bytes /\ Len(b0) = 73
    <2>1. b0 \in Bytes /\ Len(b0) = Len(t) + Len(x)
      BY <1>6, <1>8, BytesJoin
    <2> QED BY <1>6, <1>8, <2>1
  <1>11. b1 \in Bytes /\ Len(b1) = 77 + l1
    <2> HIDE DEF b0
    <2>1. b1 \in Bytes /\ Len(b1) = Len(b0) + Len(p1)
      BY <1>9, <1>10, BytesJoin
    <2> QED BY <1>2, <1>9, <1>10, <2>1
  <1>12. b2 \in Bytes /\ Len(b2) = 81 + l1 + l2
    <2> HIDE DEF b1
    <2>1. b2 \in Bytes /\ Len(b2) = Len(b1) + Len(p2)
      BY <1>9, <1>11, BytesJoin
    <2> QED BY <1>2, <1>9, <1>11, <2>1
  <1>13. b3 \in Bytes /\ Len(b3) = 85 + l1 + l2 + l3
    <2> HIDE DEF b2
    <2>1. b3 \in Bytes /\ Len(b3) = Len(b2) + Len(p3)
      BY <1>9, <1>12, BytesJoin
    <2> QED BY <1>2, <1>9, <1>12, <2>1
  <1>14. body \in Bytes /\ Len(body) = 89 + l1 + l2 + l3 + l4
    <2> HIDE DEF b3
    <2>1. body \in Bytes /\ Len(body) = Len(b3) + Len(p4)
      BY <1>9, <1>13, BytesJoin
    <2> QED BY <1>2, <1>9, <1>13, <2>1
  <1>15. /\ Has(body, 0, t) /\ Has(body, 1, x) /\ Has(body, 73, p1)
         /\ Has(body, 77 + l1, p2) /\ Has(body, 81 + l1 + l2, p3)
         /\ Has(body, 85 + l1 + l2 + l3, p4)
    <2> DEFINE b == body
    <2>1. Has(b, 0, body) /\ b \in Bytes
      BY <1>14, HasAll
    <2> HIDE DEF b
    <2>2. Has(b, 0, b3) /\ Has(b, 0 + Len(b3), p4)
      <3> HIDE DEF b3
      <3> QED BY <1>9, <1>13, <2>1, HasJoin
    <2>3. Has(b, 0, b2) /\ Has(b, 0 + Len(b2), p3)
      <3> HIDE DEF b2
      <3> QED BY <1>9, <1>12, <2>1, <2>2, HasJoin
    <2>4. Has(b, 0, b1) /\ Has(b, 0 + Len(b1), p2)
      <3> HIDE DEF b1
      <3> QED BY <1>9, <1>11, <2>1, <2>3, HasJoin
    <2>5. Has(b, 0, b0) /\ Has(b, 0 + Len(b0), p1)
      <3> HIDE DEF b0
      <3> QED BY <1>9, <1>10, <2>1, <2>4, HasJoin
    <2>6. Has(b, 0, t) /\ Has(b, 0 + Len(t), x)
      BY <1>6, <1>8, <2>1, <2>5, HasJoin
    <2> HIDE DEF b0, b1, b2, b3
    <2>7. /\ 0 + Len(t) = 1 /\ 0 + Len(b0) = 73 /\ 0 + Len(b1) = 77 + l1
          /\ 0 + Len(b2) = 81 + l1 + l2 /\ 0 + Len(b3) = 85 + l1 + l2 + l3
      BY <1>2, <1>6, <1>10, <1>11, <1>12, <1>13
    <2> QED BY <2>2, <2>3, <2>4, <2>5, <2>6, <2>7 DEF b
  <1> HIDE DEF body, b0, b1, b2, b3
  <1>16. ControlIn(body) = c
    <2>0. 9 \in Nat \ {0} /\ 1 \in Nat
      OBVIOUS
    <2>1. \A k \in 1 .. 9 : GetI64(body, 1 + 8 * k - 7) = ns[k]
      BY <1>3, <1>14, <1>15, <2>0, NumbersRead DEF x
    <2>2. \A k \in 1 .. 9 : GetI64(body, 8 * k - 6) = ns[k]
      <3>1. \A k \in 1 .. 9 : 1 + 8 * k - 7 = 8 * k - 6
        OBVIOUS
      <3> QED BY <2>1, <3>1
    <2>3. /\ 1 \in 1 .. 9 /\ 2 \in 1 .. 9 /\ 3 \in 1 .. 9 /\ 4 \in 1 .. 9 /\ 5 \in 1 .. 9
          /\ 6 \in 1 .. 9 /\ 7 \in 1 .. 9 /\ 8 \in 1 .. 9 /\ 9 \in 1 .. 9
      OBVIOUS
    <2>4. /\ GetI64(body, 8 * 1 - 6) = c.trackId /\ GetI64(body, 8 * 2 - 6) = c.publisherId
          /\ GetI64(body, 8 * 3 - 6) = c.priority /\ GetI64(body, 8 * 4 - 6) = c.payloadSize
          /\ GetI64(body, 8 * 5 - 6) = c.startObjectId
          /\ GetI64(body, 8 * 6 - 6) = c.subscriberPriority
          /\ GetI64(body, 8 * 7 - 6) = c.statusCode /\ GetI64(body, 8 * 8 - 6) = c.sendInterval
          /\ GetI64(body, 8 * 9 - 6) = c.deliveryTimeout
      BY <1>4, <2>2, <2>3
    <2>5. body[1] = c.type
      <3>1. \A k \in 1 .. 1 : body[0 + k] = t[k]
        BY <1>6, <1>15 DEF Has
      <3>2. 1 \in 1 .. 1 /\ 0 + 1 = 1
        OBVIOUS
      <3> QED BY <1>6, <3>1, <3>2
    <2>6. /\ 73 + 1 = 74 /\ 73 + 4 + l1 + 1 = 77 + l1 + 1
          /\ 77 + l1 + 4 + l2 + 1 = 81 + l1 + l2 + 1
          /\ 81 + l1 + l2 + 4 + l3 + 1 = 85 + l1 + l2 + l3 + 1
          /\ 77 + l1 \in Nat /\ 81 + l1 + l2 \in Nat /\ 85 + l1 + l2 + l3 \in Nat
      BY <1>2
    <2>S. ASSUME NEW a \in Strings, NEW i \in Nat, Has(body, i, PutStr(a))
          PROVE  GetStr(body, i + 1) = a /\ After(body, i + 1) = i + 4 + Len(a) + 1
      BY <1>14, <2>S, StringRead
    <2>7. GetStr(body, 74) = a1 /\ After(body, 74) = 77 + l1 + 1
      <3>1. GetStr(body, 73 + 1) = a1 /\ After(body, 73 + 1) = 73 + 4 + l1 + 1
        BY <1>7, <1>15, <2>S DEF p1, l1
      <3> QED BY <2>6, <3>1
    <2>8. GetStr(body, 77 + l1 + 1) = a2 /\ After(body, 77 + l1 + 1) = 81 + l1 + l2 + 1
      <3>1. /\ GetStr(body, 77 + l1 + 1) = a2
            /\ After(body, 77 + l1 + 1) = 77 + l1 + 4 + l2 + 1
        BY <1>7, <1>15, <2>6, <2>S DEF p2, l2
      <3> QED BY <2>6, <3>1
    <2>9. /\ GetStr(body, 81 + l1 + l2 + 1) = a3
          /\ After(body, 81 + l1 + l2 + 1) = 85 + l1 + l2 + l3 + 1
      <3>1. /\ GetStr(body, 81 + l1 + l2 + 1) = a3
            /\ After(body, 81 + l1 + l2 + 1) = 81 + l1 + l2 + 4 + l3 + 1
        BY <1>7, <1>15, <2>6, <2>S DEF p3, l3
      <3> QED BY <2>6, <3>1
    <2>10. GetStr(body, 85 + l1 + l2 + l3 + 1) = a4
      BY <1>7, <1>15, <2>6, <2>S DEF p4, l4
    <2> DEFINE o == After(body, 74)
               q == After(body, o)
               r == After(body, q)
    <2>11. GetStr(body, o) = a2 /\ GetStr(body, q) = a3 /\ GetStr(body, r) = a4
      BY <2>7, <2>8, <2>9, <2>10
    <2>12. ControlIn(body) =
             [type |-> body[1], trackId |-> GetI64(body, 8 * 1 - 6),
              publisherId |-> GetI64(body, 8 * 2 - 6), priority |-> GetI64(body, 8 * 3 - 6),
              payloadSize |-> GetI64(body, 8 * 4 - 6),
              startObjectId |-> GetI64(body, 8 * 5 - 6),
              subscriberPriority |-> GetI64(body, 8 * 6 - 6),
              statusCode |-> GetI64(body, 8 * 7 - 6), sendInterval |-> GetI64(body, 8 * 8 - 6),
              deliveryTimeout |-> GetI64(body, 8 * 9 - 6),
              trackNamespace |-> GetStr(body, 74), trackName |-> GetStr(body, o),
              trackAlias |-> GetStr(body, q), subscriberId |-> GetStr(body, r)]
      BY DEF ControlIn
    <2> HIDE DEF o, q, r
    <2>13. ControlIn(body) =
             [type |-> c.type, trackId |-> c.trackId, publisherId |-> c.publisherId,
                priority |-> c.priority, payloadSize |-> c.payloadSize,
                startObjectId |-> c.startObjectId, subscriberPriority |-> c.subscriberPriority,
                statusCode |-> c.statusCode, sendInterval |-> c.sendInterval,
                deliveryTimeout |-> c.deliveryTimeout, trackNamespace |-> a1,
                trackName |-> a2, trackAlias |-> a3, subscriberId |-> a4]
      BY <2>4, <2>5, <2>7, <2>11, <2>12, Zenon
    <2> QED BY <1>1, <2>13, Zenon DEF a1, a2, a3, a4
  <1>17. body \in Strings
    BY <1>1, <1>14 DEF Strings
  <1>18. EncodeControl(c) \in Bytes /\ Len(EncodeControl(c)) = 4 + Len(body)
    <2>1. <<>> \in Bytes
      BY DEF Bytes
    <2> QED BY <1>5, <1>17, <2>1, FrameRead
  <1>19. ASSUME NEW rest \in Bytes
         PROVE  TryParseControl(EncodeControl(c) \o rest)
                  = [consumed |-> Len(EncodeControl(c)), frames |-> <<c>>]
    <2>1. /\ HasFrame(EncodeControl(c) \o rest) /\ Body(EncodeControl(c) \o rest) = body
          /\ GetU32(EncodeControl(c) \o rest, 1) = Len(body)
      BY <1>5, <1>17, FrameRead
    <2> QED BY <1>16, <1>18, <2>1 DEF TryParseControl, Took
  <1>20. 4 + Len(body) = 93 + l1 + l2 + l3 + l4
    BY <1>2, <1>14
  <1> QED BY <1>14, <1>16, <1>18, <1>19, <1>20, ZenonT(30) DEF l1, l2, l3, l4, a1, a2, a3, a4

-----------------------------------------------------------------------------
(* Envelopes on a TCP stream.                                              *)

\* The frames that the parser can return.
AnyFrames == {ObjectIn(b) : b \in Bytes} \cup {ControlIn(b) : b \in Bytes}

\* w is the envelope of message m.
Enveloped(w, m) ==
  \/ m \in ObjectMessages /\ w = EncodeEnvelope(MSG_OBJECT, Encode(m))
  \/ m \in ControlMessages /\ w = EncodeEnvelope(MSG_CONTROL, EncodeControl(m))

\* What TryParse and TryParseControl return.
LEMMA TryParseIs ==
  ASSUME NEW a \in Bytes
  PROVE  /\ ~HasFrame(a) => TryParse(a) = NotYet /\ TryParseControl(a) = NotYet
         /\ HasFrame(a) =>
              LET n == 4 + GetU32(a, 1)
              IN  /\ n \in Nat /\ n # 0 /\ n <= Len(a)
                  /\ TryParse(a) = [consumed |-> n, frames |-> <<ObjectIn(Body(a))>>]
                  /\ TryParseControl(a) = [consumed |-> n, frames |-> <<ControlIn(Body(a))>>]
                  /\ <<ObjectIn(Body(a))>> \in Seq(AnyFrames)
                  /\ <<ControlIn(Body(a))>> \in Seq(AnyFrames)
  <1>1. ASSUME ~HasFrame(a)
        PROVE  TryParse(a) = NotYet /\ TryParseControl(a) = NotYet
    BY <1>1 DEF TryParse, TryParseControl
  <1>2. ASSUME HasFrame(a)
        PROVE  LET n == 4 + GetU32(a, 1)
               IN  /\ n \in Nat /\ n # 0 /\ n <= Len(a)
                   /\ TryParse(a) = [consumed |-> n, frames |-> <<ObjectIn(Body(a))>>]
                   /\ TryParseControl(a) = [consumed |-> n, frames |-> <<ControlIn(Body(a))>>]
                   /\ <<ObjectIn(Body(a))>> \in Seq(AnyFrames)
                   /\ <<ControlIn(Body(a))>> \in Seq(AnyFrames)
    <2>1. GetU32(a, 1) \in Nat /\ 4 + GetU32(a, 1) <= Len(a) /\ Body(a) \in Bytes
      BY <1>2, FrameStays
    <2>2. 4 + GetU32(a, 1) \in Nat /\ 4 + GetU32(a, 1) # 0
      BY <2>1
    <2>3. /\ TryParse(a) = [consumed |-> 4 + GetU32(a, 1), frames |-> <<ObjectIn(Body(a))>>]
          /\ TryParseControl(a)
               = [consumed |-> 4 + GetU32(a, 1), frames |-> <<ControlIn(Body(a))>>]
      BY <1>2 DEF TryParse, TryParseControl, Took
    <2>4. ObjectIn(Body(a)) \in AnyFrames /\ ControlIn(Body(a)) \in AnyFrames
      BY <2>1 DEF AnyFrames
    <2>5. \A x \in AnyFrames : <<x>> \in Seq(AnyFrames)
      OBVIOUS
    <2> QED BY <2>1, <2>2, <2>3, <2>4, <2>5
  <1> QED BY <1>1, <1>2

\* The parts of an envelope.
LEMMA TailIs ==
  ASSUME NEW b \in Bytes, b # <<>>
  PROVE  /\ Tail(b) \in Bytes /\ Len(Tail(b)) = Len(b) - 1 /\ Len(b) \in Nat \ {0}
         /\ \A c \in Bytes : /\ b \o c \in Bytes /\ b \o c # <<>> /\ (b \o c)[1] = b[1]
                             /\ Tail(b \o c) = Tail(b) \o c
  <1>1. Tail(b) \in Bytes /\ Len(Tail(b)) = Len(b) - 1 /\ Len(b) \in Nat /\ Len(b) # 0
    BY HeadTailProperties, BytesAre DEF Bytes
  <1>2. ASSUME NEW c \in Bytes
        PROVE  /\ b \o c \in Bytes /\ b \o c # <<>> /\ (b \o c)[1] = b[1]
               /\ Tail(b \o c) = Tail(b) \o c
    <2>1. /\ b \o c \in Bytes /\ Len(b \o c) = Len(b) + Len(c) /\ Len(c) \in Nat
          /\ \A k \in 1 .. Len(b) : (b \o c)[k] = b[k]
      BY JoinIs, BytesAre
    <2>2. 1 \in 1 .. Len(b) /\ 1 \in 0 .. Len(b)
      BY <1>1
    <2> DEFINE d == b \o c
    <2> HIDE DEF d
    <2>3. d \in Bytes /\ Len(d) # 0 /\ d[1] = b[1]
      BY <1>1, <2>1, <2>2 DEF d
    <2>4. d # <<>>
      BY <2>3
    <2>5. Tail(d) = Behind(d, 1) /\ Tail(b) = Behind(b, 1)
      BY <2>3, <2>4, TailIsSubSeq DEF Bytes, Behind
    <2>6. Behind(d, 1) = Behind(b, 1) \o c
      BY <2>2, BehindConcat DEF Bytes, d
    <2> QED BY <2>3, <2>4, <2>5, <2>6 DEF d
  <1> QED BY <1>1, <1>2

\* What TryParseEnvelope returns, and that more bytes change nothing of it.
LEMMA EnvelopeIs ==
  ASSUME NEW b \in Bytes
  PROVE  LET r == TryParseEnvelope(b)
         IN  /\ r \in [consumed : Nat, frames : Seq(AnyFrames)] /\ r.consumed <= Len(b)
             /\ r.consumed # 0 => \A c \in Bytes : TryParseEnvelope(b \o c) = r
  <1> DEFINE R == [consumed : Nat, frames : Seq(AnyFrames)]
  <1>1. Len(b) \in Nat
    BY BytesAre
  <1>2. NotYet \in R /\ NotYet.consumed = 0 /\ NotYet.consumed <= Len(b)
    BY <1>1 DEF NotYet
  <1>3. CASE b = <<>>
    BY <1>2, <1>3 DEF TryParseEnvelope
  <1>4. CASE b # <<>> /\ b[1] \notin {MSG_CONTROL, MSG_OBJECT}
    <2> DEFINE r == [consumed |-> 1, frames |-> <<>>]
    <2>1. r \in R /\ r.consumed = 1
      OBVIOUS
    <2>2. TryParseEnvelope(b) = r /\ \A c \in Bytes : TryParseEnvelope(b \o c) = r
      BY <1>4, TailIs DEF TryParseEnvelope
    <2>3. 1 <= Len(b)
      BY <1>1, <1>4, TailIs
    <2> HIDE DEF r
    <2> QED BY <2>1, <2>2, <2>3
  <1>5. CASE b # <<>> /\ b[1] \in {MSG_CONTROL, MSG_OBJECT}
    <2> DEFINE a == Tail(b)
               Inner(x) == IF b[1] = MSG_CONTROL THEN TryParseControl(x) ELSE TryParse(x)
    <2>1. a \in Bytes /\ Len(a) = Len(b) - 1
      BY <1>5, TailIs
    <2>2. TryParseEnvelope(b) = IF Inner(a).consumed = 0 THEN NotYet
                                ELSE [Inner(a) EXCEPT !.consumed = @ + 1]
      BY <1>5 DEF TryParseEnvelope
    <2>3. ASSUME NEW c \in Bytes
          PROVE  TryParseEnvelope(b \o c) = IF Inner(a \o c).consumed = 0 THEN NotYet
                                            ELSE [Inner(a \o c) EXCEPT !.consumed = @ + 1]
      <3>1. b \o c # <<>> /\ (b \o c)[1] = b[1] /\ Tail(b \o c) = a \o c
        BY <1>5, TailIs
      <3> DEFINE d == b \o c
                 e == a \o c
      <3>2. d # <<>> /\ d[1] = b[1] /\ Tail(d) = e
        BY <3>1
      <3> HIDE DEF d, e, a
      <3>3. TryParseEnvelope(d) = IF Inner(e).consumed = 0 THEN NotYet
                                  ELSE [Inner(e) EXCEPT !.consumed = @ + 1]
        BY <1>5, <3>2 DEF TryParseEnvelope
      <3> QED BY <3>3 DEF d, e
    <2>4. CASE ~HasFrame(a)
      <3>1. Inner(a) = NotYet
        BY <2>1, <2>4, TryParseIs
      <3>2. TryParseEnvelope(b) = NotYet
        BY <1>2, <2>2, <3>1
      <3> QED BY <1>2, <3>2
    <2>5. CASE HasFrame(a)
      <3> DEFINE n == 4 + GetU32(a, 1)
      <3>1. PICK fs \in Seq(AnyFrames) : /\ n \in Nat /\ n # 0 /\ n <= Len(a)
                                         /\ Inner(a) = [consumed |-> n, frames |-> fs]
        BY <2>1, <2>5, TryParseIs
      <3>2. \A c \in Bytes : Inner(a \o c) = Inner(a)
        <4>1. SUFFICES ASSUME NEW c \in Bytes
                       PROVE  Inner(a \o c) = Inner(a)
          OBVIOUS
        <4>2. /\ HasFrame(a \o c) /\ Body(a \o c) = Body(a) /\ GetU32(a \o c, 1) = GetU32(a, 1)
          BY <2>1, <2>5, FrameStays
        <4> QED BY <2>5, <4>2 DEF TryParse, TryParseControl, Took
      <3> HIDE DEF n, Inner
      <3>3. /\ Inner(a).consumed = n
            /\ [Inner(a) EXCEPT !.consumed = @ + 1] = [consumed |-> n + 1, frames |-> fs]
        BY <3>1
      <3> DEFINE r == [consumed |-> n + 1, frames |-> fs]
      <3>4. TryParseEnvelope(b) = r
        BY <2>2, <3>1, <3>3
      <3>5. \A c \in Bytes : TryParseEnvelope(b \o c) = r
        BY <2>3, <3>1, <3>2, <3>3
      <3>6. r \in R /\ r.consumed <= Len(b)
        BY <1>1, <2>1, <3>1
      <3> HIDE DEF r
      <3> QED BY <3>4, <3>5, <3>6
    <2> QED BY <2>4, <2>5
  <1> QED BY <1>3, <1>4, <1>5

\* TryParseEnvelope takes no more than there is, and does not change its mind when more comes.
LEMMA ParseIs == Parse \in Parsers(AnyFrames)
  <1>1. Parse = [b \in Bytes |-> Parse[b]] /\ \A b \in Bytes : Parse[b] = TryParseEnvelope(b)
    BY DEF Parse
  <1>2. \A b \in Bytes : /\ Parse[b] \in [consumed : Nat, frames : Seq(AnyFrames)]
                         /\ Parse[b].consumed <= Len(b)
    BY <1>1, EnvelopeIs
  <1>3. ASSUME NEW b \in Bytes, Parse[b].consumed # 0, NEW c \in Bytes
        PROVE  Parse[b \o c] = Parse[b]
    <2>1. b \o c \in Bytes
      BY BytesJoin
    <2> QED BY <1>1, <1>3, <2>1, EnvelopeIs
  <1>4. Parse \in [Bytes -> [consumed : Nat, frames : Seq(AnyFrames)]]
    BY <1>1, <1>2
  <1> QED BY <1>2, <1>3, <1>4 DEF Parsers

\* The relay and the subscriber read the same frames and keep the same bytes whether x and
\* then y arrive or both at once.
THEOREM EnvelopesReceivedCut ==
  ASSUME NEW buffer \in Bytes, NEW x \in Bytes, NEW y \in Bytes
  PROVE  LET first == Received(buffer, x)
             rest  == Received(first.buffer, y)
         IN  Received(buffer, x \o y) = [frames |-> first.frames \o rest.frames,
                                         buffer |-> rest.buffer]
  BY ParseIs, ArrivalsCut, ZenonT(30) DEF Received

\* A message in its envelope is read as what it is.
LEMMA EnvelopeRead ==
  ASSUME NEW m, NEW w, Enveloped(w, m)
  PROVE  /\ w \in Bytes /\ Writes(Parse, w, m) /\ m \in AnyFrames
         /\ TryParseEnvelope(w) = [consumed |-> Len(w), frames |-> <<m>>]
  <1>0. PICK class, frame :
          /\ w = <<class>> \o frame
          /\ \/ m \in ObjectMessages /\ class = MSG_OBJECT /\ frame = Encode(m)
             \/ m \in ControlMessages /\ class = MSG_CONTROL /\ frame = EncodeControl(m)
    BY DEF Enveloped, EncodeEnvelope
  <1>1. w = <<class>> \o frame /\ class \in {MSG_CONTROL, MSG_OBJECT}
    BY <1>0
  <1>2. <<class>> \in Bytes /\ Len(<<class>>) = 1 /\ <<class>>[1] = class /\ <<class>> # <<>>
    <2>1. class \in Byte
      <3>1. 1 \in Byte /\ 2 \in Byte
        BY InByte
      <3> QED BY <1>1, <3>1 DEF MSG_CONTROL, MSG_OBJECT
    <2> QED BY <2>1 DEF Bytes
  <1>3. /\ frame \in Bytes /\ m \in AnyFrames
        /\ \A rest \in Bytes :
             (IF class = MSG_CONTROL THEN TryParseControl(frame \o rest) ELSE TryParse(frame \o rest))
               = [consumed |-> Len(frame), frames |-> <<m>>]
    <2>1. CASE m \in ObjectMessages /\ class = MSG_OBJECT /\ frame = Encode(m)
      <3>1. class # MSG_CONTROL
        BY <2>1 DEF MSG_CONTROL, MSG_OBJECT
      <3> QED BY <2>1, <3>1, ObjectRead DEF AnyFrames
    <2>2. CASE m \in ControlMessages /\ class = MSG_CONTROL /\ frame = EncodeControl(m)
      BY <2>2, ControlRead DEF AnyFrames
    <2> QED BY <1>0, <2>1, <2>2
  <1>4. /\ w \in Bytes /\ Len(w) = 1 + Len(frame) /\ w # <<>> /\ w[1] = class
        /\ Tail(w) = frame /\ Len(frame) \in Nat /\ Len(frame) # 0
    <2> DEFINE v == <<class>>
    <2>1. v \in Bytes /\ v # <<>> /\ Len(v) = 1 /\ v[1] = class
      BY <1>2
    <2>2. Tail(v) = <<>>
      OBVIOUS
    <2> HIDE DEF v
    <2>3. /\ v \o frame \in Bytes /\ Len(v \o frame) = 1 + Len(frame)
          /\ v \o frame # <<>> /\ (v \o frame)[1] = class /\ Tail(v \o frame) = Tail(v) \o frame
      <3>1. v \o frame \in Bytes /\ Len(v \o frame) = Len(v) + Len(frame)
        BY <1>3, <2>1, BytesJoin
      <3>2. /\ v \o frame # <<>> /\ (v \o frame)[1] = v[1]
            /\ Tail(v \o frame) = Tail(v) \o frame
        BY <1>3, <2>1, TailIs
      <3> QED BY <2>1, <3>1, <3>2
    <2>4. <<>> \o frame = frame
      BY <1>3, ConcatEmptySeq DEF Bytes
    <2>5. Len(frame) \in Nat
      BY <1>3, BytesAre
    <2>6. Len(frame) # 0
      <3>1. <<>> \in Bytes
        BY DEF Bytes
      <3>2. (IF class = MSG_CONTROL THEN TryParseControl(frame) ELSE TryParse(frame))
              = [consumed |-> Len(frame), frames |-> <<m>>]
        <4>1. frame \o <<>> = frame
          BY <1>3, ConcatEmptySeq DEF Bytes
        <4> QED BY <1>3, <3>1, <4>1
      <3>3. [consumed |-> Len(frame), frames |-> <<m>>] # NotYet
        BY DEF NotYet
      <3>4. HasFrame(frame)
        BY <1>3, <3>2, <3>3, TryParseIs
      <3> QED BY <2>5, <3>4, FrameStays, <1>3
    <2> QED BY <1>1, <2>2, <2>3, <2>4, <2>5, <2>6 DEF v
  <1>5. (IF class = MSG_CONTROL THEN TryParseControl(frame) ELSE TryParse(frame))
          = [consumed |-> Len(frame), frames |-> <<m>>]
    <2>1. frame \o <<>> = frame /\ <<>> \in Bytes
      BY <1>3, ConcatEmptySeq DEF Bytes
    <2> QED BY <1>3, <2>1
  <1> DEFINE r == [consumed |-> Len(frame), frames |-> <<m>>]
  <1>6. TryParseEnvelope(w) = IF r.consumed = 0 THEN NotYet ELSE [r EXCEPT !.consumed = @ + 1]
    BY <1>1, <1>4, <1>5 DEF TryParseEnvelope
  <1>7. r.consumed = Len(frame)
        /\ [r EXCEPT !.consumed = @ + 1] = [consumed |-> Len(frame) + 1, frames |-> <<m>>]
    OBVIOUS
  <1> HIDE DEF r
  <1>8. Len(frame) + 1 = Len(w)
    BY <1>4
  <1>9. TryParseEnvelope(w) = [consumed |-> Len(w), frames |-> <<m>>]
    BY <1>4, <1>6, <1>7, <1>8
  <1>10. Writes(Parse, w, m)
    BY <1>4, <1>9 DEF Writes, Parse
  <1> QED BY <1>3, <1>4, <1>9, <1>10

\* A stream of envelopes, read whole, is the messages written, each once and in order.
THEOREM EnvelopesRead ==
  ASSUME NEW M, NEW W, NEW ms \in Seq(M), NEW ws \in Seq(W), Len(ws) = Len(ms),
         \A i \in 1 .. Len(ms) : Enveloped(ws[i], ms[i])
  PROVE  /\ FlattenSeq(ws) \in Bytes /\ ms \in Seq(AnyFrames)
         /\ Received(<<>>, FlattenSeq(ws)) = [frames |-> ms, buffer |-> <<>>]
  <1> DEFINE n == Len(ms)
  <1>1. n \in Nat /\ DOMAIN ms = 1 .. n /\ DOMAIN ws = 1 .. n
    BY LenProperties
  <1>2. \A i \in 1 .. n : ws[i] \in Bytes /\ ms[i] \in AnyFrames /\ Writes(Parse, ws[i], ms[i])
    BY EnvelopeRead
  <1>3. ms = [i \in 1 .. n |-> ms[i]] /\ ws = [i \in 1 .. n |-> ws[i]]
    BY <1>1
  <1> HIDE DEF n
  <1>4. ms \in Seq(AnyFrames) /\ ws \in Seq(Bytes)
    BY <1>1, <1>2, <1>3
  <1>5. \A i \in 1 .. Len(ms) : Writes(Parse, ws[i], ms[i])
    BY <1>2 DEF n
  <1>6. /\ FlattenSeq(ws) \in Bytes
        /\ Arrived(Parse, <<>>, FlattenSeq(ws)) = [frames |-> ms, buffer |-> <<>>]
    BY <1>4, <1>5, ParseIs, StreamRead
  <1> QED BY <1>4, <1>6 DEF Received

\* However a stream of envelopes is cut in two, the messages written are read, each once and
\* in order, and nothing is left.
THEOREM EnvelopesCut ==
  ASSUME NEW M, NEW W, NEW ms \in Seq(M), NEW ws \in Seq(W), Len(ws) = Len(ms),
         \A i \in 1 .. Len(ms) : Enveloped(ws[i], ms[i]), NEW k \in Nat
  PROVE  LET bytes == FlattenSeq(ws)
             first == Received(<<>>, SubSeq(bytes, 1, k))
             rest  == Received(first.buffer, SubSeq(bytes, k + 1, Len(bytes)))
         IN  k <= Len(bytes) => first.frames \o rest.frames = ms /\ rest.buffer = <<>>
  <1> DEFINE bytes == FlattenSeq(ws)
  <1>1. /\ bytes \in Bytes /\ ms \in Seq(AnyFrames)
        /\ Received(<<>>, bytes) = [frames |-> ms, buffer |-> <<>>]
    BY EnvelopesRead
  <1> HIDE DEF bytes
  <1>2. Arrived(Parse, <<>>, bytes) = [frames |-> ms, buffer |-> <<>>]
    BY <1>1 DEF Received
  <1>3. k <= Len(bytes) =>
          LET first == Arrived(Parse, <<>>, SubSeq(bytes, 1, k))
              rest  == Arrived(Parse, first.buffer, SubSeq(bytes, k + 1, Len(bytes)))
          IN  first.frames \o rest.frames = ms /\ rest.buffer = <<>>
    BY <1>1, <1>2, ParseIs, StreamCut
  <1> QED BY <1>3 DEF Received, bytes

-----------------------------------------------------------------------------
(* The sizes of fragments.                                                 *)

\* The larger of two numbers, and the smaller.
LEMMA MaxOfTwo ==
  ASSUME NEW a \in Int, NEW b \in Int
  PROVE  Max({a, b}) = IF a >= b THEN a ELSE b
  <1>1. \A m \in {a, b} : (\A x \in {a, b} : m >= x) => Max({a, b}) = m
    BY DEF Max
  <1>2. CASE a >= b
    BY <1>1, <1>2
  <1>3. CASE ~(a >= b)
    BY <1>1, <1>3
  <1> QED BY <1>2, <1>3

LEMMA MinOfTwo ==
  ASSUME NEW a \in Int, NEW b \in Int
  PROVE  Min({a, b}) = IF a <= b THEN a ELSE b
  <1>1. {a, b} \in SUBSET Int
    OBVIOUS
  <1>2. CASE a <= b
    BY <1>1, <1>2, MinIs
  <1>3. CASE ~(a <= b)
    BY <1>1, <1>3, MinIs
  <1> QED BY <1>2, <1>3

\* Products of natural numbers grow with their factors.
LEMMA ProductGrows ==
  ASSUME NEW a \in Nat, NEW b \in Nat, NEW s \in Nat, a <= b
  PROVE  a * s \in Nat /\ b * s \in Nat /\ a * s <= b * s /\ (a + 1) * s = a * s + s
  <1>1. PICK d \in Nat : b = a + d
    <2>1. b - a \in Nat /\ b = a + (b - a)
      OBVIOUS
    <2> QED BY <2>1
  <1>2. a * s \in Nat /\ d * s \in Nat /\ b * s = a * s + d * s /\ (a + 1) * s = a * s + s
    BY <1>1, SMT
  <1> DEFINE x == a * s
             y == d * s
             z == b * s
  <1> HIDE DEF x, y, z
  <1>3. x \in Nat /\ y \in Nat /\ z = x + y
    BY <1>2 DEF x, y, z
  <1>4. z \in Nat /\ x <= z
    BY <1>3
  <1> QED BY <1>2, <1>4 DEF x, z

\* Division leaves less than the divisor.
LEMMA DivIs ==
  ASSUME NEW a \in Nat, NEW s \in Nat \ {0}
  PROVE  a \div s \in Nat /\ (a \div s) * s <= a /\ a < (a \div s) * s + s
  BY SMT

\* Bytes of length l in n pieces of s bytes, the last of which may be shorter.
Pieces(s, l, n) ==
  /\ s \in Nat \ {0} /\ l \in Nat /\ n \in Nat \ {0}
  /\ (n - 1) * s <= l /\ ((n - 1) * s < l \/ n = 1) /\ l <= n * s /\ (n <= l \/ n = 1)

\* The sizes fragmentFrame takes.
LEMMA PiecesAre ==
  ASSUME NEW l \in Nat, NEW maxChunk \in Int
  PROVE  LET size  == Max({maxChunk, 1})
             count == Max({(l + size - 1) \div size, 1})
         IN  Pieces(size, l, count) /\ (maxChunk >= 1 => size = maxChunk)
  <1> DEFINE s == Max({maxChunk, 1})
             q == (l + s - 1) \div s
             n == Max({q, 1})
  <1>1. s \in Nat \ {0} /\ (maxChunk >= 1 => s = maxChunk)
    <2>1. s = IF maxChunk >= 1 THEN maxChunk ELSE 1
      BY MaxOfTwo
    <2> HIDE DEF s
    <2> QED BY <2>1
  <1> HIDE DEF s
  <1>2. /\ q \in Nat /\ q * s \in Nat /\ q * s <= l + s - 1 /\ l + s - 1 < q * s + s
    <2>1. l + s - 1 \in Nat
      BY <1>1
    <2>2. q \in Nat /\ q * s <= l + s - 1 /\ l + s - 1 < q * s + s
      BY <1>1, <2>1, DivIs
    <2> HIDE DEF q
    <2>3. q <= q /\ s \in Nat
      BY <1>1, <2>2
    <2> QED BY <2>2, <2>3, ProductGrows
  <1> HIDE DEF q
  <1>3. n = IF q >= 1 THEN q ELSE 1
    BY <1>2, MaxOfTwo
  <1> HIDE DEF n
  <1>4. CASE q = 0
    <2>1. q * s = 0 /\ 1 * s = s /\ 0 * s = 0
      BY <1>1, <1>4, SMT
    <2>2. n = 1 /\ n - 1 = 0 /\ l = 0
      BY <1>1, <1>2, <1>3, <1>4, <2>1
    <2> QED BY <1>1, <2>1, <2>2 DEF Pieces, s, n, q
  <1>5. CASE q # 0
    <2>1. n = q /\ n \in Nat \ {0} /\ n - 1 \in Nat /\ (n - 1) + 1 = n
      BY <1>2, <1>3, <1>5
    <2>2. (n - 1) * s \in Nat /\ n * s = (n - 1) * s + s
      <3> DEFINE m == n - 1
      <3>1. m \in Nat /\ m <= m /\ s \in Nat /\ m + 1 = n
        BY <1>1, <2>1
      <3> HIDE DEF m
      <3>2. m * s \in Nat /\ (m + 1) * s = m * s + s
        BY <3>1, ProductGrows
      <3> QED BY <3>1, <3>2 DEF m
    <2> DEFINE x == (n - 1) * s
               y == n * s
    <2> HIDE DEF x, y
    <2>3. x \in Nat /\ y = x + s /\ y <= l + s - 1 /\ l + s - 1 < y + s
      BY <1>2, <2>1, <2>2 DEF x, y
    <2>4. x <= l /\ x < l /\ l <= y
      BY <1>1, <2>3
    <2>5. n <= l \/ n = 1
      <3>1. n - 1 <= x
        <4> DEFINE m == n - 1
                   t == s - 1
        <4>1. m \in Nat /\ t \in Nat /\ s = t + 1
          BY <1>1, <2>1
        <4> HIDE DEF m, t
        <4>2. m * s = m * t + m /\ m * t \in Nat
          BY <4>1, SMT
        <4>3. x = m * t + m
          BY <4>2 DEF x, m
        <4> QED BY <4>1, <4>2, <4>3 DEF m
      <3>2. CASE x <= l - 1
        BY <2>1, <2>3, <3>1, <3>2
      <3>3. CASE ~(x <= l - 1)
        BY <1>1, <2>1, <2>3, <2>4, <3>1, <3>3
      <3> QED BY <3>2, <3>3
    <2> QED BY <1>1, <2>1, <2>4, <2>5 DEF Pieces, s, n, q, x, y
  <1> QED BY <1>2, <1>4, <1>5

\* Where a piece is.
LEMMA PieceIs ==
  ASSUME NEW s, NEW l, NEW n, Pieces(s, l, n), NEW i \in 1 .. n
  PROVE  /\ (i - 1) * s \in Nat /\ (i - 1) * s <= l /\ i * s = (i - 1) * s + s
         /\ Min({i * s, l}) \in Nat /\ Min({i * s, l}) <= l /\ (i - 1) * s <= Min({i * s, l})
         /\ \A k \in Int : k <= Min({i * s, l}) <=> k <= i * s /\ k <= l
  <1> DEFINE m == i - 1
             x == m * s
             y == i * s
  <1>1. s \in Nat /\ l \in Nat /\ n \in Nat /\ (n - 1) * s <= l
    BY DEF Pieces
  <1>2. m \in Nat /\ n - 1 \in Nat /\ m <= n - 1 /\ m + 1 = i
    BY <1>1
  <1> HIDE DEF m
  <1>3. x \in Nat /\ x <= (n - 1) * s /\ (n - 1) * s \in Nat /\ (m + 1) * s = x + s
    <2> DEFINE w == n - 1
    <2> HIDE DEF w
    <2>1. w \in Nat /\ m <= w
      BY <1>2 DEF w
    <2>2. x \in Nat /\ x <= w * s /\ w * s \in Nat /\ (m + 1) * s = x + s
      BY <1>1, <1>2, <2>1, ProductGrows
    <2> QED BY <2>2 DEF w
  <1> HIDE DEF x, y
  <1>4. x \in Nat /\ x <= l /\ y = x + s
    <2>1. y = x + s
      BY <1>2, <1>3 DEF y
    <2> DEFINE z == (n - 1) * s
    <2> HIDE DEF z
    <2>2. x <= z /\ z <= l /\ x \in Nat /\ z \in Nat
      BY <1>1, <1>3 DEF z
    <2> QED BY <1>1, <2>1, <2>2
  <1>5. Min({y, l}) = IF y <= l THEN y ELSE l
    BY <1>1, <1>4, MinOfTwo
  <1> DEFINE u == Min({y, l})
  <1> HIDE DEF u
  <1>6. u = IF y <= l THEN y ELSE l
    BY <1>5 DEF u
  <1>7. u \in Nat /\ u <= l /\ x <= u /\ \A k \in Int : k <= u <=> k <= y /\ k <= l
    BY <1>1, <1>4, <1>6
  <1> QED BY <1>4, <1>7 DEF u, x, y, m

\* Every byte is in a piece.
LEMMA InPiece ==
  ASSUME NEW s, NEW l, NEW n, Pieces(s, l, n), NEW k \in 1 .. l
  PROVE  \E i \in 1 .. n : (i - 1) * s < k /\ k <= i * s
  <1> DEFINE a == k - 1
             m == a \div s
             x == m * s
  <1>1. s \in Nat \ {0} /\ l \in Nat /\ n \in Nat \ {0} /\ l <= n * s /\ a \in Nat
    BY DEF Pieces
  <1>2. m \in Nat /\ x <= a /\ a < x + s
    BY <1>1, DivIs
  <1> HIDE DEF m
  <1>3. x \in Nat /\ (m + 1) * s = x + s
    <2>1. m <= m /\ s \in Nat
      BY <1>1, <1>2
    <2> QED BY <1>2, <2>1, ProductGrows
  <1>4. m < n
    <2>1. SUFFICES ASSUME n <= m
                   PROVE  FALSE
      BY <1>1, <1>2
    <2>2. n * s <= x /\ n * s \in Nat
      BY <1>1, <1>2, <2>1, ProductGrows
    <2> DEFINE z == n * s
    <2> HIDE DEF x, z
    <2>3. z <= x /\ l <= z /\ x <= k - 1 /\ k <= l /\ z \in Nat /\ x \in Nat
      BY <1>1, <1>2, <1>3, <2>2 DEF z
    <2> QED BY <1>1, <2>3
  <1> HIDE DEF x
  <1>5. m + 1 \in 1 .. n /\ (m + 1) - 1 = m
    BY <1>1, <1>2, <1>4
  <1>6. x < k /\ k <= x + s
    BY <1>1, <1>2, <1>3
  <1> QED BY <1>3, <1>5, <1>6 DEF x

\* A number of whole pieces.
LEMMA WholePieces ==
  ASSUME NEW s, NEW l, NEW n, Pieces(s, l, n), NEW m \in Nat \ {0}, l = s * m
  PROVE  n = m
  <1>1. /\ s \in Nat \ {0} /\ n \in Nat \ {0} /\ l \in Nat /\ l = m * s
        /\ l <= n * s /\ ((n - 1) * s < l \/ n = 1)
    <2>1. s * m = m * s
      BY SMT DEF Pieces
    <2> QED BY <2>1 DEF Pieces
  <1>2. ~(n < m)
    <2>1. SUFFICES ASSUME n < m
                   PROVE  FALSE
      BY <1>1
    <2>2. n + 1 <= m /\ n <= n /\ n + 1 \in Nat
      BY <1>1, <2>1
    <2>3. n * s \in Nat /\ (n + 1) * s = n * s + s
      BY <1>1, <2>2, ProductGrows
    <2>4. (n + 1) * s <= m * s
      BY <1>1, <2>2, ProductGrows
    <2> DEFINE x == n * s
               y == m * s
               z == (n + 1) * s
    <2> HIDE DEF x, y, z
    <2>5. x \in Nat /\ z = x + s /\ z <= y /\ l = y /\ l <= x
      BY <1>1, <2>3, <2>4 DEF x, y, z
    <2> QED BY <1>1, <2>5
  <1>3. ~(m < n)
    <2>1. SUFFICES ASSUME m < n
                   PROVE  FALSE
      BY <1>1
    <2> DEFINE w == n - 1
    <2>2. w \in Nat /\ m <= w /\ n # 1
      BY <1>1, <2>1
    <2>3. w * s < l
      BY <1>1, <2>2
    <2> HIDE DEF w
    <2>4. m * s <= w * s /\ m * s \in Nat /\ w * s \in Nat
      BY <1>1, <2>2, ProductGrows
    <2> DEFINE x == w * s
               y == m * s
    <2> HIDE DEF x, y
    <2>5. x < y /\ y <= x /\ x \in Nat /\ y \in Nat
      BY <1>1, <2>3, <2>4 DEF x, y
    <2> QED BY <2>5
  <1> QED BY <1>1, <1>2, <1>3

-----------------------------------------------------------------------------
(* Datagrams.                                                              *)

\* Small numbers fit a word.
LEMMA SmallWords == \A v \in Nat : v <= 16777215 => v \in Words
  <1> SUFFICES ASSUME NEW v \in Nat, v <= 16777215
               PROVE  v \in Words
    OBVIOUS
  <1> DEFINE w == Up(v)
             x == Up(w)
             y == Up(x)
             z == Up(y)
  <1>1. \A u \in Nat : Up(u) \in Nat /\ \A c \in Nat : u <= 256 * c + 255 => Up(u) <= c
    <2>1. SUFFICES ASSUME NEW u \in Nat
                   PROVE  Up(u) \in Nat /\ \A c \in Nat : u <= 256 * c + 255 => Up(u) <= c
      OBVIOUS
    <2>2. Up(u) \in Int /\ Divided(u)
      BY UpIs
    <2> DEFINE m == u % 256
               q == Up(u)
    <2>3. m \in 0 .. 255 /\ m + 256 * q = u /\ q \in Int
      BY <2>2 DEF Divided, Byte
    <2> HIDE DEF m, q
    <2>4. q \in Nat
      BY <2>3
    <2>5. ASSUME NEW c \in Nat, u <= 256 * c + 255
          PROVE  q <= c
      BY <2>3, <2>5
    <2> QED BY <2>4, <2>5 DEF q
  <1>2. w \in Nat /\ w <= 65535
    <2>1. 16777215 = 256 * 65535 + 255 /\ 65535 \in Nat
      OBVIOUS
    <2> DEFINE c == 65535
               t == 16777215
               e == 256 * c + 255
    <2>2. t = e /\ c \in Nat /\ v <= t
      BY <2>1
    <2> HIDE DEF c, t
    <2> QED BY <1>1, <2>2 DEF c
  <1> HIDE DEF w
  <1>3. x \in Nat /\ x <= 255
    <2>1. 65535 = 256 * 255 + 255 /\ 255 \in Nat
      OBVIOUS
    <2> DEFINE c == 255
               t == 65535
               e == 256 * c + c
    <2>2. t = e /\ c \in Nat /\ w <= t
      BY <1>2, <2>1
    <2> HIDE DEF t
    <2> QED BY <1>1, <1>2, <2>2, SMT
  <1> HIDE DEF x
  <1>4. y = 0
    <2>1. x <= 256 * 0 + 255 /\ 0 \in Nat
      BY <1>3
    <2>2. y \in Nat /\ y <= 0
      BY <1>1, <1>3, <2>1
    <2> QED BY <2>2
  <1>5. z = 0
    BY <1>4, UpZero
  <1> QED BY <1>5 DEF Words, Up4, w, x, y, z

\* A fragment is read as it was written.
LEMMA FragmentRead ==
  ASSUME NEW class \in Byte, NEW alias \in Strings, NEW id \in Longs, NEW index \in Words,
         NEW count \in Words, NEW offset \in Words, NEW total \in Words, NEW chunk \in Bytes
  PROVE  LET d == EncodeUdpFragment(class, alias, id, index, count, offset, total, chunk)
         IN  /\ d \in Bytes
             /\ ParseUdpFragment(d)
                  = [ok |-> TRUE, msgClass |-> class, objectId |-> id, fragIndex |-> index,
                     fragCount |-> count, fragOffset |-> offset, totalLen |-> total,
                     trackAlias |-> alias, chunk |-> chunk]
  <1> DEFINE t  == <<class>>
             n0 == PutI64(id)
             n1 == PutU32(index)
             n2 == PutU32(count)
             n3 == PutU32(offset)
             n4 == PutU32(total)
             s  == PutStr(alias)
             b0 == t \o n0
             b1 == b0 \o n1
             b2 == b1 \o n2
             b3 == b2 \o n3
             b4 == b3 \o n4
             b5 == b4 \o s
             b  == b5 \o chunk
             l  == Len(alias)
  <1>1. EncodeUdpFragment(class, alias, id, index, count, offset, total, chunk) = b
    BY DEF EncodeUdpFragment
  <1>2. t \in Bytes /\ Len(t) = 1 /\ t[1] = class
    BY DEF Bytes
  <1>3. n0 \in Bytes /\ Len(n0) = 8
    BY LongsAre, PutI64Is
  <1>4. /\ n1 \in Bytes /\ Len(n1) = 4 /\ n2 \in Bytes /\ Len(n2) = 4
        /\ n3 \in Bytes /\ Len(n3) = 4 /\ n4 \in Bytes /\ Len(n4) = 4
    <2>1. index \in Int /\ count \in Int /\ offset \in Int /\ total \in Int
      BY DEF Words
    <2> QED BY <2>1, PutU32Is
  <1>5. s \in Bytes /\ Len(s) = 4 + l /\ l \in Nat
    BY PutStrIs
  <1>6. Len(chunk) \in Nat
    BY BytesAre
  <1> HIDE DEF t, n0, n1, n2, n3, n4, s, l
  <1>7. b0 \in Bytes /\ Len(b0) = 9
    <2>1. b0 \in Bytes /\ Len(b0) = Len(t) + Len(n0)
      BY <1>2, <1>3, BytesJoin
    <2> QED BY <1>2, <1>3, <2>1
  <1>8. b1 \in Bytes /\ Len(b1) = 13
    <2> HIDE DEF b0
    <2>1. b1 \in Bytes /\ Len(b1) = Len(b0) + Len(n1)
      BY <1>4, <1>7, BytesJoin
    <2> QED BY <1>4, <1>7, <2>1
  <1>9. b2 \in Bytes /\ Len(b2) = 17
    <2> HIDE DEF b1
    <2>1. b2 \in Bytes /\ Len(b2) = Len(b1) + Len(n2)
      BY <1>4, <1>8, BytesJoin
    <2> QED BY <1>4, <1>8, <2>1
  <1>10. b3 \in Bytes /\ Len(b3) = 21
    <2> HIDE DEF b2
    <2>1. b3 \in Bytes /\ Len(b3) = Len(b2) + Len(n3)
      BY <1>4, <1>9, BytesJoin
    <2> QED BY <1>4, <1>9, <2>1
  <1>11. b4 \in Bytes /\ Len(b4) = 25
    <2> HIDE DEF b3
    <2>1. b4 \in Bytes /\ Len(b4) = Len(b3) + Len(n4)
      BY <1>4, <1>10, BytesJoin
    <2> QED BY <1>4, <1>10, <2>1
  <1>12. b5 \in Bytes /\ Len(b5) = 29 + l
    <2> HIDE DEF b4
    <2>1. b5 \in Bytes /\ Len(b5) = Len(b4) + Len(s)
      BY <1>5, <1>11, BytesJoin
    <2> QED BY <1>5, <1>11, <2>1
  <1>13. b \in Bytes /\ Len(b) = 29 + l + Len(chunk)
    <2> HIDE DEF b5
    <2>1. b \in Bytes /\ Len(b) = Len(b5) + Len(chunk)
      BY <1>12, BytesJoin
    <2> QED BY <1>12, <2>1
  <1>14. /\ Has(b, 0, t) /\ Has(b, 1, n0) /\ Has(b, 9, n1) /\ Has(b, 13, n2) /\ Has(b, 17, n3)
         /\ Has(b, 21, n4) /\ Has(b, 25, s) /\ Has(b, 29 + l, chunk)
    <2> DEFINE c == b
    <2>1. c \in Bytes /\ Has(c, 0, b)
      BY <1>13, HasAll
    <2> HIDE DEF c
    <2>2. Has(c, 0, b5) /\ Has(c, 0 + Len(b5), chunk)
      <3> HIDE DEF b5
      <3> QED BY <1>12, <2>1, HasJoin
    <2>3. Has(c, 0, b4) /\ Has(c, 0 + Len(b4), s)
      <3> HIDE DEF b4
      <3> QED BY <1>5, <1>11, <2>1, <2>2, HasJoin
    <2>4. Has(c, 0, b3) /\ Has(c, 0 + Len(b3), n4)
      <3> HIDE DEF b3
      <3> QED BY <1>4, <1>10, <2>1, <2>3, HasJoin
    <2>5. Has(c, 0, b2) /\ Has(c, 0 + Len(b2), n3)
      <3> HIDE DEF b2
      <3> QED BY <1>4, <1>9, <2>1, <2>4, HasJoin
    <2>6. Has(c, 0, b1) /\ Has(c, 0 + Len(b1), n2)
      <3> HIDE DEF b1
      <3> QED BY <1>4, <1>8, <2>1, <2>5, HasJoin
    <2>7. Has(c, 0, b0) /\ Has(c, 0 + Len(b0), n1)
      <3> HIDE DEF b0
      <3> QED BY <1>4, <1>7, <2>1, <2>6, HasJoin
    <2>8. Has(c, 0, t) /\ Has(c, 0 + Len(t), n0)
      BY <1>2, <1>3, <2>1, <2>7, HasJoin
    <2> HIDE DEF b0, b1, b2, b3, b4, b5
    <2>9. /\ 0 + Len(t) = 1 /\ 0 + Len(b0) = 9 /\ 0 + Len(b1) = 13 /\ 0 + Len(b2) = 17
          /\ 0 + Len(b3) = 21 /\ 0 + Len(b4) = 25 /\ 0 + Len(b5) = 29 + l
      BY <1>2, <1>5, <1>7, <1>8, <1>9, <1>10, <1>11, <1>12
    <2> QED BY <2>2, <2>3, <2>4, <2>5, <2>6, <2>7, <2>8, <2>9 DEF c
  <1> HIDE DEF b, b0, b1, b2, b3, b4, b5
  <1>15. b[1] = class
    <2>1. \A k \in 1 .. 1 : b[0 + k] = t[k]
      BY <1>2, <1>14 DEF Has
    <2>2. 1 \in 1 .. 1 /\ 0 + 1 = 1
      OBVIOUS
    <2> QED BY <1>2, <2>1, <2>2
  <1>16. GetI64(b, 2) = id
    <2>1. GetI64(b, 1 + 1) = id
      BY <1>13, <1>14, I64Read DEF n0
    <2> QED BY <2>1
  <1>17. /\ GetU32(b, 10) = index /\ GetU32(b, 14) = count /\ GetU32(b, 18) = offset
         /\ GetU32(b, 22) = total
    <2>1. 9 \in Nat /\ 13 \in Nat /\ 17 \in Nat /\ 21 \in Nat
      OBVIOUS
    <2>2. GetU32(b, 9 + 1) = index
      BY <1>13, <1>14, <2>1, U32Read DEF n1
    <2>3. GetU32(b, 13 + 1) = count
      BY <1>13, <1>14, <2>1, U32Read DEF n2
    <2>4. GetU32(b, 17 + 1) = offset
      BY <1>13, <1>14, <2>1, U32Read DEF n3
    <2>5. GetU32(b, 21 + 1) = total
      BY <1>13, <1>14, <2>1, U32Read DEF n4
    <2> QED BY <2>2, <2>3, <2>4, <2>5
  <1>18. GetU32(b, 26) = l /\ GetStr(b, 26) = alias
    <2>1. GetU32(b, 25 + 1) = l /\ GetStr(b, 25 + 1) = alias
      BY <1>13, <1>14, StringRead DEF s, l
    <2> QED BY <2>1
  <1>19. SubSeq(b, 30 + l, Len(b)) = chunk
    <2>1. SubSeq(b, 29 + l + 1, 29 + l + Len(chunk)) = chunk
      <3>1. 29 + l \in Nat
        BY <1>5
      <3> QED BY <1>13, <1>14, <3>1, HasIs
    <2>2. 29 + l + 1 = 30 + l
      BY <1>5
    <2> QED BY <1>13, <2>1, <2>2
  <1>20. ~(Len(b) < 29 \/ 29 + GetU32(b, 26) > Len(b))
    BY <1>5, <1>6, <1>13, <1>18
  <1>21. ParseUdpFragment(b)
           = [ok |-> TRUE, msgClass |-> b[1], objectId |-> GetI64(b, 2),
              fragIndex |-> GetU32(b, 10), fragCount |-> GetU32(b, 14),
              fragOffset |-> GetU32(b, 18), totalLen |-> GetU32(b, 22),
              trackAlias |-> GetStr(b, 26), chunk |-> SubSeq(b, 30 + GetU32(b, 26), Len(b))]
    BY <1>20 DEF ParseUdpFragment
  <1>22. ParseUdpFragment(b)
           = [ok |-> TRUE, msgClass |-> class, objectId |-> id,
              fragIndex |-> index, fragCount |-> count,
              fragOffset |-> offset, totalLen |-> total,
              trackAlias |-> alias, chunk |-> chunk]
    BY <1>15, <1>16, <1>17, <1>18, <1>19, <1>21, Zenon
  <1> QED BY <1>1, <1>13, <1>22

\* What is in a frame at and behind place i - 1 pieces of s bytes.
Piece(frame, s, i) == SubSeq(frame, (i - 1) * s + 1, Min({i * s, Len(frame)}))

\* The n fragments of a frame, s bytes each, as they are read.
Fragmented(frags, class, alias, id, frame, s, n) ==
  /\ Pieces(s, Len(frame), n) /\ Len(frags) = n /\ DOMAIN frags = 1 .. n
  /\ \A i \in 1 .. n :
       /\ frags[i] \in Bytes
       /\ ParseUdpFragment(frags[i])
            = [ok |-> TRUE, msgClass |-> class, objectId |-> id, fragIndex |-> i - 1,
               fragCount |-> n, fragOffset |-> (i - 1) * s, totalLen |-> Len(frame),
               trackAlias |-> alias, chunk |-> Piece(frame, s, i)]

\* fragmentFrame makes them.
LEMMA FragmentsRead ==
  ASSUME NEW class \in Byte, NEW alias \in Strings, NEW id \in Longs, NEW frame \in Strings,
         NEW maxChunk \in Int
  PROVE  LET frags == FragmentFrame(class, alias, id, frame, maxChunk)
         IN  \E s, n : /\ Fragmented(frags, class, alias, id, frame, s, n)
                       /\ maxChunk >= 1 => s = maxChunk
  <1> DEFINE s == Max({maxChunk, 1})
             n == Max({(Len(frame) + s - 1) \div s, 1})
             D(i) == EncodeUdpFragment(class, alias, id, i - 1, n, (i - 1) * s, Len(frame),
                           SubSeq(frame, (i - 1) * s + 1, Min({i * s, Len(frame)})))
             frags == FragmentFrame(class, alias, id, frame, maxChunk)
  <1>1. frame \in Bytes /\ Len(frame) \in Words /\ Len(frame) \in Nat
    BY BytesAre DEF Strings
  <1>2. Pieces(s, Len(frame), n) /\ (maxChunk >= 1 => s = maxChunk)
    BY <1>1, PiecesAre
  <1>3. frags = [i \in 1 .. n |-> D(i)]
    BY DEF FragmentFrame
  <1> HIDE DEF s, n, frags
  <1>4. n \in Nat /\ n # 0 /\ n \in Words
    <2>1. n \in Nat /\ n # 0 /\ (n <= Len(frame) \/ n = 1)
      BY <1>2 DEF Pieces
    <2>2. CASE n = 1
      <3>1. 1 \in Nat /\ 1 <= 16777215
        OBVIOUS
      <3> QED BY <2>1, <2>2, <3>1, SmallWords
    <2>3. CASE n <= Len(frame)
      BY <1>1, <2>1, <2>3, WordsAre
    <2> QED BY <2>1, <2>2, <2>3
  <1>5. Len(frags) = n /\ DOMAIN frags = 1 .. n
    BY <1>3, <1>4
  <1>6. ASSUME NEW i \in 1 .. n
        PROVE  /\ frags[i] \in Bytes
               /\ ParseUdpFragment(frags[i])
                    = [ok |-> TRUE, msgClass |-> class, objectId |-> id,
                       fragIndex |-> i - 1, fragCount |-> n,
                       fragOffset |-> (i - 1) * s, totalLen |-> Len(frame),
                       trackAlias |-> alias, chunk |-> Piece(frame, s, i)]
    <2> DEFINE x == i - 1
               o == x * s
               e == Min({i * s, Len(frame)})
               c == Piece(frame, s, i)
    <2>1. x \in Nat /\ x <= n
      BY <1>4
    <2>2. x \in Words
      BY <1>4, <2>1, WordsAre
    <2>3. o \in Nat /\ o <= Len(frame) /\ e \in Nat /\ e <= Len(frame)
      BY <1>2, PieceIs
    <2> HIDE DEF x
    <2>4. o \in Words
      BY <1>1, <2>3, WordsAre
    <2>5. frags[i] = EncodeUdpFragment(class, alias, id, x, n, o, Len(frame), c)
      BY <1>3 DEF Piece, x
    <2>6. c \in Bytes
      <3> HIDE DEF o, e
      <3>1. c = SubSeq(frame, o + 1, e)
        BY DEF Piece, o, e, x
      <3>2. \A k \in o + 1 .. e : frame[k] \in Byte
        <4>1. \A k \in o + 1 .. e : k \in 1 .. Len(frame)
          BY <1>1, <2>3
        <4> QED BY <1>1, <4>1 DEF Bytes
      <3>3. o + 1 \in 1 .. Len(frame) + 1 /\ e \in Int
        BY <1>1, <2>3
      <3> QED BY <1>1, <2>3, <3>1, <3>3, SubSeqProperties DEF Bytes
    <2> HIDE DEF o, c
    <2>7. LET d == EncodeUdpFragment(class, alias, id, x, n, o, Len(frame), c)
          IN  /\ d \in Bytes
              /\ ParseUdpFragment(d)
                   = [ok |-> TRUE, msgClass |-> class, objectId |-> id,
                      fragIndex |-> x, fragCount |-> n, fragOffset |-> o,
                      totalLen |-> Len(frame), trackAlias |-> alias, chunk |-> c]
      BY <1>1, <1>4, <2>2, <2>4, <2>6, FragmentRead
    <2> QED BY <2>5, <2>7 DEF o, x, c
  <1> HIDE DEF D
  <1>7. /\ Fragmented(frags, class, alias, id, frame, s, n)
        /\ maxChunk >= 1 => s = maxChunk
    BY <1>2, <1>5, <1>6 DEF Fragmented
  <1> QED BY <1>7 DEF frags

-----------------------------------------------------------------------------
(* Reassembly.                                                             *)

\* The fragments are added one after the other.
LEMMA ReassembledIs ==
  ASSUME NEW ds, Len(ds) \in Nat
  PROVE  \E f : /\ f[0] = NoReassembler
                /\ \A i \in 1 .. Len(ds) : f[i] = AddFragment(f[i - 1], ParseUdpFragment(ds[i]))
                /\ Reassembled(ds) = f[Len(ds)]
  <1> DEFINE Sum(f, i) ==
               IF i = 0 THEN NoReassembler ELSE AddFragment(f[i - 1], ParseUdpFragment(ds[i]))
             OK(n) == \E f : f = [i \in 0 .. n |-> Sum(f, i)]
             Good  == {n \in Nat : OK(n)}
  <1>1. 0 \in Good
    <2> DEFINE f == [i \in 0 .. 0 |-> NoReassembler]
    <2>1. \A i \in 0 .. 0 : i = 0
      OBVIOUS
    <2>2. f = [i \in 0 .. 0 |-> Sum(f, i)]
      BY <2>1
    <2>3. OK(0)
      BY <2>2
    <2> HIDE DEF OK
    <2> QED BY <2>3
  <1>2. ASSUME NEW n \in Nat, n \in Good PROVE n + 1 \in Good
    <2>1. PICK f : f = [i \in 0 .. n |-> Sum(f, i)]
      BY <1>2
    <2> DEFINE g == [i \in 0 .. n + 1 |-> Sum(f, i)]
    <2>2. ASSUME NEW i \in 0 .. n + 1 PROVE Sum(f, i) = Sum(g, i)
      <3>1. CASE i = 0
        BY <3>1
      <3>2. CASE i # 0
        <4>1. i - 1 \in 0 .. n /\ i - 1 \in 0 .. n + 1
          BY <3>2
        <4>2. g[i - 1] = Sum(f, i - 1) /\ f[i - 1] = Sum(f, i - 1)
          BY <2>1, <4>1
        <4> HIDE DEF g
        <4> QED BY <3>2, <4>2
      <3> QED BY <3>1, <3>2
    <2>3. g = [i \in 0 .. n + 1 |-> Sum(g, i)]
      BY <2>2
    <2>4. OK(n + 1)
      BY <2>3, ZenonT(30)
    <2> HIDE DEF OK
    <2> QED BY <2>4
  <1> HIDE DEF Good
  <1>3. Len(ds) \in Good
    BY <1>1, <1>2, NatInductionOn
  <1>4. OK(Len(ds))
    BY <1>3 DEF Good
  <1> DEFINE f == CHOOSE h : h = [i \in 0 .. Len(ds) |->
               IF i = 0 THEN NoReassembler ELSE AddFragment(h[i - 1], ParseUdpFragment(ds[i]))]
  <1>5. f = [i \in 0 .. Len(ds) |->
               IF i = 0 THEN NoReassembler ELSE AddFragment(f[i - 1], ParseUdpFragment(ds[i]))]
    BY <1>4
  <1>6. Reassembled(ds) = f[Len(ds)]
    BY DEF Reassembled
  <1> HIDE DEF f
  <1>7. f[0] = NoReassembler
    BY <1>5
  <1>8. \A i \in 1 .. Len(ds) : f[i] = AddFragment(f[i - 1], ParseUdpFragment(ds[i]))
    <2>1. \A i \in 1 .. Len(ds) : i \in 0 .. Len(ds) /\ i # 0
      OBVIOUS
    <2> QED BY <1>5, <2>1
  <1> QED BY <1>6, <1>7, <1>8

\* What the reassembler holds when the fragments numbered H have come.
Holds(r, H, frame, s, n) ==
  /\ r \in [fragCount : Nat, data : Bytes, have : SUBSET Nat, complete : BOOLEAN]
  /\ r.have = H /\ H \subseteq 0 .. n - 1
  /\ H = {} => r = NoReassembler
  /\ H # {} =>
       /\ r.fragCount = n /\ Len(r.data) = Len(frame)
       /\ \A j \in 1 .. n : j - 1 \in H =>
            \A k \in 1 .. Len(frame) : (j - 1) * s < k /\ k <= j * s => r.data[k] = frame[k]
  /\ r.complete <=> H = 0 .. n - 1

\* The bytes of a piece.
LEMMA PieceBytes ==
  ASSUME NEW frame \in Bytes, NEW s, NEW n, Pieces(s, Len(frame), n), NEW i \in 1 .. n
  PROVE  LET o == (i - 1) * s
             c == Piece(frame, s, i)
         IN  /\ Len(c) \in Nat /\ o \in Nat /\ o + Len(c) <= Len(frame)
             /\ \A k \in 1 .. Len(frame) :
                  /\ k - o \in 1 .. Len(c) <=> o < k /\ k <= i * s
                  /\ k - o \in 1 .. Len(c) => c[k - o] = frame[k]
  <1> DEFINE o == (i - 1) * s
             y == i * s
             e == Min({i * s, Len(frame)})
             c == Piece(frame, s, i)
  <1>1. Len(frame) \in Nat
    BY BytesAre
  <1>2. /\ o \in Nat /\ o <= Len(frame) /\ e \in Nat /\ e <= Len(frame) /\ o <= e
        /\ \A k \in Int : k <= e <=> k <= y /\ k <= Len(frame)
    BY PieceIs
  <1>3. c = SubSeq(frame, o + 1, e)
    BY DEF Piece
  <1> HIDE DEF o, e, y
  <1>4. c = [k \in 1 .. e - (o + 1) + 1 |-> frame[k + (o + 1) - 1]]
    BY <1>2, <1>3 DEF SubSeq
  <1>5. /\ e - (o + 1) + 1 = e - o /\ e - o \in Nat
        /\ \A k \in 1 .. e - o : k + (o + 1) - 1 = o + k
    BY <1>2
  <1>6. c = [k \in 1 .. e - o |-> frame[o + k]]
    BY <1>4, <1>5
  <1> HIDE DEF c
  <1>7. Len(c) = e - o /\ \A k \in 1 .. e - o : c[k] = frame[o + k]
    BY <1>5, <1>6
  <1>8. ASSUME NEW k \in 1 .. Len(frame)
        PROVE  /\ k - o \in 1 .. Len(c) <=> o < k /\ k <= y
               /\ k - o \in 1 .. Len(c) => c[k - o] = frame[k]
    <2>1. k \in Int /\ k <= Len(frame) /\ (k <= e <=> k <= y)
      BY <1>1, <1>2
    <2>2. k - o \in 1 .. e - o <=> o < k /\ k <= e
      BY <1>2, <2>1
    <2>3. o + (k - o) = k
      BY <1>2
    <2> QED BY <1>7, <2>1, <2>2, <2>3
  <1>9. Len(c) \in Nat /\ o + Len(c) <= Len(frame)
    BY <1>1, <1>2, <1>5, <1>7
  <1> QED BY <1>2, <1>8, <1>9 DEF o, y, c

\* A piece is copied to its place, and nowhere else.
FilledWith(g, data, frame, s, i) ==
  /\ g \in Bytes /\ Len(g) = Len(frame)
  /\ \A k \in 1 .. Len(frame) :
       g[k] = IF (i - 1) * s < k /\ k <= i * s THEN frame[k] ELSE data[k]

LEMMA FilledIs ==
  ASSUME NEW frame \in Bytes, NEW s, NEW n, Pieces(s, Len(frame), n), NEW i \in 1 .. n,
         NEW data \in Bytes, Len(data) = Len(frame),
         NEW f, f.fragOffset = (i - 1) * s, f.chunk = Piece(frame, s, i)
  PROVE  FilledWith(Filled(data, f), data, frame, s, i)
  <1> DEFINE o == (i - 1) * s
             y == i * s
             c == Piece(frame, s, i)
             g == Filled(data, f)
             l == Len(frame)
             F(k) == IF k - o \in 1 .. Len(c) THEN c[k - o] ELSE data[k]
  <1>1. /\ Len(c) \in Nat /\ o \in Nat /\ o + Len(c) <= l
        /\ \A k \in 1 .. l : /\ k - o \in 1 .. Len(c) <=> o < k /\ k <= y
                             /\ k - o \in 1 .. Len(c) => c[k - o] = frame[k]
    BY PieceBytes
  <1>2. l \in Nat
    BY BytesAre
  <1> HIDE DEF o, y, c, l
  <1>3. Len(data) = l /\ f.fragOffset = o /\ f.chunk = c
    BY DEF o, c, l
  <1>4. DOMAIN data = 1 .. l
    BY <1>2, <1>3, LenProperties DEF Bytes
  <1>5. ~(o + Len(c) > l)
    BY <1>1, <1>2
  <1>6. g = [k \in 1 .. l |-> F(k)]
    BY <1>3, <1>4, <1>5 DEF Filled
  <1>7. \A k \in 1 .. l : F(k) = IF o < k /\ k <= y THEN frame[k] ELSE data[k]
    BY <1>1
  <1> HIDE DEF g, F
  <1>8. \A k \in 1 .. l : g[k] = F(k)
    BY <1>6
  <1>9. \A k \in 1 .. l : frame[k] \in Byte /\ data[k] \in Byte
    BY <1>3, <1>4 DEF l, Bytes
  <1>10. g \in Bytes /\ Len(g) = l
    <2>1. \A k \in 1 .. l : F(k) \in Byte
      BY <1>7, <1>9
    <2>2. g \in [1 .. l -> Byte]
      BY <1>6, <2>1
    <2> QED BY <1>2, <2>2, LenProperties DEF Bytes
  <1> QED BY <1>7, <1>8, <1>10 DEF FilledWith, g, o, y, l

\* A set of fragments that lacks h is not all of them, and is with h if it has one less.
LEMMA OneMore ==
  ASSUME NEW n \in Nat \ {0}, NEW H \in SUBSET (0 .. n - 1), NEW h \in 0 .. n - 1, h \notin H
  PROVE  /\ H # 0 .. n - 1 /\ IsFiniteSet(H) /\ Cardinality(H) \in Nat
         /\ Cardinality(H) + 1 = n <=> H \cup {h} = 0 .. n - 1
  <1> DEFINE A == 0 .. n - 1
             G == H \cup {h}
  <1>1. IsFiniteSet(A) /\ Cardinality(A) = n
    <2>1. 0 \in Int /\ n - 1 \in Int /\ (n - 1) - 0 + 1 = n /\ ~(0 > n - 1)
      OBVIOUS
    <2> QED BY <2>1, FS_Interval
  <1>2. H \subseteq A /\ G \subseteq A /\ H # A
    OBVIOUS
  <1> HIDE DEF A
  <1>3. IsFiniteSet(H) /\ Cardinality(H) \in Nat
    BY <1>1, <1>2, FS_Subset, FS_CardinalityType
  <1>4. IsFiniteSet(G) /\ Cardinality(G) = Cardinality(H) + 1
    BY <1>3, FS_AddElement
  <1> HIDE DEF G
  <1>5. Cardinality(G) = n <=> G = A
    BY <1>1, <1>2, <1>4, FS_Subset
  <1> QED BY <1>2, <1>3, <1>4, <1>5 DEF A, G

\* A fragment is added to what is held.
LEMMA AddFragmentHolds ==
  ASSUME NEW frame \in Bytes, NEW s, NEW n, Pieces(s, Len(frame), n), NEW i \in 1 .. n,
         NEW r, NEW H, Holds(r, H, frame, s, n),
         NEW f, f.fragIndex = i - 1, f.fragCount = n, f.fragOffset = (i - 1) * s,
         f.totalLen = Len(frame), f.chunk = Piece(frame, s, i)
  PROVE  Holds(AddFragment(r, f), H \cup {i - 1}, frame, s, n)
  <1> DEFINE count == IF r.fragCount = 0 THEN f.fragCount ELSE r.fragCount
             data  == IF r.fragCount = 0 THEN [k \in 1 .. f.totalLen |-> 0] ELSE r.data
             h     == i - 1
  <1>1. /\ r \in [fragCount : Nat, data : Bytes, have : SUBSET Nat, complete : BOOLEAN]
        /\ r.have = H /\ H \subseteq 0 .. n - 1
        /\ H = {} => r = NoReassembler
        /\ H # {} =>
             /\ r.fragCount = n /\ Len(r.data) = Len(frame)
             /\ \A j \in 1 .. n : j - 1 \in H =>
                  \A k \in 1 .. Len(frame) : (j - 1) * s < k /\ k <= j * s => r.data[k] = frame[k]
        /\ r.complete <=> H = 0 .. n - 1
    BY DEF Holds
  <1>2. n \in Nat \ {0} /\ h \in 0 .. n - 1 /\ h \in Nat /\ Len(frame) \in Nat /\ ~(h >= n)
    BY BytesAre DEF Pieces
  <1>3. count = n /\ data \in Bytes /\ Len(data) = Len(frame)
    <2>1. CASE H = {}
      <3>1. r.fragCount = 0
        BY <1>1, <2>1 DEF NoReassembler
      <3>2. 0 \in Byte
        BY InByte
      <3>3. count = n /\ data = [k \in 1 .. Len(frame) |-> 0]
        BY <3>1
      <3> QED BY <1>2, <3>2, <3>3, BytesOf
    <2>2. CASE H # {}
      <3>1. r.fragCount = n /\ n # 0 /\ Len(r.data) = Len(frame) /\ r.data \in Bytes
        BY <1>1, <1>2, <2>2
      <3> QED BY <3>1
    <2> QED BY <2>1, <2>2
  <1>4. H # {} => data = r.data
    BY <1>1, <1>2
  <1>5. AddFragment(r, f) =
          IF h >= n \/ h \in H
          THEN [r EXCEPT !.fragCount = n, !.data = data]
          ELSE [fragCount |-> n, data |-> Filled(data, f), have |-> H \cup {h},
                complete |-> r.complete \/ Cardinality(H) + 1 = n]
    BY <1>1, <1>3 DEF AddFragment
  <1> HIDE DEF count, data, h
  <1>6. CASE h \in H
    <2>1. H # {} /\ H \cup {h} = H
      BY <1>6
    <2>2. [r EXCEPT !.fragCount = n, !.data = data] = r
      BY <1>1, <1>4, <2>1
    <2>3. AddFragment(r, f) = r
      BY <1>5, <1>6, <2>2
    <2> QED BY <2>1, <2>3 DEF h
  <1>7. CASE h \notin H
    <2> DEFINE g == Filled(data, f)
               q == [fragCount |-> n, data |-> g, have |-> H \cup {h},
                     complete |-> r.complete \/ Cardinality(H) + 1 = n]
               G == H \cup {h}
    <2>1. AddFragment(r, f) = q
      BY <1>2, <1>5, <1>7
    <2>2. /\ g \in Bytes /\ Len(g) = Len(frame)
          /\ \A k \in 1 .. Len(frame) :
               g[k] = IF (i - 1) * s < k /\ k <= i * s THEN frame[k] ELSE data[k]
      <3>1. data \in Bytes /\ Len(data) = Len(frame)
        BY <1>3
      <3>2. FilledWith(g, data, frame, s, i)
        BY <3>1, FilledIs
      <3> QED BY <3>2 DEF FilledWith
    <2>3. /\ H # 0 .. n - 1 /\ Cardinality(H) \in Nat
          /\ Cardinality(H) + 1 = n <=> G = 0 .. n - 1
      BY <1>1, <1>2, <1>7, OneMore, SMTT(30)
    <2> HIDE DEF g
    <2>4. /\ q.fragCount = n /\ q.data = g /\ q.have = G
          /\ q.complete <=> r.complete \/ Cardinality(H) + 1 = n
      OBVIOUS
    <2>5. q.complete <=> G = 0 .. n - 1
      BY <1>1, <2>3, <2>4
    <2>6. G \subseteq 0 .. n - 1 /\ G # {} /\ G \in SUBSET Nat
      BY <1>1, <1>2
    <2>7. q \in [fragCount : Nat, data : Bytes, have : SUBSET Nat, complete : BOOLEAN]
      <3> HIDE DEF G
      <3>1. n \in Nat /\ (r.complete \/ Cardinality(H) + 1 = n) \in BOOLEAN
        BY <1>2
      <3> QED BY <2>2, <2>6, <3>1 DEF G
    <2>8. ASSUME NEW j \in 1 .. n, j - 1 \in G, NEW k \in 1 .. Len(frame),
                 (j - 1) * s < k, k <= j * s
          PROVE  g[k] = frame[k]
      <3>1. CASE j = i
        BY <2>2, <2>8, <3>1
      <3>2. CASE j # i
        <4>1. j - 1 # h
          BY <3>2 DEF h
        <4>2. j - 1 \in H /\ H # {}
          BY <2>8, <4>1
        <4>3. data[k] = frame[k]
          BY <1>1, <1>4, <2>8, <4>2
        <4> QED BY <2>2, <4>3
      <3> QED BY <3>1, <3>2
    <2> HIDE DEF q, G
    <2>9. Holds(q, G, frame, s, n)
      BY <2>2, <2>4, <2>5, <2>6, <2>7, <2>8 DEF Holds
    <2> QED BY <2>1, <2>9 DEF G, h
  <1> QED BY <1>6, <1>7

\* Whatever the size of the datagrams, the order they come in and how often each comes, a
\* frame is complete with the last of its fragments, not before, and is as it was (the
\* reassembler).
THEOREM FragmentsReassemble ==
  ASSUME NEW class \in Byte, NEW alias \in Strings, NEW id \in Longs, NEW frame \in Strings,
         NEW maxChunk \in Int
  PROVE  LET frags == FragmentFrame(class, alias, id, frame, maxChunk)
             n     == Len(frags)
         IN  \A order \in Seq(1 .. n) :
               LET r == Reassembled([i \in DOMAIN order |-> frags[order[i]]])
               IN  /\ r.complete <=> \A k \in 1 .. n : \E i \in DOMAIN order : order[i] = k
                   /\ r.complete => r.data = frame
  <1> DEFINE frags == FragmentFrame(class, alias, id, frame, maxChunk)
             l     == Len(frame)
  <1>1. frame \in Bytes /\ l \in Nat
    BY BytesAre DEF Strings
  <1>0. PICK s, n : Fragmented(frags, class, alias, id, frame, s, n)
    BY FragmentsRead
  <1> HIDE DEF frags
  <1>2. /\ Pieces(s, l, n) /\ Len(frags) = n
        /\ \A i \in 1 .. n :
             ParseUdpFragment(frags[i])
               = [ok |-> TRUE, msgClass |-> class, objectId |-> id,
                  fragIndex |-> i - 1, fragCount |-> n,
                  fragOffset |-> (i - 1) * s, totalLen |-> l,
                  trackAlias |-> alias, chunk |-> Piece(frame, s, i)]
    BY <1>0 DEF Fragmented
  <1>3. n \in Nat \ {0}
    BY <1>2 DEF Pieces
  <1>4. ASSUME NEW order \in Seq(1 .. n)
        PROVE  LET r == Reassembled([i \in DOMAIN order |-> frags[order[i]]])
               IN  /\ r.complete <=> \A k \in 1 .. n : \E i \in DOMAIN order : order[i] = k
                   /\ r.complete => r.data = frame
    <2> DEFINE ds == [i \in DOMAIN order |-> frags[order[i]]]
               m  == Len(order)
               Came(j) == {order[i] - 1 : i \in 1 .. j}
    <2>1. m \in Nat /\ DOMAIN order = 1 .. m /\ \A i \in 1 .. m : order[i] \in 1 .. n
      BY LenProperties
    <2>2. Len(ds) = m /\ \A i \in 1 .. m : ds[i] = frags[order[i]]
      BY <2>1
    <2> HIDE DEF ds, m
    <2>3. PICK f : /\ f[0] = NoReassembler
                   /\ \A i \in 1 .. m : f[i] = AddFragment(f[i - 1], ParseUdpFragment(ds[i]))
                   /\ Reassembled(ds) = f[m]
      BY <2>1, <2>2, ReassembledIs
    <2> DEFINE Good == {j \in Nat : j <= m => Holds(f[j], Came(j), frame, s, n)}
    <2>4. 0 \in Good
      <3>1. Came(0) = {} /\ {} # 0 .. n - 1
        <4>1. 1 .. 0 = {} /\ 0 \in 0 .. n - 1
          BY <1>3
        <4> QED BY <4>1
      <3>2. /\ NoReassembler \in [fragCount : Nat, data : Bytes, have : SUBSET Nat,
                                  complete : BOOLEAN]
            /\ NoReassembler.have = {} /\ ~NoReassembler.complete
        BY DEF NoReassembler, Bytes
      <3> HIDE DEF Came
      <3>3. Holds(f[0], Came(0), frame, s, n)
        BY <2>3, <3>1, <3>2 DEF Holds
      <3> QED BY <3>3
    <2>5. ASSUME NEW j \in Nat, j \in Good
          PROVE  j + 1 \in Good
      <3>1. SUFFICES ASSUME j + 1 <= m
                     PROVE  Holds(f[j + 1], Came(j + 1), frame, s, n)
        OBVIOUS
      <3>2. Holds(f[j], Came(j), frame, s, n)
        BY <2>1, <2>5, <3>1
      <3> DEFINE i == order[j + 1]
                 d == ParseUdpFragment(ds[j + 1])
      <3>3. j + 1 \in 1 .. m /\ (j + 1) - 1 = j
        BY <2>1, <3>1
      <3>4. i \in 1 .. n /\ ds[j + 1] = frags[i] /\ f[j + 1] = AddFragment(f[j], d)
        BY <2>1, <2>2, <2>3, <3>3
      <3>5. Came(j + 1) = Came(j) \cup {i - 1}
        <4>1. 1 .. j + 1 = (1 .. j) \cup {j + 1}
          OBVIOUS
        <4> QED BY <4>1
      <3>6. d = [ok |-> TRUE, msgClass |-> class, objectId |-> id,
                 fragIndex |-> i - 1, fragCount |-> n,
                 fragOffset |-> (i - 1) * s, totalLen |-> l,
                 trackAlias |-> alias, chunk |-> Piece(frame, s, i)]
        BY <1>2, <3>4
      <3> HIDE DEF i, d, Came
      <3>7. /\ d.fragIndex = i - 1 /\ d.fragCount = n /\ d.fragOffset = (i - 1) * s
            /\ d.totalLen = l /\ d.chunk = Piece(frame, s, i)
        BY <3>6
      <3>8. Holds(AddFragment(f[j], d), Came(j) \cup {i - 1}, frame, s, n)
        BY <1>1, <1>2, <3>2, <3>4, <3>7, AddFragmentHolds
      <3> QED BY <3>4, <3>5, <3>8
    <2>6. m \in Good
      <3> HIDE DEF Good
      <3> QED BY <2>1, <2>4, <2>5, NatInductionOn
    <2> DEFINE r == Reassembled(ds)
    <2>7. Holds(r, Came(m), frame, s, n)
      BY <2>1, <2>3, <2>6
    <2> HIDE DEF Good, r
    <2>8. Came(m) = 0 .. n - 1 <=> \A k \in 1 .. n : \E i \in DOMAIN order : order[i] = k
      <3>1. ASSUME Came(m) = 0 .. n - 1, NEW k \in 1 .. n
            PROVE  \E i \in 1 .. m : order[i] = k
        <4>1. k - 1 \in 0 .. n - 1
          BY <1>3
        <4>2. PICK i \in 1 .. m : order[i] - 1 = k - 1
          BY <3>1, <4>1
        <4>3. order[i] = k
          BY <2>1, <4>2
        <4> QED BY <4>3
      <3>2. ASSUME \A k \in 1 .. n : \E i \in 1 .. m : order[i] = k
            PROVE  Came(m) = 0 .. n - 1
        <4>1. \A h \in 0 .. n - 1 : h + 1 \in 1 .. n /\ (h + 1) - 1 = h
          BY <1>3
        <4>2. \A h \in 0 .. n - 1 : h \in Came(m)
          BY <3>2, <4>1
        <4>3. \A i \in 1 .. m : order[i] - 1 \in 0 .. n - 1
          BY <1>3, <2>1
        <4> QED BY <4>2, <4>3
      <3> HIDE DEF Came
      <3> QED BY <2>1, <3>1, <3>2
    <2>9. r.complete <=> Came(m) = 0 .. n - 1
      BY <2>7 DEF Holds
    <2>10. ASSUME r.complete
           PROVE  r.data = frame
      <3> HIDE DEF Came
      <3>0. 0 \in 0 .. n - 1
        BY <1>3
      <3>1. Came(m) = 0 .. n - 1 /\ Came(m) # {}
        BY <2>9, <2>10, <3>0
      <3>2. /\ r.data \in Bytes /\ Len(r.data) = l
            /\ \A j \in 1 .. n : j - 1 \in Came(m) =>
                 \A k \in 1 .. l : (j - 1) * s < k /\ k <= j * s => r.data[k] = frame[k]
        BY <2>7, <3>1 DEF Holds
      <3>3. \A k \in 1 .. l : r.data[k] = frame[k]
        <4>1. SUFFICES ASSUME NEW k \in 1 .. l
                       PROVE  r.data[k] = frame[k]
          OBVIOUS
        <4>2. PICK j \in 1 .. n : (j - 1) * s < k /\ k <= j * s
          BY <1>2, InPiece
        <4>3. j - 1 \in 0 .. n - 1
          BY <1>3
        <4> QED BY <3>1, <3>2, <4>2, <4>3
      <3> QED BY <1>1, <3>2, <3>3 DEF Bytes
    <2> QED BY <2>8, <2>9, <2>10 DEF r, ds
  <1> QED BY <1>2, <1>4 DEF frags

-----------------------------------------------------------------------------
(* The sample frames.                                                      *)

\* No proper part of the front of an object's frame is a frame.
LEMMA FrontIsNoFrame ==
  ASSUME NEW f \in ObjectMessages, NEW k \in Nat, k < Len(Encode(f))
  PROVE  ~HasFrame(SubSeq(Encode(f), 1, k))
  <1> DEFINE w == Encode(f)
             n == Len(w)
  <1>1. /\ w \in Bytes /\ n \in Nat
        /\ TryParse(w) = [consumed |-> n, frames |-> <<f>>]
    <2>1. w \in Bytes /\ \A rest \in Bytes :
                           TryParse(w \o rest) = [consumed |-> n, frames |-> <<f>>]
      BY ObjectRead
    <2>2. <<>> \in Bytes
      BY DEF Bytes
    <2> HIDE DEF w
    <2>3. w \o <<>> = w
      BY <2>1, ConcatEmptySeq DEF Bytes
    <2> QED BY <2>1, <2>2, <2>3, BytesAre
  <1>2. k < n
    OBVIOUS
  <1> HIDE DEF w
  <1> DEFINE b == SubSeq(w, 1, k)
             c == Behind(w, k)
  <1>3. b \in Bytes /\ c \in Bytes /\ w = b \o c /\ Len(b) = k
    <2>1. k <= Len(w)
      BY <1>1, <1>2
    <2>2. w = b \o c /\ b \in Bytes /\ c \in Bytes
      BY <1>1, <2>1, BytesSplit DEF Behind
    <2>3. Len(b) = k
      BY <1>1, <2>1, LenProperties, SubSeqProperties DEF Bytes
    <2> QED BY <2>2, <2>3
  <1> HIDE DEF b, c, n
  <1>4. SUFFICES ASSUME HasFrame(b)
                 PROVE  FALSE
    BY DEF b, w
  <1>5. HasFrame(w) /\ GetU32(w, 1) = GetU32(b, 1) /\ 4 + GetU32(b, 1) <= k
    <2>1. /\ HasFrame(b \o c) /\ GetU32(b \o c, 1) = GetU32(b, 1)
          /\ 4 + GetU32(b, 1) <= Len(b)
      BY <1>3, <1>4, FrameStays
    <2> QED BY <1>3, <2>1
  <1> DEFINE m == 4 + GetU32(w, 1)
  <1>6. m \in Nat /\ m <= k
    BY <1>1, <1>5, TryParseIs
  <1>7. TryParse(w) = [consumed |-> m, frames |-> <<ObjectIn(Body(w))>>]
    BY <1>1, <1>5, TryParseIs
  <1> HIDE DEF m
  <1>8. m = n
    BY <1>1, <1>7
  <1> QED BY <1>1, <1>2, <1>6, <1>8

\* Numbers that fit the fields of a frame.
LEMMA FieldsAre ==
  /\ -1 \in Longs
  /\ \A v \in Nat : v <= 16777215 => v \in Words /\ v \in Longs
  BY SmallWords, LongsAre

\* Some names.
LEMMA NamesAre ==
  /\ Alias \in Bytes /\ Len(Alias) = 5
  /\ <<>> \in Bytes /\ Len(<<>>) = 0
  /\ <<98>> \in Bytes /\ Len(<<98>>) = 1
  /\ <<115>> \in Bytes /\ Len(<<115>>) = 1
  <1>1. \A v \in {47, 97, 98, 99, 114, 115} : v \in Byte
    BY InByte
  <1>2. \A v, w, x, y, z \in Byte : <<v, w, x, y, z>> \in Bytes /\ Len(<<v, w, x, y, z>>) = 5
    BY DEF Bytes
  <1>3. \A v \in Byte : <<v>> \in Bytes /\ Len(<<v>>) = 1
    BY DEF Bytes
  <1>4. <<>> \in Bytes /\ Len(<<>>) = 0
    BY DEF Bytes
  <1>5. 47 \in Byte /\ 97 \in Byte /\ 98 \in Byte /\ 99 \in Byte /\ 114 \in Byte /\ 115 \in Byte
    BY <1>1
  <1>6. Alias \in Bytes /\ Len(Alias) = 5
    BY <1>2, <1>5 DEF Alias
  <1> QED BY <1>3, <1>4, <1>5, <1>6

\* The sample frames are frames there can be.
LEMMA SampleObjectsAre == SampleObjects \subseteq ObjectMessages
  <1> SUFFICES ASSUME NEW f \in SampleObjects
               PROVE  f \in ObjectMessages
    OBVIOUS
  <1>1. /\ f = [trackId |-> f.trackId, groupId |-> f.groupId, subgroupId |-> f.subgroupId,
                objectId |-> f.objectId, priority |-> f.priority,
                payloadLength |-> f.payloadLength, creationTime |-> f.creationTime,
                trackAlias |-> f.trackAlias]
        /\ f.trackId \in {0, 1} /\ f.groupId \in {255} /\ f.subgroupId \in {0}
        /\ f.objectId \in {0, 65536} /\ f.priority \in {-1, 3} /\ f.payloadLength \in {0, 1, 200}
        /\ f.creationTime \in {70000} /\ f.trackAlias \in {Alias, <<>>}
    BY DEF SampleObjects
  <1>2. \A v \in {0, 1, 3, 200, 255, 65536, 70000} : v \in Nat /\ v \in Longs
    <2>1. \A v \in {0, 1, 3, 200, 255, 65536, 70000} : v \in Nat /\ v <= 16777215
      OBVIOUS
    <2> QED BY <2>1, FieldsAre
  <1>3. f.trackAlias \in Bytes /\ Len(f.trackAlias) \in {0, 5}
    BY <1>1, NamesAre
  <1>4. 60 + Len(f.trackAlias) + f.payloadLength \in Words
    <2> DEFINE u == Len(f.trackAlias)
               v == f.payloadLength
    <2>1. u \in {0, 5} /\ v \in {0, 1, 200}
      BY <1>1, <1>3
    <2> HIDE DEF u, v
    <2>2. 60 + u + v \in Nat /\ 60 + u + v <= 16777215
      BY <2>1
    <2> QED BY <2>2, FieldsAre DEF u, v
  <1>5. /\ f.trackId \in Longs /\ f.groupId \in Longs /\ f.subgroupId \in Longs
        /\ f.objectId \in Longs /\ f.priority \in Longs /\ f.payloadLength \in Longs \cap Nat
        /\ f.creationTime \in Longs
    BY <1>1, <1>2, FieldsAre
  <1> QED BY <1>1, <1>3, <1>4, <1>5 DEF ObjectMessages

LEMMA SampleControlAre == SampleControl \subseteq ControlMessages
  <1> SUFFICES ASSUME NEW c \in SampleControl
               PROVE  c \in ControlMessages
    OBVIOUS
  <1>1. /\ c = [type |-> c.type, trackId |-> c.trackId, publisherId |-> c.publisherId,
                priority |-> c.priority, payloadSize |-> c.payloadSize,
                startObjectId |-> c.startObjectId, subscriberPriority |-> c.subscriberPriority,
                statusCode |-> c.statusCode, sendInterval |-> c.sendInterval,
                deliveryTimeout |-> c.deliveryTimeout, trackNamespace |-> c.trackNamespace,
                trackName |-> c.trackName, trackAlias |-> c.trackAlias,
                subscriberId |-> c.subscriberId]
        /\ c.type \in {1, 4} /\ c.trackId \in {1} /\ c.publisherId \in {2}
        /\ c.priority \in {-1, 256} /\ c.payloadSize \in {0, 37500} /\ c.startObjectId \in {0}
        /\ c.subscriberPriority \in {5} /\ c.statusCode \in {6} /\ c.sendInterval \in {0, 100000}
        /\ c.deliveryTimeout \in {0}
    BY DEF SampleControl
  <1>2. /\ c.trackNamespace \in {<<>>, Alias} /\ c.trackName = <<98>>
        /\ c.trackAlias = Alias /\ c.subscriberId = <<115>>
    BY DEF SampleControl
  <1>3. /\ c.trackNamespace \in Bytes /\ Len(c.trackNamespace) \in {0, 5}
        /\ c.trackName \in Bytes /\ Len(c.trackName) = 1
        /\ c.trackAlias \in Bytes /\ Len(c.trackAlias) = 5
        /\ c.subscriberId \in Bytes /\ Len(c.subscriberId) = 1
    BY <1>2, NamesAre
  <1>4. \A v \in {0, 1, 2, 5, 6, 256, 37500, 100000} : v \in Longs
    <2>1. \A v \in {0, 1, 2, 5, 6, 256, 37500, 100000} : v \in Nat /\ v <= 16777215
      OBVIOUS
    <2> QED BY <2>1, FieldsAre
  <1>5. /\ c.trackId \in Longs /\ c.publisherId \in Longs /\ c.priority \in Longs
        /\ c.payloadSize \in Longs /\ c.startObjectId \in Longs /\ c.subscriberPriority \in Longs
        /\ c.statusCode \in Longs /\ c.sendInterval \in Longs /\ c.deliveryTimeout \in Longs
    BY <1>1, <1>4, FieldsAre
  <1>6. c.type \in Byte
    <2>1. 1 \in Byte /\ 4 \in Byte
      BY InByte
    <2> QED BY <1>1, <2>1
  <1>7. 89 + Len(c.trackNamespace) + Len(c.trackName) + Len(c.trackAlias) + Len(c.subscriberId)
          \in Words
    <2>1. 96 \in Words /\ 101 \in Words
      <3>1. 96 \in Nat /\ 101 \in Nat /\ 96 <= 16777215 /\ 101 <= 16777215
        OBVIOUS
      <3> QED BY <3>1, FieldsAre
    <2> DEFINE u == Len(c.trackNamespace)
    <2>2. u = 0 \/ u = 5
      BY <1>3
    <2> HIDE DEF u
    <2>3. 89 + u + 1 + 5 + 1 = 96 \/ 89 + u + 1 + 5 + 1 = 101
      BY <2>2
    <2> QED BY <1>3, <2>1, <2>3 DEF u
  <1> DEFINE R == [type : Byte, trackId : Longs, publisherId : Longs, priority : Longs,
                   payloadSize : Longs, startObjectId : Longs, subscriberPriority : Longs,
                   statusCode : Longs, sendInterval : Longs, deliveryTimeout : Longs,
                   trackNamespace : Bytes, trackName : Bytes, trackAlias : Bytes,
                   subscriberId : Bytes]
  <1>8. c \in R
    BY <1>1, <1>3, <1>5, <1>6
  <1> HIDE DEF R
  <1>9. ControlMessages =
          {m \in R : 89 + Len(m.trackNamespace) + Len(m.trackName) + Len(m.trackAlias)
                       + Len(m.subscriberId) \in Words}
    BY DEF ControlMessages, R
  <1> QED BY <1>7, <1>8, <1>9

LEMMA OnesAre == OneObject \in ObjectMessages /\ OneControl \in ControlMessages
  <1>1. OneObject \in SampleObjects
    BY DEF OneObject, SampleObjects
  <1>2. OneControl \in SampleControl
    BY DEF OneControl, SampleControl
  <1> QED BY <1>1, <1>2, SampleObjectsAre, SampleControlAre

\* A frame comes out of its parser as it went into the encoder, and no proper part of it does.
LEMMA FramesInverted == FramesInvert
  <1>1. <<>> \in Bytes /\ \A w \in Bytes : w \o <<>> = w
    BY ConcatEmptySeq DEF Bytes
  <1>2. ASSUME NEW f \in SampleObjects
        PROVE  /\ TryParse(Encode(f)) = [consumed |-> Len(Encode(f)), frames |-> <<f>>]
               /\ ~HasFrame(SubSeq(Encode(f), 1, Len(Encode(f)) - 1))
    <2>1. f \in ObjectMessages
      BY SampleObjectsAre
    <2> DEFINE w == Encode(f)
    <2>2. /\ w \in Bytes /\ Len(w) = 64 + Len(f.trackAlias) + f.payloadLength
          /\ TryParse(w \o <<>>) = [consumed |-> Len(w), frames |-> <<f>>]
      BY <1>1, <2>1, ObjectRead
    <2>3. f.payloadLength \in Nat /\ Len(f.trackAlias) \in Nat
      BY <2>1, BytesAre DEF ObjectMessages
    <2> HIDE DEF w
    <2>4. Len(w) - 1 \in Nat /\ Len(w) - 1 < Len(w)
      BY <2>2, <2>3
    <2>5. ~HasFrame(SubSeq(w, 1, Len(w) - 1))
      BY <2>1, <2>4, FrontIsNoFrame DEF w
    <2> QED BY <1>1, <2>2, <2>5 DEF w
  <1>3. ASSUME NEW c \in SampleControl
        PROVE  TryParseControl(EncodeControl(c))
                 = [consumed |-> Len(EncodeControl(c)), frames |-> <<c>>]
    <2>1. c \in ControlMessages
      BY SampleControlAre
    <2> DEFINE w == EncodeControl(c)
    <2>2. w \in Bytes /\ TryParseControl(w \o <<>>) = [consumed |-> Len(w), frames |-> <<c>>]
      BY <1>1, <2>1, ControlRead
    <2> HIDE DEF w
    <2> QED BY <1>1, <2>2 DEF w
  <1> QED BY <1>2, <1>3 DEF FramesInvert

\* However a TCP stream is cut, the receive loop yields the frames written, each once.
LEMMA EnvelopesInverted == EnvelopesInvert
  <1> DEFINE control == EncodeEnvelope(MSG_CONTROL, EncodeControl(OneControl))
             object  == EncodeEnvelope(MSG_OBJECT, Encode(OneObject))
             ms      == <<OneControl, OneObject, OneControl>>
             ws      == <<control, object, control>>
             bytes   == FlattenSeq(ws)
  <1>1. Enveloped(control, OneControl) /\ Enveloped(object, OneObject)
    BY OnesAre DEF Enveloped
  <1> HIDE DEF control, object
  <1>2. control \in Bytes /\ object \in Bytes /\ OneControl \in AnyFrames /\ OneObject \in AnyFrames
    BY <1>1, EnvelopeRead
  <1>3. ms \in Seq(AnyFrames) /\ Len(ms) = 3
    BY <1>2
  <1>4. ws \in Seq(Bytes) /\ Len(ws) = Len(ms)
    BY <1>2
  <1>5. \A i \in 1 .. Len(ms) : Enveloped(ws[i], ms[i])
    <2>1. \A i \in 1 .. Len(ms) : i = 1 \/ i = 2 \/ i = 3
      BY <1>3
    <2> QED BY <1>1, <2>1
  <1> HIDE DEF ms, ws
  <1>6. bytes \in Bytes
    BY <1>3, <1>4, <1>5, EnvelopesRead
  <1>7. ASSUME NEW k \in 0 .. Len(bytes)
        PROVE  LET first == Received(<<>>, SubSeq(bytes, 1, k))
                   rest  == Received(first.buffer, SubSeq(bytes, k + 1, Len(bytes)))
               IN  first.frames \o rest.frames = ms /\ rest.buffer = <<>>
    <2>1. k \in Nat /\ k <= Len(bytes)
      BY <1>6, BytesAre
    <2> QED BY <1>3, <1>4, <1>5, <2>1, EnvelopesCut
  <1> QED BY <1>7 DEF EnvelopesInvert, ms, ws, control, object

\* Whatever the size of the datagrams, the order they come in and how often each comes, a
\* frame is complete with the last of its fragments, not before, and is as it was.
LEMMA FragmentsInverted == FragmentsInvert
  <1> DEFINE frame == Encode(OneObject)
  <1>1. frame \in Strings
    <2>1. frame \in Bytes /\ Len(frame) = 64 + Len(OneObject.trackAlias) + OneObject.payloadLength
      BY OnesAre, ObjectRead
    <2>2. OneObject.trackAlias = Alias /\ OneObject.payloadLength = 1
      BY DEF OneObject
    <2> HIDE DEF frame
    <2>3. Len(frame) = 70
      BY <2>1, <2>2, NamesAre
    <2>4. 70 \in Words
      <3>1. 70 \in Nat /\ 70 <= 16777215
        OBVIOUS
      <3> QED BY <3>1, FieldsAre
    <2> QED BY <2>1, <2>3, <2>4 DEF Strings
  <1>2. Alias \in Strings
    <2>1. 5 \in Words
      <3>1. 5 \in Nat /\ 5 <= 16777215
        OBVIOUS
      <3> QED BY <3>1, FieldsAre
    <2> QED BY <2>1, NamesAre DEF Strings
  <1>3. MSG_OBJECT \in Byte /\ -1 \in Longs
    BY InByte, FieldsAre DEF MSG_OBJECT
  <1> HIDE DEF frame
  <1>4. ASSUME NEW size \in Int
        PROVE  LET frags == FragmentFrame(MSG_OBJECT, Alias, -1, frame, size)
                   n     == Len(frags)
               IN  \A order \in UNION {[1 .. m -> 1 .. n] : m \in 0 .. n + 1} :
                     LET r == Reassembled([i \in DOMAIN order |-> frags[order[i]]])
                     IN  /\ r.complete <=> \A k \in 1 .. n : \E i \in DOMAIN order : order[i] = k
                         /\ r.complete => r.data = frame
    <2> DEFINE frags == FragmentFrame(MSG_OBJECT, Alias, -1, frame, size)
               n     == Len(frags)
    <2>1. n \in Nat
      <3>1. \E s, m : Fragmented(frags, MSG_OBJECT, Alias, -1, frame, s, m)
        BY <1>1, <1>2, <1>3, FragmentsRead
      <3> QED BY <3>1 DEF Fragmented, Pieces
    <2>2. \A order \in Seq(1 .. n) :
            LET r == Reassembled([i \in DOMAIN order |-> frags[order[i]]])
            IN  /\ r.complete <=> \A k \in 1 .. n : \E i \in DOMAIN order : order[i] = k
                /\ r.complete => r.data = frame
      BY <1>1, <1>2, <1>3, FragmentsReassemble
    <2> HIDE DEF frags, n
    <2>3. UNION {[1 .. m -> 1 .. n] : m \in 0 .. n + 1} \subseteq Seq(1 .. n)
      BY <2>1
    <2> QED BY <2>2, <2>3 DEF frags, n
  <1> DEFINE sizes == {18, 34, 35, 36, 69, 70, 71, 1200}
  <1>5. \A size \in sizes : size \in Int
    OBVIOUS
  <1> HIDE DEF sizes
  <1>6. \A size \in sizes :
          LET frags == FragmentFrame(MSG_OBJECT, Alias, -1, frame, size)
              n     == Len(frags)
          IN  \A order \in UNION {[1 .. m -> 1 .. n] : m \in 0 .. n + 1} :
                LET r == Reassembled([i \in DOMAIN order |-> frags[order[i]]])
                IN  /\ r.complete <=> \A k \in 1 .. n : \E i \in DOMAIN order : order[i] = k
                    /\ r.complete => r.data = frame
    BY <1>4, <1>5
  <1> QED BY <1>6, ZenonT(30) DEF FragmentsInvert, sizes, frame

-----------------------------------------------------------------------------
(* The frames of the model as bytes.                                       *)

\* The names of the tracks.
LEMMA NameIs ==
  ASSUME NEW t
  PROVE  Name(t) \in Bytes /\ Len(Name(t)) \in {3, 4} /\ Name(t) \in Strings
  <1>1. 47 \in Byte /\ 98 \in Byte /\ 99 \in Byte /\ 112 \in Byte
    BY InByte
  <1>2. \A v, w, x, y \in Byte : /\ <<v, w, x>> \in Bytes /\ Len(<<v, w, x>>) = 3
                                 /\ <<v, w, x, y>> \in Bytes /\ Len(<<v, w, x, y>>) = 4
    BY DEF Bytes
  <1>3. Name(t) \in Bytes /\ Len(Name(t)) \in {3, 4}
    <2>1. /\ <<99, 47, 98>> \in Bytes /\ Len(<<99, 47, 98>>) = 3
          /\ <<99, 47, 112, 99>> \in Bytes /\ Len(<<99, 47, 112, 99>>) = 4
      <3>1. PICK a \in Byte, b \in Byte, c \in Byte, d \in Byte :
              a = 99 /\ b = 47 /\ c = 98 /\ d = 112
        BY <1>1
      <3>2. /\ <<a, b, c>> \in Bytes /\ Len(<<a, b, c>>) = 3
            /\ <<a, b, d, a>> \in Bytes /\ Len(<<a, b, d, a>>) = 4
        BY <1>2
      <3> QED BY <3>1, <3>2
    <2> DEFINE v == <<99, 47, 98>>
               w == <<99, 47, 112, 99>>
    <2>2. Name(t) = v \/ Name(t) = w
      BY DEF Name
    <2>3. v \in Bytes /\ Len(v) = 3 /\ w \in Bytes /\ Len(w) = 4
      BY <2>1
    <2> HIDE DEF v, w
    <2> QED BY <2>2, <2>3
  <1>4. \A v \in {3, 4} : v \in Words
    <2>1. \A v \in {3, 4} : v \in Nat /\ v <= 16777215
      OBVIOUS
    <2> QED BY <2>1, FieldsAre
  <1> QED BY <1>3, <1>4 DEF Strings

\* What a possible frame says.
LEMMA PossibleIs ==
  ASSUME NEW f \in Possible
  PROVE  /\ f.track \in Tracks
         /\ f.class = "OBJECT" =>
              f.objectId \in Nat /\ f.objectId <= MaxObjects[f.track]
         /\ f.class # "OBJECT" =>
              f.class \in {"ANNOUNCE", "SUBSCRIBE", "SUBSCRIBE_OK"} /\ f.objectId = -1
  <1>1. CASE f \in [class : {"ANNOUNCE", "SUBSCRIBE", "SUBSCRIBE_OK"}, track : Tracks,
                    objectId : {-1}]
    BY <1>1
  <1>2. CASE \E t \in Tracks :
               f \in [class : {"OBJECT"}, track : {t}, objectId : 0 .. MaxObjects[t] - 1]
    <2>1. PICK t \in Tracks :
                 f \in [class : {"OBJECT"}, track : {t}, objectId : 0 .. MaxObjects[t] - 1]
      BY <1>2
    <2>2. f.class = "OBJECT" /\ f.track = t /\ f.objectId \in 0 .. MaxObjects[t] - 1
      BY <2>1
    <2>3. MaxObjects[t] \in Nat
      BY DirectAssumption
    <2>4. f.objectId \in Nat /\ f.objectId <= MaxObjects[t]
      BY <2>2, <2>3
    <2> QED BY <2>2, <2>4
  <1> QED BY <1>1, <1>2 DEF Possible

\* An object fills its datagrams.
LEMMA SaidObject ==
  ASSUME NEW f \in Possible, f.class = "OBJECT"
  PROVE  /\ Said(f) \in ObjectMessages /\ Written(f) = Encode(Said(f))
         /\ Len(Written(f)) = MaxChunk * Fragments[f.track]
         /\ MaxChunk * Fragments[f.track] \in Words
         /\ Fragments[f.track] \in Nat \ {0} /\ f.objectId \in Longs
  <1> DEFINE t    == f.track
             name == Name(t)
             l    == Len(name)
             w    == MaxChunk * Fragments[t]
             p    == w - 64 - l
  <1>1. t \in Tracks /\ f.objectId \in Nat /\ f.objectId <= MaxObjects[t]
    BY PossibleIs
  <1>2. Fragments[t] \in Nat \ {0} /\ w \in Words /\ MaxObjects[t] \in Longs
    BY <1>1, DirectAssumption, FieldsHold
  <1>3. f.objectId \in Longs /\ 0 \in Longs
    BY <1>1, <1>2, LongsAre, WordsAre
  <1>4. name \in Bytes /\ l \in {3, 4}
    BY NameIs
  <1>5. Said(f) = [trackId |-> 0, groupId |-> f.objectId, subgroupId |-> 0,
                   objectId |-> f.objectId, priority |-> 0, payloadLength |-> p,
                   creationTime |-> 0, trackAlias |-> name]
    BY DEF Said
  <1>6. w \in Nat /\ w >= 200
    <2> DEFINE n == Fragments[t]
    <2>1. n \in Nat /\ n >= 1
      BY <1>2
    <2> HIDE DEF n
    <2>2. MaxChunk * n \in Nat /\ MaxChunk * n >= 200
      BY <2>1 DEF MaxChunk
    <2> QED BY <2>2 DEF n
  <1> HIDE DEF name, l, w
  <1>7. p \in Nat /\ p <= w /\ 60 + l + p \in Nat /\ 60 + l + p <= w /\ 64 + l + p = w
    BY <1>4, <1>6
  <1> HIDE DEF p
  <1>8. p \in Longs \cap Nat /\ 60 + l + p \in Words
    BY <1>2, <1>7, WordsAre, LongsAre
  <1> DEFINE m == [trackId |-> 0, groupId |-> f.objectId, subgroupId |-> 0,
                   objectId |-> f.objectId, priority |-> 0, payloadLength |-> p,
                   creationTime |-> 0, trackAlias |-> name]
  <1>9. m \in ObjectMessages
    <2>1. m \in [trackId : Longs, groupId : Longs, subgroupId : Longs, objectId : Longs,
                 priority : Longs, payloadLength : Longs \cap Nat, creationTime : Longs,
                 trackAlias : Bytes]
      BY <1>3, <1>4, <1>8
    <2>2. m.trackAlias = name /\ m.payloadLength = p
      OBVIOUS
    <2> HIDE DEF m
    <2> QED BY <1>8, <2>1, <2>2 DEF ObjectMessages, l
  <1>10. m.trackAlias = name /\ m.payloadLength = p
    OBVIOUS
  <1>11. Said(f) = m /\ Written(f) = Encode(m)
    BY <1>5 DEF Written
  <1> HIDE DEF m
  <1>12. Len(Encode(m)) = 64 + l + p
    BY <1>9, <1>10, ObjectRead DEF l
  <1> QED BY <1>2, <1>3, <1>7, <1>9, <1>11, <1>12 DEF w

\* A control message fits one datagram.
LEMMA SaidControl ==
  ASSUME NEW f \in Possible, f.class # "OBJECT"
  PROVE  /\ Said(f) \in ControlMessages /\ Written(f) = EncodeControl(Said(f))
         /\ Len(Written(f)) \in 1 .. MaxChunk /\ f.objectId \in Longs
  <1> DEFINE name == Name(f.track)
             type == CASE f.class = "ANNOUNCE" -> 1 [] f.class = "SUBSCRIBE" -> 2 [] OTHER -> 3
             m    == [OneControl EXCEPT !.trackAlias = name, !.type = type]
  <1>1. f.objectId \in Longs
    BY PossibleIs, FieldsAre
  <1>2. name \in Bytes /\ Len(name) \in {3, 4}
    BY NameIs
  <1>3. type \in Byte
    <2>1. 1 \in Byte /\ 2 \in Byte /\ 3 \in Byte
      BY InByte
    <2>2. type \in {1, 2, 3}
      OBVIOUS
    <2> HIDE DEF type
    <2> QED BY <2>1, <2>2
  <1>4. Said(f) = m /\ Written(f) = EncodeControl(m)
    BY DEF Said, Written
  <1> HIDE DEF name, type
  <1> DEFINE R == [type : Byte, trackId : Longs, publisherId : Longs, priority : Longs,
                   payloadSize : Longs, startObjectId : Longs, subscriberPriority : Longs,
                   statusCode : Longs, sendInterval : Longs, deliveryTimeout : Longs,
                   trackNamespace : Bytes, trackName : Bytes, trackAlias : Bytes,
                   subscriberId : Bytes]
  <1>5. OneControl \in R
    BY OnesAre DEF ControlMessages
  <1>6. /\ OneControl.trackNamespace = <<>> /\ OneControl.trackName = <<98>>
        /\ OneControl.subscriberId = <<115>>
    BY DEF OneControl
  <1>7. PICK r \in R : r = OneControl
    BY <1>5
  <1>8. /\ m \in R /\ m.trackNamespace = <<>> /\ m.trackName = <<98>> /\ m.trackAlias = name
        /\ m.subscriberId = <<115>>
    <2>1. /\ m \in R /\ m.trackNamespace = r.trackNamespace
          /\ m.trackName = r.trackName /\ m.trackAlias = name
          /\ m.subscriberId = r.subscriberId
      <3>1. m = [r EXCEPT !.trackAlias = name, !.type = type]
        BY <1>7
      <3>2. name \in Bytes /\ type \in Byte
        BY <1>2, <1>3
      <3> HIDE DEF m
      <3> QED BY <3>1, <3>2
    <2> HIDE DEF m
    <2> QED BY <1>6, <1>7, <2>1
  <1> HIDE DEF m, R
  <1>9. /\ Len(m.trackNamespace) = 0 /\ Len(m.trackName) = 1 /\ Len(m.trackAlias) \in {3, 4}
        /\ Len(m.subscriberId) = 1
    BY <1>2, <1>8, NamesAre
  <1>10. 89 + Len(m.trackNamespace) + Len(m.trackName) + Len(m.trackAlias) + Len(m.subscriberId)
           \in Words
    <2>1. 94 \in Words /\ 95 \in Words
      <3>1. 94 \in Nat /\ 95 \in Nat /\ 94 <= 16777215 /\ 95 <= 16777215
        OBVIOUS
      <3> QED BY <3>1, FieldsAre
    <2> DEFINE u == Len(m.trackAlias)
    <2>2. u = 3 \/ u = 4
      BY <1>9
    <2> HIDE DEF u
    <2>3. 89 + 0 + 1 + u + 1 = 94 \/ 89 + 0 + 1 + u + 1 = 95
      BY <2>2
    <2> QED BY <1>9, <2>1, <2>3 DEF u
  <1>11. m \in ControlMessages
    <2>1. ControlMessages =
            {c \in R : 89 + Len(c.trackNamespace) + Len(c.trackName) + Len(c.trackAlias)
                         + Len(c.subscriberId) \in Words}
      BY DEF ControlMessages, R
    <2> QED BY <1>8, <1>10, <2>1
  <1>12. Len(EncodeControl(m)) \in 1 .. MaxChunk
    <2> DEFINE u == Len(m.trackAlias)
               v == Len(EncodeControl(m))
    <2>1. v = 93 + Len(m.trackNamespace) + Len(m.trackName) + u + Len(m.subscriberId)
      BY <1>11, ControlRead
    <2>2. v = 93 + 0 + 1 + u + 1 /\ u \in {3, 4}
      BY <1>9, <2>1
    <2> HIDE DEF u, v
    <2> QED BY <2>2 DEF MaxChunk, v
  <1> QED BY <1>1, <1>4, <1>11, <1>12

\* Every frame there can be is read back, from its envelope and from its datagrams.
LEMMA PossibleReadBackHolds == PossibleReadBack
  <1> SUFFICES ASSUME NEW f \in Possible
               PROVE  ReadsBack(f)
    BY DEF PossibleReadBack
  <1> DEFINE class == Class(f)
             frame == Written(f)
             alias == Name(f.track)
             id    == f.objectId
             wire  == EncodeEnvelope(class, frame)
             k     == FragmentCount(f)
             frags == FragmentFrame(class, alias, id, frame, MaxChunk)
  <1>1. /\ Enveloped(wire, Said(f)) /\ frame \in Strings /\ class \in {MSG_CONTROL, MSG_OBJECT}
        /\ id \in Longs /\ \A n : Pieces(MaxChunk, Len(frame), n) => n = k
    <2>1. CASE f.class = "OBJECT"
      <3>1. Enveloped(wire, Said(f)) /\ frame \in Bytes /\ class = MSG_OBJECT
        BY <2>1, SaidObject, ObjectRead DEF Enveloped, Class
      <3>2. Len(frame) \in Words /\ id \in Longs
        BY <2>1, SaidObject
      <3>3. k \in Nat \ {0} /\ Len(frame) = MaxChunk * k
        BY <2>1, SaidObject DEF FragmentCount
      <3> HIDE DEF frame, k, class, wire
      <3>4. \A n : Pieces(MaxChunk, Len(frame), n) => n = k
        BY <3>3, WholePieces
      <3> QED BY <3>1, <3>2, <3>4 DEF Strings
    <2>2. CASE f.class # "OBJECT"
      <3>1. Enveloped(wire, Said(f)) /\ frame \in Bytes /\ class = MSG_CONTROL
        BY <2>2, SaidControl, ControlRead DEF Enveloped, Class
      <3>2. id \in Longs /\ Len(frame) \in 1 .. MaxChunk
        BY <2>2, SaidControl
      <3>3. k = 1
        BY <2>2 DEF FragmentCount
      <3> HIDE DEF frame, k, class, wire
      <3> DEFINE l == Len(frame)
      <3>4. l \in Nat /\ l <= 200 /\ l <= 16777215
        <4>1. l \in 1 .. 200
          BY <3>2 DEF MaxChunk
        <4> HIDE DEF l
        <4> QED BY <4>1
      <3> HIDE DEF l
      <3>5. l \in Words
        BY <3>4, FieldsAre
      <3>6. ASSUME NEW n, Pieces(MaxChunk, l, n)
            PROVE  n = 1
        BY <3>4, <3>6 DEF Pieces, MaxChunk
      <3> QED BY <3>1, <3>2, <3>3, <3>5, <3>6 DEF Strings, l
    <2> QED BY <2>1, <2>2
  <1>2. class \in Byte
    <2>1. 1 \in Byte /\ 2 \in Byte
      BY InByte
    <2> QED BY <1>1, <2>1 DEF MSG_CONTROL, MSG_OBJECT
  <1>3. alias \in Strings /\ MaxChunk \in Int /\ MaxChunk >= 1
    BY NameIs DEF MaxChunk
  <1> HIDE DEF class, frame, alias, id, wire, k
  <1>4. TryParseEnvelope(wire) = [consumed |-> Len(wire), frames |-> <<Said(f)>>]
    BY <1>1, EnvelopeRead
  <1>5. Fragmented(frags, class, alias, id, frame, MaxChunk, k)
    <2>1. PICK s, n : /\ Fragmented(frags, class, alias, id, frame, s, n)
                      /\ MaxChunk >= 1 => s = MaxChunk
      BY <1>1, <1>2, <1>3, FragmentsRead
    <2>2. s = MaxChunk /\ Pieces(MaxChunk, Len(frame), n)
      BY <1>3, <2>1 DEF Fragmented
    <2> QED BY <1>1, <2>1, <2>2
  <1>6. frags = [i \in DOMAIN frags |-> frags[i]]
    BY DEF FragmentFrame
  <1>7. \A order \in Seq(1 .. Len(frags)) :
          LET r == Reassembled([i \in DOMAIN order |-> frags[order[i]]])
          IN  /\ r.complete <=> \A j \in 1 .. Len(frags) : \E i \in DOMAIN order : order[i] = j
              /\ r.complete => r.data = frame
    BY <1>1, <1>2, <1>3, FragmentsReassemble
  <1> HIDE DEF frags
  <1>8. k \in Nat /\ Len(frags) = k /\ DOMAIN frags = 1 .. k
    BY <1>5 DEF Fragmented, Pieces
  <1>9. \A i \in 1 .. k :
          ParseUdpFragment(frags[i])
            = [ok |-> TRUE, msgClass |-> class, objectId |-> id, fragIndex |-> i - 1,
               fragCount |-> k, fragOffset |-> (i - 1) * MaxChunk, totalLen |-> Len(frame),
               trackAlias |-> alias, chunk |-> Piece(frame, MaxChunk, i)]
    BY <1>5 DEF Fragmented
  <1>10. Reassembled(frags).complete /\ Reassembled(frags).data = frame
    <2> DEFINE order == [i \in 1 .. k |-> i]
    <2>1. order \in Seq(1 .. Len(frags))
      BY <1>8
    <2>2. DOMAIN order = 1 .. k /\ \A i \in 1 .. k : order[i] = i
      OBVIOUS
    <2> HIDE DEF order
    <2>3. [i \in DOMAIN order |-> frags[order[i]]] = frags
      BY <1>6, <1>8, <2>2
    <2>4. /\ Reassembled(frags).complete
               <=> \A j \in 1 .. Len(frags) : \E i \in DOMAIN order : order[i] = j
          /\ Reassembled(frags).complete => Reassembled(frags).data = frame
      BY <1>7, <2>1, <2>3
    <2> QED BY <1>8, <2>2, <2>4
  <1>11. ASSUME NEW i \in 1 .. k
         PROVE  LET d == ParseUdpFragment(frags[i])
                IN  /\ d.ok /\ d.msgClass = class /\ d.trackAlias = alias
                    /\ d.objectId = id /\ d.fragIndex = i - 1 /\ d.fragCount = k
    <2> DEFINE d == ParseUdpFragment(frags[i])
               o == (i - 1) * MaxChunk
               c == Piece(frame, MaxChunk, i)
    <2>1. d = [ok |-> TRUE, msgClass |-> class, objectId |-> id, fragIndex |-> i - 1,
               fragCount |-> k, fragOffset |-> o, totalLen |-> Len(frame),
               trackAlias |-> alias, chunk |-> c]
      BY <1>9
    <2> HIDE DEF d, o, c
    <2>2. d.ok /\ d.msgClass = class /\ d.trackAlias = alias
      BY <2>1
    <2>3. d.objectId = id /\ d.fragIndex = i - 1 /\ d.fragCount = k
      BY <2>1
    <2> QED BY <2>2, <2>3 DEF d
  <1> QED BY <1>4, <1>8, <1>10, <1>11 DEF ReadsBack, class, frame, alias, id, wire, k, frags

-----------------------------------------------------------------------------
(* Only frames there can be are under way.                                 *)

\* An object has one of the numbers its track has.
Numbered(f) == f.class = "OBJECT" => f.objectId < MaxObjects[f.track]

AllNumbered(q) == \A i \in DOMAIN q : Numbered(q[i])

\* So has every object under way.
NumberedInv ==
  /\ \A t \in Tracks : nextObjectId[t] <= MaxObjects[t]
  /\ \A p \in Peers : AllNumbered(toRelay[p]) /\ AllNumbered(toPeer[p])
  /\ \A d \in DOMAIN net : Numbered(d.frame)

\* A frame so numbered is one there can be.
LEMMA NumberedIs ==
  ASSUME NEW f \in Frames, Numbered(f)
  PROVE  f \in Possible
  <1>1. CASE f.class = "OBJECT"
    <2>1. f \in [class : {"OBJECT"}, track : Tracks, objectId : Nat] /\ f.track \in Tracks
      BY <1>1 DEF Frames
    <2>2. MaxObjects[f.track] \in Nat
      BY <2>1, DirectAssumption
    <2>3. f.objectId \in 0 .. MaxObjects[f.track] - 1
      BY <1>1, <2>1, <2>2 DEF Numbered
    <2>4. f \in [class : {"OBJECT"}, track : {f.track}, objectId : 0 .. MaxObjects[f.track] - 1]
      BY <1>1, <2>1, <2>3
    <2> QED BY <2>1, <2>4 DEF Possible
  <1>2. CASE f.class # "OBJECT"
    BY <1>2 DEF Frames, Possible
  <1> QED BY <1>1, <1>2

\* Frames taken from a queue, or put behind it.
LEMMA NumberedQueues ==
  ASSUME NEW q \in Seq(Frames), AllNumbered(q)
  PROVE  /\ q # <<>> => Numbered(Head(q)) /\ AllNumbered(Tail(q))
         /\ \A g \in Seq(Frames) : AllNumbered(g) => AllNumbered(q \o g)
  <1>1. ASSUME q # <<>>
        PROVE  Numbered(Head(q)) /\ AllNumbered(Tail(q))
    <2>1. 1 \in DOMAIN q /\ Head(q) = q[1]
      BY <1>1
    <2>2. \A i \in DOMAIN Tail(q) : i + 1 \in DOMAIN q /\ Tail(q)[i] = q[i + 1]
      BY <1>1
    <2> QED BY <2>1, <2>2 DEF AllNumbered
  <1>2. ASSUME NEW g \in Seq(Frames), AllNumbered(g)
        PROVE  AllNumbered(q \o g)
    <2>1. \A i \in DOMAIN (q \o g) : \/ i \in DOMAIN q /\ (q \o g)[i] = q[i]
                                     \/ i - Len(q) \in DOMAIN g /\ (q \o g)[i] = g[i - Len(q)]
      OBVIOUS
    <2> QED BY <1>2, <2>1 DEF AllNumbered
  <1> QED BY <1>1, <1>2

\* The relay answers a numbered frame with such frames.
LEMMA NumberedAnswers ==
  ASSUME RelayOK, NEW f \in Frames, Numbered(f)
  PROVE  /\ Answers(f) \in [Peers -> Seq(Frames)]
         /\ \A p \in Peers : AllNumbered(Answers(f)[p])
  <1>1. /\ Answers(f) \in [Peers -> Seq(Frames)]
        /\ \A p \in Peers : \A i \in DOMAIN Answers(f)[p] :
             Answers(f)[p][i].class = "OBJECT" => Answers(f)[p][i] = f
    BY AnswersType
  <1> HIDE DEF Answers
  <1> QED BY <1>1 DEF AllNumbered, Numbered

\* What the relay sends, after it has taken a datagram or not.
LEMMA NumberedRelaySends ==
  ASSUME WiresInv, NumberedInv, NEW frames \in [Peers -> Seq(Frames)],
         \A p \in Peers : AllNumbered(frames[p]),
         NEW n, IsABag(n), DOMAIN n \subseteq DOMAIN net, RelaySends(frames, n)
  PROVE  /\ \A p \in Peers : AllNumbered(toPeer'[p])
         /\ \A d \in DOMAIN net' : Numbered(d.frame)
  <1>1. CASE proto = "tcp"
    <2>1. net' = n /\ toPeer' = [p \in Peers |-> toPeer[p] \o frames[p]]
      BY <1>1 DEF RelaySends
    <2>2. \A p \in Peers : toPeer[p] \in Seq(Frames) /\ AllNumbered(toPeer[p])
      BY DEF WiresInv, NumberedInv
    <2>3. \A p \in Peers : AllNumbered(toPeer[p] \o frames[p])
      BY <2>2, NumberedQueues
    <2> QED BY <2>1, <2>3 DEF NumberedInv
  <1>2. CASE proto # "tcp"
    <2> DEFINE b == RelayFragments(frames)
    <2>1. net' = n (+) b /\ toPeer' = toPeer
      BY <1>2 DEF RelaySends
    <2>2. /\ IsABag(b)
          /\ \A d \in DOMAIN b : /\ d.to \in Peers
                                 /\ \E i \in DOMAIN frames[d.to] : d.frame = frames[d.to][i]
      BY RelayFragmentsBag
    <2> HIDE DEF b
    <2>3. DOMAIN net' = DOMAIN n \cup DOMAIN b
      BY <2>1, <2>2, BagAdd
    <2>4. \A d \in DOMAIN b : Numbered(d.frame)
      BY <2>2 DEF AllNumbered
    <2> QED BY <2>1, <2>3, <2>4 DEF NumberedInv
  <1> QED BY <1>1, <1>2

\* What a peer sends.
LEMMA NumberedPeerSends ==
  ASSUME WiresInv, NumberedInv, NEW p \in Peers, NEW fs \in Seq(Frames), AllNumbered(fs),
         PeerSends(p, fs)
  PROVE  /\ \A r \in Peers : AllNumbered(toRelay'[r])
         /\ \A d \in DOMAIN net' : Numbered(d.frame)
  <1>1. CASE proto = "tcp"
    <2>1. net' = net /\ toRelay' = [toRelay EXCEPT ![p] = @ \o fs]
      BY <1>1 DEF PeerSends
    <2>2. toRelay[p] \in Seq(Frames) /\ AllNumbered(toRelay[p])
      BY DEF WiresInv, NumberedInv
    <2>3. AllNumbered(toRelay[p] \o fs)
      BY <2>2, NumberedQueues
    <2>4. \A r \in Peers : toRelay'[r] = IF r = p THEN toRelay[p] \o fs ELSE toRelay[r]
      BY <2>1 DEF WiresInv
    <2> QED BY <2>1, <2>3, <2>4 DEF NumberedInv
  <1>2. CASE proto # "tcp"
    <2> DEFINE b == AllFragments(p, Relay, fs)
    <2>1. net' = net (+) b /\ toRelay' = toRelay
      BY <1>2 DEF PeerSends
    <2>2. IsABag(b) /\ \A d \in DOMAIN b : \E i \in DOMAIN fs : d.frame = fs[i]
      BY FragmentsBag, Roles
    <2> HIDE DEF b
    <2>3. DOMAIN net' = DOMAIN net \cup DOMAIN b
      BY <2>1, <2>2, BagAdd DEF WiresInv
    <2>4. \A d \in DOMAIN b : Numbered(d.frame)
      BY <2>2 DEF AllNumbered
    <2> QED BY <2>1, <2>3, <2>4 DEF NumberedInv
  <1> QED BY <1>1, <1>2

\* Nothing is under way at first.
LEMMA NumberedInit == Init => NumberedInv
  <1> SUFFICES ASSUME Init
               PROVE  NumberedInv
    OBVIOUS
  <1>1. \A t \in Tracks : nextObjectId[t] <= MaxObjects[t]
    BY DirectAssumption DEF Init
  <1>2. \A p \in Peers : toRelay[p] = <<>> /\ toPeer[p] = <<>>
    BY DEF Init
  <1>3. DOMAIN net = {}
    BY DEF Init, EmptyBag, SetToBag
  <1> QED BY <1>1, <1>2, <1>3 DEF NumberedInv, AllNumbered

\* No step sends an object that has no number of its track.
LEMMA NumberedNext == ShapeInv /\ NumberedInv /\ [Next]_vars => NumberedInv'
  <1> SUFFICES ASSUME ShapeInv, NumberedInv, [Next]_vars
               PROVE  NumberedInv'
    OBVIOUS
  <1>0. WiresInv /\ ClientsOK /\ RelayOK
    BY DEF ShapeInv
  <1>A. ASSUME UNCHANGED <<nextObjectId, streams, net>>
        PROVE  NumberedInv'
    BY <1>A DEF NumberedInv, streams
  <1>B. ASSUME NEW q \in Seq(Frames), q # <<>>, AllNumbered(q)
        PROVE  Head(q) \in Frames /\ Numbered(Head(q)) /\ AllNumbered(Tail(q))
    BY <1>B, NumberedQueues
  <1>1. ASSUME NEW p \in Peers, Connect(p)
        PROVE  NumberedInv'
    BY <1>1, <1>A DEF Connect, udp
  <1>2. ASSUME NEW p \in Peers, RelayReceives(p)
        PROVE  NumberedInv'
    <2> DEFINE f == Head(toRelay[p])
    <2>1. f \in Frames /\ Numbered(f) /\ AllNumbered(Tail(toRelay[p]))
      BY <1>0, <1>2, <1>B DEF RelayReceives, WiresInv, NumberedInv
    <2>2. /\ RelayHandles(p, f, net) /\ toRelay' = [toRelay EXCEPT ![p] = Tail(@)]
          /\ nextObjectId' = nextObjectId
      BY <1>2 DEF RelayReceives, clients
    <2>3. RelaySends(Answers(f), net)
      BY <2>2, RelaySendsAnswers
    <2>4. Answers(f) \in [Peers -> Seq(Frames)] /\ \A r \in Peers : AllNumbered(Answers(f)[r])
      BY <1>0, <2>1, NumberedAnswers
    <2> HIDE DEF f
    <2>5. /\ \A r \in Peers : AllNumbered(toPeer'[r])
          /\ \A d \in DOMAIN net' : Numbered(d.frame)
      <3>1. IsABag(net)
        BY <1>0 DEF WiresInv
      <3> QED BY <1>0, <2>3, <2>4, <3>1, NumberedRelaySends
    <2>6. \A r \in Peers : toRelay'[r] = IF r = p THEN Tail(toRelay[p]) ELSE toRelay[r]
      BY <1>0, <2>2 DEF WiresInv
    <2> QED BY <2>1, <2>2, <2>5, <2>6 DEF NumberedInv
  <1>3. ASSUME NEW p \in Peers, PeerReceives(p)
        PROVE  NumberedInv'
    <2>1. toPeer[p] \in Seq(Frames) /\ toPeer[p] # <<>> /\ AllNumbered(toPeer[p])
      BY <1>0, <1>3 DEF PeerReceives, WiresInv, NumberedInv
    <2>2. AllNumbered(Tail(toPeer[p]))
      BY <2>1, <1>B
    <2>3. \A r \in Peers : toPeer'[r] = IF r = p THEN Tail(toPeer[p]) ELSE toPeer[r]
      BY <1>0, <1>3 DEF PeerReceives, WiresInv
    <2> QED BY <1>3, <2>2, <2>3 DEF PeerReceives, udp, NumberedInv
  <1>4. ASSUME NEW p \in Peers, Leave(p)
        PROVE  NumberedInv'
    BY <1>4, <1>A DEF Leave, udp
  <1>5. ASSUME NEW p \in Peers, SocketClosed(p)
        PROVE  NumberedInv'
    <2>1. \A r \in Peers : toRelay'[r] = IF r = p THEN <<>> ELSE toRelay[r]
      BY <1>0, <1>5 DEF SocketClosed, WiresInv
    <2>2. AllNumbered(<<>>)
      BY DEF AllNumbered
    <2>3. toPeer' = toPeer /\ net' = net /\ nextObjectId' = nextObjectId
      BY <1>5 DEF SocketClosed, udp, clients
    <2> QED BY <2>1, <2>2, <2>3 DEF NumberedInv
  <1>C. ASSUME NEW p \in Peers, NEW c \in {"ANNOUNCE", "SUBSCRIBE"}, NEW t \in Tracks,
               PeerSends(p, <<Control(c, t)>>), UNCHANGED <<nextObjectId, toPeer>>
        PROVE  NumberedInv'
    <2> DEFINE f == Control(c, t)
    <2>1. f \in Frames /\ f.class = c
      BY FrameTypes
    <2>2. Numbered(f)
      BY <2>1 DEF Numbered
    <2> HIDE DEF f
    <2>3. <<f>> \in Seq(Frames) /\ AllNumbered(<<f>>)
      BY <2>1, <2>2 DEF AllNumbered
    <2>4. PeerSends(p, <<f>>)
      BY <1>C DEF f
    <2>5. /\ \A r \in Peers : AllNumbered(toRelay'[r])
          /\ \A d \in DOMAIN net' : Numbered(d.frame)
      BY <1>0, <2>3, <2>4, NumberedPeerSends
    <2> QED BY <1>C, <2>5 DEF NumberedInv
  <1>6. ASSUME NEW t \in Tracks, Announce(t)
        PROVE  NumberedInv'
    BY <1>6, <1>C, Roles DEF Announce
  <1>7. ASSUME NEW t \in Tracks, SendGroup(t)
        PROVE  NumberedInv'
    <2> DEFINE fs == [i \in 1 .. ObjectsPerGroup[t] |-> Object(t, nextObjectId[t] + i - 1)]
    <2>1. /\ nextObjectId[t] \in Nat /\ ObjectsPerGroup[t] \in Nat \ {0} /\ MaxObjects[t] \in Nat
          /\ nextObjectId[t] + ObjectsPerGroup[t] <= MaxObjects[t]
      BY <1>0, <1>7, DirectAssumption DEF SendGroup, ClientsOK
    <2>2. fs \in Seq(Frames) /\ DOMAIN fs = 1 .. ObjectsPerGroup[t]
          /\ \A i \in DOMAIN fs : fs[i] = Object(t, nextObjectId[t] + i - 1)
      BY <1>0, GroupFrames
    <2>3. PeerSends(Publisher, fs) /\ Publisher \in Peers /\ toPeer' = toPeer
          /\ nextObjectId' = [nextObjectId EXCEPT ![t] = @ + ObjectsPerGroup[t]]
      BY <1>7, Roles DEF SendGroup
    <2> HIDE DEF fs
    <2>4. ASSUME NEW i \in DOMAIN fs
          PROVE  Numbered(fs[i])
      <3> DEFINE id == nextObjectId[t] + i - 1
      <3>1. id \in Nat /\ id < MaxObjects[t]
        BY <2>1, <2>2
      <3>2. fs[i] = Object(t, id)
        BY <2>2
      <3> HIDE DEF id
      <3>3. Object(t, id).track = t /\ Object(t, id).objectId = id
        BY <3>1, FrameTypes
      <3> QED BY <3>1, <3>2, <3>3 DEF Numbered
    <2>5. AllNumbered(fs)
      BY <2>4 DEF AllNumbered
    <2>6. /\ \A r \in Peers : AllNumbered(toRelay'[r])
          /\ \A d \in DOMAIN net' : Numbered(d.frame)
      BY <1>0, <2>2, <2>3, <2>5, NumberedPeerSends
    <2>7. \A u \in Tracks : nextObjectId'[u] <= MaxObjects[u]
      <3>1. \A u \in Tracks : nextObjectId'[u] = IF u = t THEN nextObjectId[t] + ObjectsPerGroup[t]
                                                 ELSE nextObjectId[u]
        BY <1>0, <2>3 DEF ClientsOK
      <3> QED BY <2>1, <3>1 DEF NumberedInv
    <2> QED BY <2>3, <2>6, <2>7 DEF NumberedInv
  <1>8. ASSUME NEW t \in Tracks, NEW s \in Subscribers, Subscribe(s, t)
        PROVE  NumberedInv'
    BY <1>8, <1>C, Roles DEF Subscribe
  <1>9. ASSUME NEW d \in DOMAIN net, DatagramArrives(d)
        PROVE  NumberedInv'
    <2> DEFINE n == net (-) SetToBag({d})
    <2>1. d.frame \in Frames /\ Numbered(d.frame)
      BY <1>0, DatagramType DEF WiresInv, NumberedInv
    <2>2. IsABag(n) /\ DOMAIN n \subseteq DOMAIN net
      BY <1>0, BagTake DEF WiresInv
    <2>3. nextObjectId' = nextObjectId /\ toRelay' = toRelay
      BY <1>9, Arrival
    <2>4. CASE Completes(d) /\ d.to = Relay
      <3>1. RelayHandles(d.from, d.frame, n)
        BY <1>9, <2>4, Arrival
      <3>2. RelaySends(Answers(d.frame), n)
        BY <3>1, RelaySendsAnswers
      <3>3. /\ Answers(d.frame) \in [Peers -> Seq(Frames)]
            /\ \A r \in Peers : AllNumbered(Answers(d.frame)[r])
        BY <1>0, <2>1, NumberedAnswers
      <3> HIDE DEF n
      <3>4. /\ \A p \in Peers : AllNumbered(toPeer'[p])
            /\ \A e \in DOMAIN net' : Numbered(e.frame)
        BY <1>0, <2>2, <3>2, <3>3, NumberedRelaySends
      <3> QED BY <2>3, <3>4 DEF NumberedInv
    <2>5. CASE ~(Completes(d) /\ d.to = Relay)
      <3>1. net' = n /\ toPeer' = toPeer
        BY <1>9, <2>5, Arrival
      <3> HIDE DEF n
      <3> QED BY <2>2, <2>3, <3>1 DEF NumberedInv
    <2> QED BY <2>4, <2>5
  <1>10. ASSUME NEW d \in DOMAIN net, Lose(d)
         PROVE  NumberedInv'
    <2> DEFINE n == net (-) SetToBag({d})
    <2>1. DOMAIN n \subseteq DOMAIN net
      BY <1>0, BagTake DEF WiresInv
    <2>2. net' = n /\ UNCHANGED <<streams, nextObjectId>>
      BY <1>10 DEF Lose, clients
    <2> HIDE DEF n
    <2> QED BY <2>1, <2>2 DEF NumberedInv, streams
  <1>11. ASSUME NEW d \in DOMAIN net, Duplicate(d)
         PROVE  NumberedInv'
    <2> DEFINE n == net (+) SetToBag({d})
    <2>1. DOMAIN n = DOMAIN net
      BY <1>0, BagDouble DEF WiresInv
    <2>2. net' = n /\ UNCHANGED <<streams, nextObjectId>>
      BY <1>11 DEF Duplicate, clients
    <2> HIDE DEF n
    <2> QED BY <2>1, <2>2 DEF NumberedInv, streams
  <1>12. CASE UNCHANGED vars
    BY <1>12, <1>A DEF vars, udp, clients
  <1> QED BY <1>1, <1>2, <1>3, <1>4, <1>5, <1>6, <1>7, <1>8, <1>9, <1>10, <1>11, <1>12
          DEF Next, BagToSet

\* What one application encodes another decodes, however a TCP stream is cut and in whatever
\* order fragments come; and every frame ever under way is one that, sent as bytes, is read as
\* what it is, and whose datagrams name the frame they belong to.
THEOREM FramesAlwaysSurvive == Spec => []FramesSurvive
  <1>1. ShapeInv /\ NumberedInv => FramesSurvive
    <2> SUFFICES ASSUME ShapeInv, NumberedInv
                 PROVE  FramesSurvive
      OBVIOUS
    <2>1. WiresInv
      BY DEF ShapeInv
    <2>2. ASSUME NEW q \in Seq(Frames), AllNumbered(q)
          PROVE  Range(q) \subseteq Possible
      <3>1. \A i \in DOMAIN q : q[i] \in Frames
        OBVIOUS
      <3>2. \A i \in DOMAIN q : q[i] \in Possible
        BY <2>2, <3>1, NumberedIs DEF AllNumbered
      <3> QED BY <3>2 DEF Range
    <2>3. \A p \in Peers : Range(toRelay[p]) \cup Range(toPeer[p]) \subseteq Possible
      BY <2>1, <2>2 DEF WiresInv, NumberedInv
    <2>4. \A d \in DOMAIN net : d.frame \in Possible
      BY <2>1, DatagramType, NumberedIs DEF WiresInv, NumberedInv
    <2> QED BY <2>3, <2>4, FramesInverted, EnvelopesInverted, FragmentsInverted,
               PossibleReadBackHolds DEF FramesSurvive, BagToSet
  <1> QED BY <1>1, ShapeInvariant, NumberedInit, NumberedNext, PTL DEF Spec
=============================================================================
