------------------------------ MODULE MoqDirect ------------------------------
(***************************************************************************)
(* Publisher, relay and subscribers over TCP and over UDP, where the       *)
(* applications hand every frame straight to the socket: announcing,       *)
(* subscribing, forwarding, recording, and connections closing.            *)
(*                                                                         *)
(* A TCP connection is two ordered streams of frames (the bytes are in     *)
(* MoqFraming).  Over UDP each fragment of a frame is a datagram; the      *)
(* network loses, duplicates and reorders datagrams, and the receiver      *)
(* collects the fragments of a frame.  The relay never reacts to a UDP     *)
(* peer that leaves.                                                       *)
(***************************************************************************)
EXTENDS Integers, Sequences, FiniteSets, Bags, Functions

CONSTANTS
  Publisher, Relay, Subscribers,
  Tracks, Wants,     \* Wants[s]: the tracks s subscribes to
  ObjectsPerGroup,   \* ObjectsPerGroup[t]
  Fragments,         \* Fragments[t]: datagrams of an object of t; a control frame fits one
  Protocols,         \* "tcp", "udp"
  MaxObjects,        \* MaxObjects[t], bound: objects of t
  MaxFaults,         \* bound: datagrams lost or duplicated
  MayLeave           \* bound: peers that may leave

ASSUME DirectAssumption ==
  /\ Publisher # Relay /\ {Publisher, Relay} \cap Subscribers = {}
  /\ IsFiniteSet(Subscribers) /\ Wants \in [Subscribers -> SUBSET Tracks]
  /\ ObjectsPerGroup \in [Tracks -> Nat \ {0}] /\ Fragments \in [Tracks -> Nat \ {0}]
  /\ Protocols \subseteq {"tcp", "udp"} /\ MaxObjects \in [Tracks -> Nat]
  /\ MaxFaults \in Nat
  /\ MayLeave \subseteq {Publisher} \cup Subscribers

Peers == {Publisher} \cup Subscribers

VARIABLES
  proto,
  open,                 \* peers with sendingAllowed
  gone,                 \* peers that have left
  timers,               \* timers[t]: what the publisher's timer of t will do
  subscribeTimers,      \* <<s, t>> for the timers of the subscribers
  nextObjectId,         \* nextObjectId[t], the publisher's
  toRelay, toPeer,      \* the TCP streams of each connection
  net,                  \* the datagrams under way, a bag
  udpReasm,             \* frames being collected: where, which frame -> its fragments
  publishedTracks,
  publisherByTrackKey,  \* tracks the relay knows where to ask for
  subscriberSockets,    \* subscribers the relay knows where to send to
  subscriberByTrack,    \* subscriberByTrack[t][s]: how often s is in the vector of t
  recvFromPubByTrack, forward_count,
  recorded,             \* recorded[s][t]: ids of the objects recorded, in order
  lost, duplicated,     \* datagrams, in order
  delivered             \* datagrams that have come

streams == <<toRelay, toPeer>>
udp == <<net, udpReasm>>
faults == <<lost, duplicated>>
clients == <<open, gone, timers, subscribeTimers, nextObjectId, recorded>>
relay == <<publishedTracks, publisherByTrackKey, subscriberSockets, subscriberByTrack,
           recvFromPubByTrack, forward_count>>
vars == <<proto, streams, udp, faults, delivered, clients, relay>>

Frame(class, t, id) == [class |-> class, track |-> t, objectId |-> id]
Control(class, t) == Frame(class, t, -1)
Object(t, id) == Frame("OBJECT", t, id)
Frames == [class : {"ANNOUNCE", "SUBSCRIBE", "SUBSCRIBE_OK"}, track : Tracks, objectId : {-1}]
          \cup [class : {"OBJECT"}, track : Tracks, objectId : Nat]

FragmentCount(f) == IF f.class = "OBJECT" THEN Fragments[f.track] ELSE 1
Datagram(from, to, f, i) == [from |-> from, to |-> to, frame |-> f, fragIndex |-> i]
Datagrams == [from : Peers \cup {Relay}, to : Peers \cup {Relay}, frame : Frames, fragIndex : Nat]

Init ==
  /\ proto \in Protocols
  /\ open = {} /\ gone = {}
  /\ timers = [t \in Tracks |-> "off"] /\ subscribeTimers = {}
  /\ nextObjectId = [t \in Tracks |-> 0]
  /\ toRelay = [p \in Peers |-> <<>>] /\ toPeer = [p \in Peers |-> <<>>]
  /\ net = EmptyBag /\ udpReasm = <<>>
  /\ publishedTracks = {} /\ publisherByTrackKey = {} /\ subscriberSockets = {}
  /\ subscriberByTrack = [t \in Tracks |-> [s \in Subscribers |-> 0]]
  /\ recvFromPubByTrack = [t \in Tracks |-> 0]
  /\ forward_count = [s \in Subscribers |-> 0]
  /\ recorded = [s \in Subscribers |-> [t \in Tracks |-> <<>>]]
  /\ lost = <<>> /\ duplicated = <<>> /\ delivered = {}

-----------------------------------------------------------------------------
\* Sending: frames[p] are the frames for, or from, peer p; s and n what the streams and the
\* network hold before.

AllFragments(from, to, fs) ==
  [d \in UNION {{Datagram(from, to, f, k) : k \in 0 .. FragmentCount(f) - 1} : f \in Range(fs)} |->
     Cardinality({i \in DOMAIN fs : fs[i] = d.frame})]

\* What the relay sends in one handler: each peer's fragments are its own.
RelayFragments(frames) ==
  [d \in UNION {DOMAIN AllFragments(Relay, p, frames[p]) : p \in Peers} |->
     AllFragments(Relay, d.to, frames[d.to])[d]]

\* The relay sends, or does not send: no frames.
RelaySends(frames, n) ==
  IF proto = "tcp"
  THEN toPeer' = [p \in Peers |-> toPeer[p] \o frames[p]] /\ net' = n
  ELSE net' = n (+) RelayFragments(frames) /\ UNCHANGED toPeer

NoFrames == [p \in Peers |-> <<>>]

PeerSends(p, fs) ==
  IF proto = "tcp"
  THEN toRelay' = [toRelay EXCEPT ![p] = @ \o fs] /\ UNCHANGED net
  ELSE net' = net (+) AllFragments(p, Relay, fs) /\ UNCHANGED toRelay

-----------------------------------------------------------------------------
\* The publisher and the subscribers send.

\* The connection is there (over UDP: the connect time has come); the timers of the tracks
\* are armed (sendTrackAnnouncementData, sendTrackSubscribeData).
Connect(p) ==
  /\ p \notin open \cup gone
  /\ open' = open \cup {p}
  /\ IF p = Publisher
     THEN timers' = [t \in Tracks |-> "PUB_ANNOUNCE"] /\ UNCHANGED subscribeTimers
     ELSE subscribeTimers' = subscribeTimers \cup {<<p, t>> : t \in Wants[p]} /\ UNCHANGED timers
  /\ UNCHANGED <<proto, gone, nextObjectId, recorded, streams, udp, faults, delivered, relay>>

Announce(t) ==
  /\ timers[t] = "PUB_ANNOUNCE" /\ Publisher \notin gone
  /\ timers' = [timers EXCEPT ![t] = "off"]
  /\ PeerSends(Publisher, <<Control("ANNOUNCE", t)>>)
  /\ UNCHANGED <<proto, open, gone, subscribeTimers, nextObjectId, recorded, toPeer, udpReasm,
                 faults, delivered, relay>>

Subscribe(s, t) ==
  /\ <<s, t>> \in subscribeTimers /\ s \notin gone
  /\ subscribeTimers' = subscribeTimers \ {<<s, t>>}
  /\ PeerSends(s, <<Control("SUBSCRIBE", t)>>)
  /\ UNCHANGED <<proto, open, gone, timers, nextObjectId, recorded, toPeer, udpReasm,
                 faults, delivered, relay>>

\* A group: its objects at once; the timer stays for the next one.
SendGroup(t) ==
  /\ timers[t] = "SUB_SUCCESS" /\ Publisher \notin gone
  /\ nextObjectId[t] + ObjectsPerGroup[t] <= MaxObjects[t]
  /\ nextObjectId' = [nextObjectId EXCEPT ![t] = @ + ObjectsPerGroup[t]]
  /\ PeerSends(Publisher, [i \in 1 .. ObjectsPerGroup[t] |-> Object(t, nextObjectId[t] + i - 1)])
  /\ UNCHANGED <<proto, open, gone, timers, subscribeTimers, recorded, toPeer, udpReasm,
                 faults, delivered, relay>>

-----------------------------------------------------------------------------
\* A frame is complete.  n is what the network holds without it.

\* A retransmitted SUBSCRIBE registers again over UDP too.
BugRegistered(t, s) == [subscriberByTrack EXCEPT ![t][s] = @ + 1]

\* The subscribers with s registered for t; over UDP only once.
Registered(t, s) ==
  [subscriberByTrack EXCEPT ![t][s] = IF proto = "udp" /\ @ > 0 THEN @ ELSE @ + 1]

\* The loop ends at the first subscriber without a socket.
BugCopies(t, s) ==
  IF \A r \in Subscribers : subscriberByTrack[t][r] > 0 => r \in subscriberSockets
  THEN subscriberByTrack[t][s] ELSE 0

\* How often an object of t is forwarded to s (onObjectFrame, forwardToSubscriber).
Copies(t, s) == IF s \in subscriberSockets THEN subscriberByTrack[t][s] ELSE 0

RelayAnnounce(f, n) ==
  /\ f.class = "ANNOUNCE"
  /\ publishedTracks' = publishedTracks \cup {f.track}
  /\ publisherByTrackKey' = publisherByTrackKey \cup {f.track}
  /\ RelaySends(NoFrames, n)
  /\ UNCHANGED <<subscriberSockets, subscriberByTrack, recvFromPubByTrack, forward_count>>

\* The publisher is told to start if the track is known.
RelaySubscribe(s, f, n) ==
  /\ f.class = "SUBSCRIBE"
  /\ subscriberSockets' = subscriberSockets \cup {s}
  /\ subscriberByTrack' = Registered(f.track, s)
  /\ RelaySends(IF f.track \in publisherByTrackKey \cap publishedTracks
                THEN [NoFrames EXCEPT ![Publisher] = <<Control("SUBSCRIBE_OK", f.track)>>]
                ELSE NoFrames, n)
  /\ UNCHANGED <<publishedTracks, publisherByTrackKey, recvFromPubByTrack, forward_count>>

RelayObject(f, n) ==
  /\ f.class = "OBJECT"
  /\ recvFromPubByTrack' = [recvFromPubByTrack EXCEPT ![f.track] = @ + 1]
  /\ RelaySends([p \in Peers |-> IF p = Publisher THEN <<>>
                                 ELSE [i \in 1 .. Copies(f.track, p) |-> f]], n)
  /\ forward_count' = [s \in Subscribers |-> forward_count[s] + Copies(f.track, s)]
  /\ UNCHANGED <<publishedTracks, publisherByTrackKey, subscriberSockets, subscriberByTrack>>

RelayHandles(p, f, n) ==
  RelayAnnounce(f, n) \/ RelaySubscribe(p, f, n) \/ RelayObject(f, n)

\* SUBSCRIBE_OK starts the track, whatever its timer was armed for.
Start(t) == timers' = [timers EXCEPT ![t] = "SUB_SUCCESS"] /\ UNCHANGED recorded

RecordObject(s, f) ==
  recorded' = [recorded EXCEPT ![s][f.track] = Append(@, f.objectId)] /\ UNCHANGED timers

PeerHandles(p, f) == IF p = Publisher THEN Start(f.track) ELSE RecordObject(p, f)

-----------------------------------------------------------------------------
\* TCP.

\* The receive loops take the next frame.
RelayReceives(p) ==
  /\ toRelay[p] # <<>>
  /\ toRelay' = [toRelay EXCEPT ![p] = Tail(@)]
  /\ RelayHandles(p, Head(toRelay[p]), net)
  /\ UNCHANGED <<proto, clients, udpReasm, faults, delivered>>

PeerReceives(p) ==
  /\ toPeer[p] # <<>> /\ p \notin gone
  /\ toPeer' = [toPeer EXCEPT ![p] = Tail(@)]
  /\ PeerHandles(p, Head(toPeer[p]))
  /\ UNCHANGED <<proto, open, gone, subscribeTimers, nextObjectId, toRelay, udp, faults,
                 delivered, relay>>

\* A peer's vehicle leaves the simulation.
Leave(p) ==
  /\ p \in open \cap (MayLeave \ gone)
  /\ gone' = gone \cup {p}
  /\ UNCHANGED <<proto, open, timers, subscribeTimers, nextObjectId, recorded, streams, udp,
                 faults, delivered, relay>>

\* The relay's socketClosed: sockets and buffer go, registrations stay.
SocketClosed(p) ==
  /\ proto = "tcp" /\ p \in gone
  /\ toRelay' = [toRelay EXCEPT ![p] = <<>>]
  /\ subscriberSockets' = subscriberSockets \ {p}
  /\ publisherByTrackKey' = IF p = Publisher THEN {} ELSE publisherByTrackKey
  /\ UNCHANGED <<proto, clients, toPeer, udp, faults, delivered, publishedTracks,
                 subscriberByTrack, recvFromPubByTrack, forward_count>>

-----------------------------------------------------------------------------
\* UDP.

\* Where d's frame is collected; the relay tells the sources apart.
Key(d) == [at |-> d.to, from |-> d.from, frame |-> d.frame]

NoFragments == [have |-> {}, receivedFrags |-> 0]
Collected(key) == IF key \in DOMAIN udpReasm THEN udpReasm[key] ELSE NoFragments

\* Duplicates are counted.
BugAdd(r, i) == [have |-> r.have \cup {i}, receivedFrags |-> r.receivedFrags + 1]

\* UdpObjectReassembler::add.
Add(r, i) ==
  IF i \in r.have THEN r
  ELSE [have |-> r.have \cup {i}, receivedFrags |-> r.receivedFrags + 1]

\* A complete frame is left in the map.
BugWithout(key) == [k \in DOMAIN udpReasm \cup {key} |->
                      IF k = key THEN [have |-> {0}, receivedFrags |-> 1] ELSE udpReasm[k]]

Without(key) == Restrict(udpReasm, DOMAIN udpReasm \ {key})

DatagramArrives(d) ==
  /\ BagIn(d, net) /\ d.to \notin gone
  /\ delivered' = delivered \cup {d}
  /\ LET n == net (-) SetToBag({d})
         r == Add(Collected(Key(d)), d.fragIndex)
     IN  IF r.receivedFrags = FragmentCount(d.frame)
         THEN /\ udpReasm' = Without(Key(d))
              /\ IF d.to = Relay
                 THEN RelayHandles(d.from, d.frame, n)
                      /\ UNCHANGED <<timers, recorded>>
                 ELSE PeerHandles(d.to, d.frame) /\ net' = n /\ UNCHANGED <<toPeer, relay>>
         ELSE /\ udpReasm' = [k \in DOMAIN udpReasm \cup {Key(d)} |->
                                IF k = Key(d) THEN r ELSE udpReasm[k]]
              /\ net' = n
              /\ UNCHANGED <<timers, recorded, toPeer, relay>>
  /\ UNCHANGED <<proto, open, gone, subscribeTimers, nextObjectId, toRelay, faults>>

MayFail == Len(lost) + Len(duplicated) < MaxFaults

Lose(d) ==
  /\ BagIn(d, net) /\ MayFail
  /\ net' = net (-) SetToBag({d})
  /\ lost' = Append(lost, d)
  /\ UNCHANGED <<proto, clients, streams, udpReasm, duplicated, delivered, relay>>

Duplicate(d) ==
  /\ BagIn(d, net) /\ MayFail
  /\ net' = net (+) SetToBag({d})
  /\ duplicated' = Append(duplicated, d)
  /\ UNCHANGED <<proto, clients, streams, udpReasm, lost, delivered, relay>>

Next ==
  \/ \E p \in Peers : \/ Connect(p) \/ RelayReceives(p) \/ PeerReceives(p)
                      \/ Leave(p) \/ SocketClosed(p)
  \/ \E t \in Tracks : Announce(t) \/ SendGroup(t) \/ \E s \in Subscribers : Subscribe(s, t)
  \/ \E d \in BagToSet(net) : DatagramArrives(d) \/ Lose(d) \/ Duplicate(d)

Spec == Init /\ [][Next]_vars

\* TCP delivers while both ends are there; armed timers fire.  Nobody need connect or leave,
\* and nothing is assumed of datagrams.
LiveSpec ==
  /\ Spec
  /\ \A p \in Peers : WF_vars(RelayReceives(p)) /\ WF_vars(PeerReceives(p))
  /\ \A t \in Tracks : WF_vars(SendGroup(t))

-----------------------------------------------------------------------------
\* Properties.

\* Every variable holds what the code could store in it.
TypeOK ==
  /\ proto \in {"tcp", "udp"} /\ open \subseteq Peers /\ gone \subseteq Peers
  /\ timers \in [Tracks -> {"off", "PUB_ANNOUNCE", "SUB_SUCCESS"}]
  /\ subscribeTimers \subseteq Subscribers \X Tracks
  /\ nextObjectId \in [Tracks -> Nat]
  /\ toRelay \in [Peers -> Seq(Frames)] /\ toPeer \in [Peers -> Seq(Frames)]
  /\ IsABag(net) /\ BagToSet(net) \subseteq Datagrams
  /\ \A k \in DOMAIN udpReasm :
       LET r == udpReasm[k]
       IN  /\ r.have \subseteq 0 .. FragmentCount(k.frame) - 1 /\ r.have # {}
           /\ r.receivedFrags \in 1 .. FragmentCount(k.frame) - 1
  /\ publishedTracks \subseteq Tracks /\ publisherByTrackKey \subseteq Tracks
  /\ subscriberSockets \subseteq Subscribers
  /\ subscriberByTrack \in [Tracks -> [Subscribers -> Nat]]
  /\ recvFromPubByTrack \in [Tracks -> Nat] /\ forward_count \in [Subscribers -> Nat]
  /\ recorded \in [Subscribers -> [Tracks -> Seq(Nat)]]
  /\ lost \in Seq(Datagrams) /\ duplicated \in Seq(Datagrams) /\ delivered \subseteq Datagrams

Whole(from, to, f) ==
  \A i \in 0 .. FragmentCount(f) - 1 : Datagram(from, to, f, i) \in delivered

\* Over UDP an object is recorded only when each of its datagrams has come, to the relay and
\* to the subscriber, whatever was duplicated; and an object is left half collected only if
\* the rest is under way or was lost, or one of its datagrams was duplicated
\* (UdpObjectReassembler::add, udpReasm.erase).
ObjectsWhole ==
  proto = "udp" =>
    /\ \A s \in Subscribers, t \in Tracks : \A id \in Range(recorded[s][t]) :
         Whole(Publisher, Relay, Object(t, id)) /\ Whole(Relay, s, Object(t, id))
    /\ \A k \in DOMAIN udpReasm :
         LET of(q) == {d.fragIndex : d \in {e \in q : e.frame = k.frame}}
         IN  \/ of(Range(duplicated)) # {}
             \/ \E d \in BagToSet(net) \cup Range(lost) : Key(d) = k /\ d.fragIndex \notin udpReasm[k].have

\* Over TCP a subscriber records a gapless, ascending run of each track.  Over UDP, an object
\* is recorded twice only if one of its own datagrams was duplicated (not the SUBSCRIBE), so
\* that without duplicates the gaps in finish() are what the network lost.
RecordedHonestly ==
  \A s \in Subscribers, t \in Tracks :
    LET q == recorded[s][t]
    IN  /\ proto = "tcp" => \A i \in 2 .. Len(q) : q[i] = q[i - 1] + 1
        /\ \A i, j \in 1 .. Len(q) :
             (i < j /\ q[i] = q[j]) => \E d \in Range(duplicated) : d.frame = Object(t, q[i])

Stays(s) == s \notin gone /\ Publisher \notin gone

\* Over TCP a track known when its SUBSCRIBE comes is started, and every object on its way to
\* the relay is recorded by each subscriber registered, while both ends stay.
Delivered ==
  /\ \A t \in Tracks : Control("SUBSCRIBE_OK", t) \in Range(toPeer[Publisher]) ~>
       nextObjectId[t] > 0 \/ Publisher \in gone
  /\ \A s \in Subscribers, t \in Tracks : \A id \in 0 .. MaxObjects[t] - 1 :
       Object(t, id) \in Range(toRelay[Publisher]) /\ subscriberByTrack[t][s] > 0 /\ Stays(s)
         ~> id \in Range(recorded[s][t]) \/ ~Stays(s)
=============================================================================
