-------------------------- MODULE StreamReception --------------------------
(***************************************************************************)
(* The receiving half of one QUIC connection of MoqSubscriberApp or of     *)
(* MoqRelayApp (which keeps the same state once per socket).               *)
(*                                                                         *)
(* QUIC announces data per stream, but the packet that answers recv()      *)
(* names no stream.  The applications therefore keep one receive           *)
(* outstanding, drain a whole stream with it, attribute the packet to      *)
(* recvInFlight, and cut the frames out of a per-stream buffer.            *)
(*                                                                         *)
(* QUIC is external.  It delivers the bytes of a stream in order; it       *)
(* announces data at least when a stream that held none gets some; it      *)
(* handles receives and raises indications in order; on a reset it         *)
(* discards what it holds of the stream.  How it answers a receive on a    *)
(* stream it holds nothing of is not known here: EmptyReads.               *)
(*                                                                         *)
(* A byte is known by its stream and its place in it.  The parsing loop is *)
(* unrolled, one frame per step ("parsing").  The relay's socketClosed is  *)
(* in MoqRelay.                                                            *)
(***************************************************************************)
EXTENDS Integers, Sequences

CONSTANTS
  Streams,     \* stream ids
  Ends,        \* Ends[s][n]: bytes of the first n frames the peer has for stream s
  Resettable,  \* the streams the peer may reset: object streams
  EmptyReads,  \* whether QUIC answers a receive on a stream it holds nothing of
  Dones        \* the frames of the control stream that are PUBLISH_DONE

ASSUME ReceptionAssumption ==
  /\ Streams \subseteq Nat
  /\ Resettable \subseteq Streams \ {0}
  /\ EmptyReads \in BOOLEAN
  /\ Dones \subseteq Nat \ {0}
  /\ Ends \in [Streams -> Seq(Nat \ {0})]
  /\ \A s \in Streams : \A n \in 1 .. Len(Ends[s]) :
       \A m \in 1 .. n - 1 : Ends[s][m] < Ends[s][n]

NoStream == -1
ControlStream == 0

VARIABLES
  arrived,        \* arrived[s]: bytes of stream s QUIC has received
  taken,          \* taken[s]: of these, bytes handed to the application or discarded
  resets,         \* streams the peer has reset
  requests,       \* receives QUIC has not answered
  inds,           \* indications and packets the application has not handled
  recvPending,    \* streams announced, not being received
  recvInFlight,   \* the stream of the outstanding receive, or NoStream
  streamBuffers,  \* streamBuffers[s]: bytes received of an unfinished frame
  entries,        \* streams streamBuffers has an entry for
  parsing,        \* the stream whose buffer is being cut into frames, or NoStream
  handled,        \* handled[s]: the frames recorded (an object) or handled (control)
  abandoned,      \* streams whose reset the application has handled
  objectsResetByPeer,
  subscriptionEnd \* the PUBLISH_DONE that ended the subscription, or 0

quic == <<arrived, taken, resets>>
serial == <<requests, recvPending, recvInFlight>>
buffers == <<streamBuffers, entries>>
outcome == <<handled, abandoned, objectsResetByPeer, subscriptionEnd>>
vars == <<quic, serial, inds, buffers, parsing, outcome>>

-----------------------------------------------------------------------------
\* Bytes, frames, indications.

Bytes == [on : Streams, at : Nat]

\* Places counted from one too low.
BugSlice(s, from, to) == [i \in 1 .. to - from |-> [on |-> s, at |-> from + i - 2]]

Slice(s, from, to) == [i \in 1 .. to - from |-> [on |-> s, at |-> from + i - 1]]

FrameEnd(s, n) == IF n = 0 THEN 0 ELSE Ends[s][n]
Frame(s, n) == Slice(s, FrameEnd(s, n - 1), FrameEnd(s, n))
Frames == [s \in Streams |-> [n \in 1 .. Len(Ends[s]) |-> Frame(s, n)]]
Sends(s) == FrameEnd(s, Len(Ends[s]))   \* bytes the peer has for stream s

Notice(s) == [kind |-> "available", on |-> s, from |-> 0, to |-> 0]
Reset(s) == [kind |-> "reset", on |-> s, from |-> 0, to |-> 0]
Packet(s, from, to) == [kind |-> "data", on |-> s, from |-> from, to |-> to]
Inds == [kind : {"available", "reset", "data"}, on : Streams, from : Nat, to : Nat]

Held(s) == arrived[s] - taken[s]

Init ==
  /\ arrived = [s \in Streams |-> 0] /\ taken = [s \in Streams |-> 0]
  /\ resets = {}
  /\ requests = <<>> /\ recvPending = {} /\ recvInFlight = NoStream
  /\ inds = <<>>
  /\ streamBuffers = [s \in Streams |-> <<>>] /\ entries = {}
  /\ parsing = NoStream
  /\ handled = [s \in Streams |-> <<>>]
  /\ abandoned = {} /\ objectsResetByPeer = 0 /\ subscriptionEnd = 0

-----------------------------------------------------------------------------
\* QUIC.

\* More bytes of stream s arrive.
DataComes(s) ==
  /\ s \notin resets
  /\ \E upTo \in arrived[s] + 1 .. Sends(s) : arrived' = [arrived EXCEPT ![s] = upTo]
  /\ \/ inds' = Append(inds, Notice(s))
     \/ Held(s) > 0 /\ UNCHANGED inds
  /\ UNCHANGED <<taken, resets, serial, buffers, parsing, outcome>>

ResetComes(s) ==
  /\ s \in Resettable \ resets
  /\ resets' = resets \cup {s}
  /\ taken' = [taken EXCEPT ![s] = arrived[s]]
  /\ inds' = Append(inds, Reset(s))
  /\ UNCHANGED <<arrived, serial, buffers, parsing, outcome>>

\* QUIC answers the oldest receive with all it holds of the stream.
AnswerReceive ==
  /\ requests # <<>>
  /\ LET s == Head(requests)
     IN  /\ Held(s) > 0 \/ EmptyReads
         /\ inds' = Append(inds, Packet(s, taken[s], arrived[s]))
         /\ taken' = [taken EXCEPT ![s] = arrived[s]]
  /\ requests' = Tail(requests)
  /\ UNCHANGED <<arrived, resets, recvPending, recvInFlight, buffers, parsing, outcome>>

-----------------------------------------------------------------------------
\* The application.

Smallest(S) == CHOOSE s \in S : \A r \in S : s <= r

\* startNextRecv: the next receive is for the smallest stream announced.
StartNextRecv(pending) ==
  IF pending = {}
  THEN recvPending' = {} /\ recvInFlight' = NoStream /\ UNCHANGED requests
  ELSE /\ recvPending' = pending \ {Smallest(pending)}
       /\ recvInFlight' = Smallest(pending)
       /\ requests' = Append(requests, Smallest(pending))

NextInd(kind) ==
  /\ parsing = NoStream
  /\ inds # <<>> /\ Head(inds).kind = kind
  /\ inds' = Tail(inds)

\* An announcement is ignored while any receive is outstanding.
BugCovered(s) == recvInFlight # NoStream

\* The outstanding receive will drain stream s.
Covered(s) == recvInFlight = s

\* Receives are not serialized.
BugMayReceive == TRUE

MayReceive == recvInFlight = NoStream

SocketDataAvailable ==
  /\ NextInd("available")
  /\ LET s == Head(inds).on
     IN  IF Covered(s) THEN UNCHANGED serial
         ELSE IF MayReceive THEN StartNextRecv(recvPending \cup {s})
         ELSE recvPending' = recvPending \cup {s} /\ UNCHANGED <<requests, recvInFlight>>
  /\ UNCHANGED <<quic, buffers, parsing, outcome>>

\* The bytes of the packet go to the buffer of the receive outstanding.
SocketDataArrived ==
  /\ NextInd("data")
  /\ LET p == Head(inds)
     IN  streamBuffers' = [streamBuffers EXCEPT ![recvInFlight] =
                             @ \o Slice(p.on, p.from, p.to)]
  /\ entries' = entries \cup {recvInFlight}
  /\ parsing' = recvInFlight
  /\ recvInFlight' = NoStream
  /\ UNCHANGED <<quic, requests, recvPending, outcome>>

\* The length prefix of a frame is its first byte; any other byte read as a length
\* says something arbitrary.
DeclaredLength(b) ==
  LET starts == {n \in 1 .. Len(Ends[b.on]) : FrameEnd(b.on, n - 1) = b.at}
  IN  IF starts = {} THEN 1 ELSE FrameEnd(b.on, CHOOSE n \in starts : TRUE) - b.at

\* A frame is not seen until a byte of the next one is there.
BugWholeAndMore(buf) == buf # <<>> /\ Len(buf) > DeclaredLength(buf[1])

\* tryParse, tryParseControl: the buffer starts with a whole frame.
Whole(buf) == buf # <<>> /\ Len(buf) >= DeclaredLength(buf[1])

\* Everything buffered is erased with the frame.
BugErased(buf, n) == <<>>

Erased(buf, n) == SubSeq(buf, n + 1, Len(buf))

\* Handle the frame at the front of the buffer and erase it.
HandleFrame ==
  /\ parsing # NoStream
  /\ LET buf == streamBuffers[parsing]
         n   == DeclaredLength(buf[1])
     IN  /\ Whole(buf)
         /\ handled' = [handled EXCEPT ![parsing] = Append(@, SubSeq(buf, 1, n))]
         /\ streamBuffers' = [streamBuffers EXCEPT ![parsing] = Erased(buf, n)]
  /\ LET frame == Len(handled[parsing]) + 1
     IN  subscriptionEnd' =
           IF parsing = ControlStream /\ frame \in Dones /\ subscriptionEnd = 0
           THEN frame ELSE subscriptionEnd
  /\ UNCHANGED <<quic, serial, inds, entries, parsing, abandoned, objectsResetByPeer>>

ParseDone ==
  /\ parsing # NoStream
  /\ ~Whole(streamBuffers[parsing])
  /\ parsing' = NoStream
  /\ StartNextRecv(recvPending)
  /\ UNCHANGED <<quic, inds, buffers, outcome>>

\* The partial object stays in the buffer.
BugWithout(s) == streamBuffers

\* The buffers without the partial object of stream s.
Without(s) == [streamBuffers EXCEPT ![s] = <<>>]

SocketStreamReset ==
  /\ NextInd("reset")
  /\ LET s == Head(inds).on
     IN  /\ IF s \in entries
            THEN /\ streamBuffers' = Without(s)
                 /\ entries' = entries \ {s}
                 /\ objectsResetByPeer' = objectsResetByPeer + 1
            ELSE UNCHANGED <<buffers, objectsResetByPeer>>
         /\ abandoned' = abandoned \cup {s}
  /\ UNCHANGED <<quic, serial, parsing, handled, subscriptionEnd>>

Application == \/ SocketDataAvailable \/ SocketDataArrived \/ HandleFrame
               \/ ParseDone \/ SocketStreamReset

Next == (\E s \in Streams : DataComes(s) \/ ResetComes(s)) \/ AnswerReceive \/ Application

Spec == Init /\ [][Next]_vars

\* QUIC answers what it can and the application handles what it is told; nothing is
\* assumed of the network or the peer.
LiveSpec == Spec /\ WF_vars(AnswerReceive) /\ WF_vars(Application)

-----------------------------------------------------------------------------
\* Properties.

\* Every variable holds what the code could store in it.
TypeOK ==
  /\ arrived \in [Streams -> Nat] /\ taken \in [Streams -> Nat]
  /\ resets \subseteq Resettable
  /\ requests \in Seq(Streams) /\ inds \in Seq(Inds)
  /\ recvPending \subseteq Streams /\ recvInFlight \in Streams \cup {NoStream}
  /\ streamBuffers \in [Streams -> Seq(Bytes)] /\ entries \subseteq Streams
  /\ parsing \in Streams \cup {NoStream}
  /\ handled \in [Streams -> Seq(Seq(Bytes))]
  /\ abandoned \subseteq Streams
  /\ objectsResetByPeer \in Nat /\ subscriptionEnd \in Nat

\* The packet that names no stream is for the one receive outstanding, whatever was
\* announced, received or reset since it was issued (socketDataArrived).
RightStream ==
  \A i \in 1 .. Len(inds) : inds[i].kind = "data" => inds[i].on = recvInFlight

\* No data is forgotten: of a stream QUIC holds bytes of, the announcement is still to
\* be handled, or is pending, or a receive that will drain them is on its way
\* (socketDataAvailable ignores announcements of the stream being received).
NoLostWakeup ==
  \A s \in Streams : Held(s) > 0 =>
    \/ s \in recvPending
    \/ \E i \in 1 .. Len(requests) : requests[i] = s
    \/ \E i \in 1 .. Len(inds) : inds[i] = Notice(s)

\* Once the application has handled a reset nothing of the stream comes back, although a
\* receive on it may have been outstanding (socketStreamReset).
NothingAfterReset ==
  \A s \in abandoned : streamBuffers[s] = <<>>

\* The frames of each stream are handled whole, in order, once each, until its reset.
Promise == INSTANCE FrameStreams
InOrder == Promise!Spec

\* A frame whose bytes have all arrived is handled, unless its stream is reset.
EveryFrameHandled ==
  \A s \in Streams : \A n \in 1 .. Len(Ends[s]) :
    arrived[s] >= FrameEnd(s, n) ~> Len(handled[s]) >= n \/ s \in resets
=============================================================================
