----------------------- MODULE StreamReceptionProofs -----------------------
(* Theorems about StreamReception, for every set of streams and every frame *)
(* length, and whether or not QUIC answers a receive on an empty stream.    *)
EXTENDS StreamReception, SequenceTheorems, WellFoundedInduction, TLAPS

-----------------------------------------------------------------------------
(* The operators.                                                          *)

\* A nonempty set of streams has a smallest one.
LEMMA SmallestMember ==
  ASSUME NEW S \in SUBSET Streams, S # {}
  PROVE  Smallest(S) \in S
  <1>1. S \subseteq Nat
    BY ReceptionAssumption
  <1>2. PICK n \in S : \A m \in S : ~(<<m, n>> \in OpToRel(<, Nat))
    BY <1>1, WFMin, NatLessThanWellFounded
  <1>3. \A m \in S : ~(m < n)
    <2>1. \A k, m \in Nat : k < m => <<k, m>> \in OpToRel(<, Nat)
      BY Zenon DEF OpToRel
    <2> QED BY <1>1, <1>2, <2>1
  <1>4. \A m \in S : n <= m
    BY <1>1, <1>3
  <1> QED BY <1>4 DEF Smallest

\* The end of a frame is a place in its stream, and later frames end later.
LEMMA FrameEnds ==
  ASSUME NEW s \in Streams
  PROVE  /\ Len(Ends[s]) \in Nat
         /\ \A n \in 0 .. Len(Ends[s]) : FrameEnd(s, n) \in Nat
         /\ \A n \in 0 .. Len(Ends[s]) : \A m \in 0 .. n - 1 : FrameEnd(s, m) < FrameEnd(s, n)
         /\ \A n \in 0 .. Len(Ends[s]) : FrameEnd(s, n) <= Sends(s)
  <1>1. /\ Ends[s] \in Seq(Nat \ {0})
        /\ \A n \in 1 .. Len(Ends[s]) : \A m \in 1 .. n - 1 : Ends[s][m] < Ends[s][n]
    BY ReceptionAssumption
  <1>2. Len(Ends[s]) \in Nat /\ \A n \in 1 .. Len(Ends[s]) : Ends[s][n] \in Nat \ {0}
    BY <1>1
  <1>3. \A n \in 0 .. Len(Ends[s]) : FrameEnd(s, n) \in Nat
    BY <1>2 DEF FrameEnd
  <1>4. \A n \in 0 .. Len(Ends[s]) : \A m \in 0 .. n - 1 : FrameEnd(s, m) < FrameEnd(s, n)
    <2> TAKE n \in 0 .. Len(Ends[s])
    <2> TAKE m \in 0 .. n - 1
    <2> QED BY <1>1, <1>2 DEF FrameEnd
  <1>5. \A n \in 0 .. Len(Ends[s]) : FrameEnd(s, n) <= FrameEnd(s, Len(Ends[s]))
    <2> TAKE n \in 0 .. Len(Ends[s])
    <2>1. CASE n = Len(Ends[s])
      BY <1>2, <1>3, <2>1
    <2>2. CASE n # Len(Ends[s])
      <3>1. n \in 0 .. Len(Ends[s]) - 1 /\ Len(Ends[s]) \in 0 .. Len(Ends[s])
        BY <1>2, <2>2
      <3> QED BY <1>3, <1>4, <3>1
    <2> QED BY <2>1, <2>2
  <1> QED BY <1>2, <1>3, <1>4, <1>5 DEF Sends

\* A slice is as long as its range, and its bytes are where it says.
LEMMA SliceProperties ==
  ASSUME NEW s \in Streams, NEW from \in Nat, NEW to \in Nat, from <= to
  PROVE  /\ Slice(s, from, to) \in Seq(Bytes)
         /\ Len(Slice(s, from, to)) = to - from
         /\ \A i \in 1 .. to - from : Slice(s, from, to)[i] = [on |-> s, at |-> from + i - 1]
  <1> DEFINE q == [i \in 1 .. to - from |-> [on |-> s, at |-> from + i - 1]]
  <1>1. to - from \in Nat
    OBVIOUS
  <1>2. \A i \in 1 .. to - from : q[i] \in Bytes
    BY DEF Bytes
  <1>3. q \in [1 .. to - from -> Bytes]
    BY <1>2
  <1>4. q \in Seq(Bytes) /\ Len(q) = to - from
    BY <1>1, <1>3
  <1> QED BY <1>4 DEF Slice

\* Slices that meet make one.
LEMMA SliceConcat ==
  ASSUME NEW s \in Streams, NEW a \in Nat, NEW b \in Nat, NEW c \in Nat, a <= b, b <= c
  PROVE  Slice(s, a, b) \o Slice(s, b, c) = Slice(s, a, c)
  <1> DEFINE l == Slice(s, a, b)
             r == Slice(s, b, c)
             w == Slice(s, a, c)
             byte(k) == [on |-> s, at |-> k]
  <1>1. /\ l \in Seq(Bytes) /\ Len(l) = b - a
        /\ \A i \in 1 .. b - a : l[i] = byte(a + i - 1)
    BY SliceProperties
  <1>2. /\ r \in Seq(Bytes) /\ Len(r) = c - b
        /\ \A i \in 1 .. c - b : r[i] = byte(b + i - 1)
    BY SliceProperties
  <1>3. /\ w \in Seq(Bytes) /\ Len(w) = c - a
        /\ \A i \in 1 .. c - a : w[i] = byte(a + i - 1)
    BY SliceProperties
  <1> HIDE DEF l, r, w, byte
  <1>4. /\ l \o r \in Seq(Bytes) /\ Len(l \o r) = c - a
        /\ \A i \in 1 .. c - a : (l \o r)[i] = IF i <= b - a THEN l[i] ELSE r[i - (b - a)]
    <2>1. /\ l \o r \in Seq(Bytes) /\ Len(l \o r) = Len(l) + Len(r)
          /\ \A i \in 1 .. Len(l) + Len(r) :
               (l \o r)[i] = IF i <= Len(l) THEN l[i] ELSE r[i - Len(l)]
      BY <1>1, <1>2, ConcatProperties
    <2>2. Len(l) + Len(r) = c - a
      BY <1>1, <1>2
    <2> QED BY <1>1, <2>1, <2>2
  <1>5. \A i \in 1 .. c - a : (l \o r)[i] = w[i]
    <2> TAKE i \in 1 .. c - a
    <2>1. CASE i <= b - a
      <3>1. i \in 1 .. b - a
        BY <2>1
      <3> QED BY <1>1, <1>3, <1>4, <2>1, <3>1
    <2>2. CASE ~(i <= b - a)
      <3>1. i - (b - a) \in 1 .. c - b
        BY <2>2
      <3>2. r[i - (b - a)] = byte(b + (i - (b - a)) - 1)
        BY <1>2, <3>1
      <3>3. b + (i - (b - a)) - 1 = a + i - 1
        OBVIOUS
      <3> QED BY <1>3, <1>4, <2>2, <3>2, <3>3
    <2> QED BY <2>1, <2>2
  <1> QED BY <1>3, <1>4, <1>5, SeqEqual DEF l, r, w

\* A slice of a slice.
LEMMA SliceSubSeq ==
  ASSUME NEW s \in Streams, NEW a \in Nat, NEW b \in Nat, NEW c \in Nat, a <= b, b <= c
  PROVE  /\ SubSeq(Slice(s, a, c), 1, b - a) = Slice(s, a, b)
         /\ SubSeq(Slice(s, a, c), b - a + 1, c - a) = Slice(s, b, c)
  <1> DEFINE l == Slice(s, a, b)
             r == Slice(s, b, c)
             w == Slice(s, a, c)
             byte(k) == [on |-> s, at |-> k]
  <1>1. /\ l \in Seq(Bytes) /\ Len(l) = b - a
        /\ \A i \in 1 .. b - a : l[i] = byte(a + i - 1)
    BY SliceProperties
  <1>2. /\ r \in Seq(Bytes) /\ Len(r) = c - b
        /\ \A i \in 1 .. c - b : r[i] = byte(b + i - 1)
    BY SliceProperties
  <1>3. /\ w \in Seq(Bytes) /\ Len(w) = c - a
        /\ \A i \in 1 .. c - a : w[i] = byte(a + i - 1)
    BY SliceProperties
  <1> HIDE DEF l, r, w, byte
  <1>w. \A i \in 1 .. c - a : w[i] \in Bytes
    BY <1>3
  <1>4. SubSeq(w, 1, b - a) = l
    <2>1. \A i \in 1 .. b - a : w[i] \in Bytes
      BY <1>w
    <2>2. /\ SubSeq(w, 1, b - a) \in Seq(Bytes)
          /\ Len(SubSeq(w, 1, b - a)) = b - a
          /\ \A i \in 1 .. b - a : SubSeq(w, 1, b - a)[i] = w[i]
      BY <2>1, SubSeqProperties
    <2>3. \A i \in 1 .. b - a : SubSeq(w, 1, b - a)[i] = l[i]
      <3> TAKE i \in 1 .. b - a
      <3>1. i \in 1 .. c - a
        OBVIOUS
      <3> QED BY <1>1, <1>3, <2>2, <3>1
    <2> QED BY <1>1, <2>2, <2>3, SeqEqual
  <1>5. SubSeq(w, b - a + 1, c - a) = r
    <2> DEFINE m == b - a + 1
               n == c - a
               q == SubSeq(w, m, n)
    <2>1. /\ m \in Int /\ n \in Int /\ n - m + 1 = c - b
          /\ \A i \in m .. n : w[i] \in Bytes
      BY <1>w
    <2>2. /\ q \in Seq(Bytes) /\ Len(q) = c - b
          /\ \A i \in 1 .. c - b : q[i] = w[m + i - 1]
      <3> HIDE DEF m, n
      <3>1. q \in Seq(Bytes) /\ Len(q) = IF m <= n THEN n - m + 1 ELSE 0
        BY <2>1, SubSeqProperties
      <3>2. \A i \in 1 .. n - m + 1 : q[i] = w[m + i - 1]
        BY <2>1, SubSeqProperties
      <3> QED BY <2>1, <3>1, <3>2
    <2>3. \A i \in 1 .. c - b : q[i] = r[i]
      <3> TAKE i \in 1 .. c - b
      <3>1. m + i - 1 \in 1 .. c - a /\ a + (m + i - 1) - 1 = b + i - 1
        OBVIOUS
      <3> HIDE DEF m, n, q
      <3>2. w[m + i - 1] = byte(a + (m + i - 1) - 1)
        BY <1>3, <3>1
      <3> QED BY <1>2, <2>2, <3>1, <3>2
    <2> HIDE DEF m, n, q
    <2>4. q = r
      BY <1>2, <2>2, <2>3, SeqEqual
    <2> QED BY <2>4 DEF q, m, n
  <1> QED BY <1>4, <1>5 DEF l, r, w

-----------------------------------------------------------------------------
(* The inductive invariant.                                                *)

DataAt(i) == inds[i].kind = "data"

\* At most one receive is on its way, as a request or as the packet that answers it, and it
\* is for recvInFlight; while a buffer is cut into frames there is none.
OneReceive ==
  /\ requests # <<>> =>
       /\ requests = <<recvInFlight>> /\ recvInFlight # NoStream
       /\ \A i \in 1 .. Len(inds) : ~DataAt(i)
  /\ \A i \in 1 .. Len(inds) : DataAt(i) => inds[i].on = recvInFlight
  /\ \A i, j \in 1 .. Len(inds) : DataAt(i) /\ DataAt(j) => i = j
  /\ recvInFlight # NoStream => requests # <<>> \/ \E i \in 1 .. Len(inds) : DataAt(i)
  /\ parsing # NoStream => recvInFlight = NoStream

\* The bytes of stream s handled, and those handled or buffered.
Done(s) == FrameEnd(s, Len(handled[s]))
Place(s) == Done(s) + Len(streamBuffers[s])

\* The data of stream s goes on where the buffer ends; once its reset is queued or handled,
\* nothing but empty packets comes.
Contiguous(s) ==
  /\ Len(handled[s]) <= Len(Ends[s])
  /\ taken[s] <= arrived[s] /\ arrived[s] <= Sends(s)
  /\ s \in resets => taken[s] = arrived[s]
  /\ s \in abandoned => s \in resets /\ streamBuffers[s] = <<>>
  /\ s \notin abandoned => streamBuffers[s] = Slice(s, Done(s), Place(s)) /\ Place(s) <= Sends(s)
  /\ streamBuffers[s] # <<>> => s \in entries

DataContiguous(s) ==
  /\ \A i \in 1 .. Len(inds) : DataAt(i) /\ inds[i].on = s =>
       /\ inds[i].from <= inds[i].to /\ inds[i].to <= Sends(s)
       /\ inds[i].from = inds[i].to \/ (s \notin abandoned /\ inds[i].from = Place(s))
       /\ s \notin resets => inds[i].from = Place(s) /\ inds[i].to = taken[s]
  /\ s \notin resets =>
       \/ taken[s] = Place(s)
       \/ \E i \in 1 .. Len(inds) : DataAt(i) /\ inds[i].on = s
  /\ \A i \in 1 .. Len(inds) : inds[i].kind = "reset" /\ inds[i].on = s =>
       /\ s \in resets
       /\ \A j \in i + 1 .. Len(inds) :
            DataAt(j) /\ inds[j].on = s => inds[j].from = inds[j].to

\* An announcement counts on only if it is behind the packet being received of its stream.
Wakeup(s) ==
  Held(s) > 0 =>
    \/ s \in recvPending
    \/ \E i \in 1 .. Len(requests) : requests[i] = s
    \/ \E i \in 1 .. Len(inds) :
         /\ inds[i] = Notice(s)
         /\ \A j \in 1 .. Len(inds) : DataAt(j) /\ inds[j].on = s => j < i

ReceptionInv ==
  /\ TypeOK
  /\ OneReceive
  /\ \A s \in Streams : Contiguous(s) /\ DataContiguous(s)

-----------------------------------------------------------------------------
(* The indications.                                                        *)

\* What is left of the queue behind its head.
LEMMA IndsTail ==
  ASSUME inds \in Seq(Inds), inds # <<>>, inds' = Tail(inds)
  PROVE  /\ Len(inds) \in Nat \ {0} /\ Len(inds') = Len(inds) - 1
         /\ inds' \in Seq(Inds)
         /\ Head(inds) = inds[1] /\ inds[1] \in Inds
         /\ \A i \in 1 .. Len(inds) - 1 : inds'[i] = inds[i + 1]
  <1>1. Len(inds) \in Nat \ {0} /\ Head(inds) = inds[1] /\ inds[1] \in Inds
    OBVIOUS
  <1>2. /\ Tail(inds) \in Seq(Inds) /\ Len(Tail(inds)) = Len(inds) - 1
        /\ \A i \in 1 .. Len(Tail(inds)) : Tail(inds)[i] = inds[i + 1]
    BY HeadTailProperties
  <1> QED BY <1>1, <1>2

\* The queue with one more at its end.
LEMMA IndsAppend ==
  ASSUME inds \in Seq(Inds), NEW x \in Inds, inds' = Append(inds, x)
  PROVE  /\ Len(inds) \in Nat /\ Len(inds') = Len(inds) + 1
         /\ inds' \in Seq(Inds)
         /\ \A i \in 1 .. Len(inds) : inds'[i] = inds[i]
         /\ inds'[Len(inds) + 1] = x
  BY AppendProperties

\* The indications QUIC raises are indications.
LEMMA IndsMade ==
  ASSUME NEW s \in Streams
  PROVE  /\ Notice(s) \in Inds /\ Reset(s) \in Inds
         /\ \A from, to \in Nat : Packet(s, from, to) \in Inds
  BY DEF Notice, Reset, Packet, Inds

\* startNextRecv takes one of the streams it is given.
LEMMA StartNext ==
  ASSUME NEW pending \in SUBSET Streams, requests \in Seq(Streams), StartNextRecv(pending)
  PROVE  /\ recvPending' \subseteq Streams /\ recvInFlight' \in Streams \cup {NoStream}
         /\ requests' \in Seq(Streams)
         /\ pending = {} =>
              requests' = requests /\ recvInFlight' = NoStream /\ recvPending' = {}
         /\ pending # {} =>
              /\ recvInFlight' \in pending
              /\ recvPending' = pending \ {recvInFlight'}
              /\ requests' = Append(requests, recvInFlight')
  <1>1. CASE pending = {}
    BY <1>1 DEF StartNextRecv
  <1>2. CASE pending # {}
    <2>1. /\ recvPending' = pending \ {Smallest(pending)}
          /\ recvInFlight' = Smallest(pending)
          /\ requests' = Append(requests, Smallest(pending))
      BY <1>2 DEF StartNextRecv
    <2>2. Smallest(pending) \in pending
      BY <1>2, SmallestMember
    <2> HIDE DEF Smallest
    <2> QED BY <1>2, <2>1, <2>2
  <1> QED BY <1>1, <1>2

-----------------------------------------------------------------------------
(* Type correctness and the one receive, one action at a time.             *)

\* The initial state.
LEMMA InitInv == Init => ReceptionInv /\ \A s \in Streams : Wakeup(s)
  <1> SUFFICES ASSUME Init PROVE ReceptionInv /\ \A s \in Streams : Wakeup(s)
    OBVIOUS
  <1>1. TypeOK
    BY ReceptionAssumption DEF Init, TypeOK
  <1>2. OneReceive
    BY DEF Init, OneReceive, NoStream
  <1>3. ASSUME NEW s \in Streams PROVE Contiguous(s) /\ DataContiguous(s) /\ Wakeup(s)
    <2>1. /\ Len(handled[s]) = 0 /\ Len(streamBuffers[s]) = 0 /\ streamBuffers[s] = <<>>
          /\ arrived[s] = 0 /\ taken[s] = 0 /\ resets = {} /\ abandoned = {} /\ Len(inds) = 0
      BY DEF Init
    <2>2. /\ Done(s) = 0 /\ Place(s) = 0 /\ Len(Ends[s]) \in Nat
          /\ 0 \in 0 .. Len(Ends[s])
      BY <2>1, FrameEnds DEF Done, Place, FrameEnd
    <2>3. FrameEnd(s, 0) <= Sends(s) /\ FrameEnd(s, 0) = 0
      BY <2>2, FrameEnds DEF FrameEnd
    <2>4. Slice(s, 0, 0) = <<>>
      BY SliceProperties, EmptySeq
    <2>5. Contiguous(s)
      BY <2>1, <2>2, <2>3, <2>4 DEF Contiguous
    <2>6. DataContiguous(s)
      BY <2>1, <2>2 DEF DataContiguous
    <2>7. Wakeup(s)
      BY <2>1 DEF Wakeup, Held
    <2> QED BY <2>5, <2>6, <2>7
  <1> QED BY <1>1, <1>2, <1>3 DEF ReceptionInv

\* Every step keeps the types.
LEMMA TypeStep ==
  ASSUME ReceptionInv, [Next]_vars
  PROVE  TypeOK'
  <1> USE DEF TypeOK
  <1>t. TypeOK /\ OneReceive /\ \A s \in Streams : Contiguous(s) /\ DataContiguous(s)
    BY DEF ReceptionInv
  <1>1. ASSUME NEW s \in Streams, DataComes(s) PROVE TypeOK'
    <2>1. PICK upTo \in arrived[s] + 1 .. Sends(s) : arrived' = [arrived EXCEPT ![s] = upTo]
      BY <1>1 DEF DataComes
    <2>2. arrived' \in [Streams -> Nat]
      BY <1>t, <2>1
    <2>3. inds' \in Seq(Inds)
      BY <1>t, <1>1, IndsMade, IndsAppend DEF DataComes
    <2> QED BY <1>t, <1>1, <2>2, <2>3 DEF DataComes, serial, buffers, outcome
  <1>2. ASSUME NEW s \in Streams, ResetComes(s) PROVE TypeOK'
    <2>1. inds' \in Seq(Inds)
      BY <1>t, <1>2, IndsMade, IndsAppend DEF ResetComes
    <2> QED BY <1>t, <1>2, <2>1 DEF ResetComes, serial, buffers, outcome
  <1>3. CASE AnswerReceive
    <2>1. Head(requests) \in Streams /\ Tail(requests) \in Seq(Streams)
      BY <1>t, <1>3, HeadTailProperties DEF AnswerReceive
    <2>2. inds' \in Seq(Inds)
      BY <1>t, <1>3, <2>1, IndsMade, IndsAppend DEF AnswerReceive
    <2> QED BY <1>t, <1>3, <2>1, <2>2 DEF AnswerReceive, buffers, outcome
  <1>4. CASE SocketDataAvailable
    <2>1. inds' \in Seq(Inds) /\ Head(inds) \in Inds
      BY <1>t, <1>4, IndsTail DEF SocketDataAvailable, NextInd
    <2>2. Head(inds).on \in Streams
      BY <2>1 DEF Inds
    <2>3. /\ recvPending' \subseteq Streams /\ recvInFlight' \in Streams \cup {NoStream}
          /\ requests' \in Seq(Streams)
      <3>1. recvPending \cup {Head(inds).on} \in SUBSET Streams
        BY <1>t, <2>2
      <3> QED BY <1>t, <1>4, <3>1, StartNext DEF SocketDataAvailable, serial
    <2> QED BY <1>t, <1>4, <2>1, <2>3 DEF SocketDataAvailable, quic, buffers, outcome
  <1>5. CASE SocketDataArrived
    <2>1. /\ inds' \in Seq(Inds) /\ Head(inds) \in Inds /\ Len(inds) \in Nat \ {0}
          /\ Head(inds) = inds[1]
      BY <1>t, <1>5, IndsTail DEF SocketDataArrived, NextInd
    <2> DEFINE p == Head(inds)
    <2>2. p.on \in Streams /\ p.from \in Nat /\ p.to \in Nat /\ p.kind = "data"
      BY <1>5, <2>1 DEF Inds, SocketDataArrived, NextInd
    <2>3. p.on = recvInFlight
      BY <1>t, <2>1, <2>2 DEF OneReceive, DataAt
    <2>4. p.from <= p.to
      <3>0. DataContiguous(p.on)
        BY <1>t, <2>2
      <3>1. 1 \in 1 .. Len(inds)
        BY <2>1
      <3>2. DataAt(1) /\ inds[1].on = p.on
        BY <2>1, <2>2 DEF DataAt
      <3>3. inds[1].from <= inds[1].to
        BY <3>0, <3>1, <3>2 DEF DataContiguous
      <3> QED BY <2>1, <3>3
    <2>5. Slice(p.on, p.from, p.to) \in Seq(Bytes)
      BY <2>2, <2>4, SliceProperties
    <2> HIDE DEF p
    <2>6. streamBuffers[recvInFlight] \o Slice(p.on, p.from, p.to) \in Seq(Bytes)
      BY <1>t, <2>2, <2>3, <2>5, ConcatProperties
    <2>7. streamBuffers' = [streamBuffers EXCEPT ![recvInFlight] =
                              streamBuffers[recvInFlight] \o Slice(p.on, p.from, p.to)]
      BY <1>5 DEF SocketDataArrived, p
    <2>8. streamBuffers' \in [Streams -> Seq(Bytes)]
      BY <1>t, <2>6, <2>7
    <2> QED BY <1>t, <1>5, <2>1, <2>2, <2>3, <2>8 DEF SocketDataArrived, quic, outcome
  <1>6. CASE HandleFrame
    <2> DEFINE buf == streamBuffers[parsing]
               n   == DeclaredLength(buf[1])
    <2>1. parsing \in Streams /\ buf \in Seq(Bytes)
      BY <1>t, <1>6 DEF HandleFrame
    <2>2. /\ Whole(buf)
          /\ handled' = [handled EXCEPT ![parsing] = Append(handled[parsing], SubSeq(buf, 1, n))]
          /\ streamBuffers' = [streamBuffers EXCEPT ![parsing] = SubSeq(buf, n + 1, Len(buf))]
      BY <1>6 DEF HandleFrame, Erased
    <2>3. n \in Nat /\ n <= Len(buf)
      <3>1. buf[1] \in Bytes /\ Len(buf) >= n
        BY <2>1, <2>2 DEF Whole
      <3>2. /\ buf[1].on \in Streams /\ buf[1].at \in Nat
        BY <3>1 DEF Bytes
      <3> DEFINE starts == {k \in 1 .. Len(Ends[buf[1].on]) : FrameEnd(buf[1].on, k - 1) = buf[1].at}
                 k == CHOOSE k \in starts : TRUE
      <3>3. CASE starts = {}
        BY <2>1, <3>1, <3>3 DEF DeclaredLength
      <3>4. CASE starts # {}
        <4>1. k \in starts
          BY <3>4
        <4>2. /\ k \in 1 .. Len(Ends[buf[1].on]) /\ FrameEnd(buf[1].on, k - 1) = buf[1].at
              /\ Len(Ends[buf[1].on]) \in Nat
          BY <3>2, <4>1, FrameEnds
        <4>3. n = FrameEnd(buf[1].on, k) - buf[1].at
          BY <3>4 DEF DeclaredLength
        <4>4. k \in 0 .. Len(Ends[buf[1].on]) /\ k - 1 \in 0 .. k - 1
          BY <4>2
        <4> HIDE DEF k, n, buf
        <4>5. FrameEnd(buf[1].on, k - 1) < FrameEnd(buf[1].on, k) /\ FrameEnd(buf[1].on, k) \in Nat
          BY <3>2, <4>4, FrameEnds
        <4>6. n \in Nat
          BY <3>2, <4>2, <4>3, <4>5
        <4> QED BY <2>1, <3>1, <4>6
      <3> QED BY <3>3, <3>4
    <2> HIDE DEF n, buf
    <2>4. SubSeq(buf, 1, n) \in Seq(Bytes)
      <3>1. \A i \in 1 .. n : buf[i] \in Bytes
        BY <2>1, <2>3
      <3> QED BY <2>3, <3>1, SubSeqProperties
    <2>5. SubSeq(buf, n + 1, Len(buf)) \in Seq(Bytes)
      <3>1. \A i \in n + 1 .. Len(buf) : buf[i] \in Bytes
        BY <2>1, <2>3
      <3>2. n + 1 \in Int /\ Len(buf) \in Int
        BY <2>1, <2>3
      <3> QED BY <3>1, <3>2, SubSeqProperties
    <2>6. Append(handled[parsing], SubSeq(buf, 1, n)) \in Seq(Seq(Bytes))
      BY <1>t, <2>1, <2>4, AppendProperties
    <2>7. handled' \in [Streams -> Seq(Seq(Bytes))] /\ streamBuffers' \in [Streams -> Seq(Bytes)]
      BY <1>t, <2>2, <2>5, <2>6
    <2>8. subscriptionEnd' \in Nat
      <3>1. Len(handled[parsing]) \in Nat
        BY <1>t, <2>1
      <3> QED BY <1>t, <1>6, <3>1 DEF HandleFrame
    <2> QED BY <1>t, <1>6, <2>7, <2>8 DEF HandleFrame, quic, serial
  <1>7. CASE ParseDone
    <2>1. /\ recvPending' \subseteq Streams /\ recvInFlight' \in Streams \cup {NoStream}
          /\ requests' \in Seq(Streams)
      BY <1>t, <1>7, StartNext DEF ParseDone
    <2> QED BY <1>t, <1>7, <2>1 DEF ParseDone, quic, buffers, outcome
  <1>8. CASE SocketStreamReset
    <2>1. inds' \in Seq(Inds) /\ Head(inds) \in Inds
      BY <1>t, <1>8, IndsTail DEF SocketStreamReset, NextInd
    <2>2. Head(inds).on \in Streams
      BY <2>1 DEF Inds
    <2>3. Without(Head(inds).on) \in [Streams -> Seq(Bytes)]
      BY <1>t, <2>2, EmptySeq DEF Without
    <2>4. /\ streamBuffers' \in [Streams -> Seq(Bytes)] /\ entries' \subseteq Streams
          /\ objectsResetByPeer' \in Nat
      <3> HIDE DEF Without
      <3>1. CASE Head(inds).on \in entries
        <4>1. /\ streamBuffers' = Without(Head(inds).on)
              /\ entries' = entries \ {Head(inds).on}
              /\ objectsResetByPeer' = objectsResetByPeer + 1
          BY <1>8, <3>1 DEF SocketStreamReset
        <4> QED BY <1>t, <2>3, <4>1
      <3>2. CASE Head(inds).on \notin entries
        <4>1. UNCHANGED <<streamBuffers, entries, objectsResetByPeer>>
          BY <1>8, <3>2 DEF SocketStreamReset, buffers
        <4> QED BY <1>t, <4>1
      <3> QED BY <3>1, <3>2
    <2>5. abandoned' \subseteq Streams
      BY <1>t, <1>8, <2>2 DEF SocketStreamReset
    <2> QED BY <1>t, <1>8, <2>1, <2>4, <2>5 DEF SocketStreamReset, quic, serial
  <1>9. CASE UNCHANGED vars
    BY <1>t, <1>9 DEF vars, quic, serial, buffers, outcome
  <1> QED BY <1>1, <1>2, <1>3, <1>4, <1>5, <1>6, <1>7, <1>8, <1>9 DEF Next, Application

\* While no stream is being received there is no request and no packet.
LEMMA Idle ==
  ASSUME TypeOK, OneReceive, recvInFlight = NoStream
  PROVE  requests = <<>> /\ \A i \in 1 .. Len(inds) : ~DataAt(i)
  <1>1. requests = <<>>
    BY DEF OneReceive
  <1>2. ASSUME NEW i \in 1 .. Len(inds), DataAt(i) PROVE FALSE
    <2>1. inds[i] \in Inds /\ inds[i].on = NoStream
      BY <1>2 DEF TypeOK, OneReceive
    <2>2. inds[i].on \in Nat
      BY <2>1, ReceptionAssumption DEF Inds
    <2> QED BY <2>1, <2>2 DEF NoStream
  <1> QED BY <1>1, <1>2

\* startNextRecv, when nothing is being received, leaves one receive at most.
LEMMA StartOne ==
  ASSUME TypeOK, NEW pending \in SUBSET Streams, StartNextRecv(pending), requests = <<>>,
         inds' \in Seq(Inds), \A i \in 1 .. Len(inds') : ~DataAt(i)',
         recvInFlight' # NoStream => parsing' = NoStream
  PROVE  OneReceive'
  <1>1. CASE pending = {}
    BY <1>1, StartNext DEF OneReceive, TypeOK
  <1>2. CASE pending # {}
    <2>1. recvInFlight' \in Streams /\ requests' = Append(<<>>, recvInFlight')
      BY <1>2, StartNext DEF TypeOK
    <2>2. requests' = <<recvInFlight'>> /\ requests' # <<>>
      BY <2>1
    <2>3. recvInFlight' # NoStream
      BY <2>1, ReceptionAssumption DEF NoStream
    <2> QED BY <2>2, <2>3 DEF OneReceive
  <1> QED BY <1>1, <1>2

\* An indication that is not data leaves the queue, or joins it.
LEMMA OneReceiveKept ==
  ASSUME TypeOK, OneReceive, UNCHANGED <<requests, recvInFlight>>,
         parsing' # NoStream => parsing # NoStream,
         \/ inds' = inds
         \/ \E x \in Inds : x.kind # "data" /\ inds' = Append(inds, x)
         \/ inds # <<>> /\ inds' = Tail(inds) /\ Head(inds).kind # "data"
  PROVE  OneReceive'
  <1>1. CASE inds' = inds
    BY <1>1 DEF OneReceive, DataAt
  <1>2. CASE \E x \in Inds : x.kind # "data" /\ inds' = Append(inds, x)
    <2>1. PICK x \in Inds : x.kind # "data" /\ inds' = Append(inds, x)
      BY <1>2
    <2>2. /\ Len(inds) \in Nat /\ Len(inds') = Len(inds) + 1
          /\ \A i \in 1 .. Len(inds) : inds'[i] = inds[i]
          /\ inds'[Len(inds) + 1] = x
      BY <2>1, IndsAppend DEF TypeOK
    <2>3. \A i \in 1 .. Len(inds') : DataAt(i)' => i \in 1 .. Len(inds) /\ DataAt(i)
      BY <2>1, <2>2 DEF DataAt
    <2>4. \A i \in 1 .. Len(inds) : i \in 1 .. Len(inds') /\ (DataAt(i) => DataAt(i)')
      BY <2>2 DEF DataAt
    <2> QED BY <2>2, <2>3, <2>4 DEF OneReceive
  <1>3. CASE inds # <<>> /\ inds' = Tail(inds) /\ Head(inds).kind # "data"
    <2>1. /\ Len(inds) \in Nat \ {0} /\ Len(inds') = Len(inds) - 1 /\ Head(inds) = inds[1]
          /\ \A i \in 1 .. Len(inds) - 1 : inds'[i] = inds[i + 1]
      BY <1>3, IndsTail DEF TypeOK
    <2>2. \A i \in 1 .. Len(inds') :
            /\ i + 1 \in 1 .. Len(inds) /\ inds'[i] = inds[i + 1]
            /\ DataAt(i)' <=> DataAt(i + 1)
      BY <2>1 DEF DataAt
    <2>3. \A i \in 1 .. Len(inds) : DataAt(i) => i - 1 \in 1 .. Len(inds')
      <3> TAKE i \in 1 .. Len(inds)
      <3> HAVE DataAt(i)
      <3>1. inds[i].kind = "data" /\ inds[1].kind # "data"
        BY <1>3, <2>1 DEF DataAt
      <3>2. i # 1
        BY <3>1
      <3> QED BY <2>1, <3>2
    <2>4. \A i \in 1 .. Len(inds) : DataAt(i) => DataAt(i - 1)'
      <3> TAKE i \in 1 .. Len(inds)
      <3> HAVE DataAt(i)
      <3>1. i - 1 \in 1 .. Len(inds') /\ (i - 1) + 1 = i
        BY <2>3
      <3> QED BY <2>2, <3>1
    <2>5. \A i, j \in 1 .. Len(inds') : DataAt(i)' /\ DataAt(j)' => i = j
      <3> TAKE i, j \in 1 .. Len(inds')
      <3> HAVE DataAt(i)' /\ DataAt(j)'
      <3>1. i + 1 = j + 1
        BY <2>2 DEF OneReceive
      <3> QED BY <2>1, <3>1
    <2>6. \A i \in 1 .. Len(inds') : DataAt(i)' => inds'[i].on = recvInFlight'
      BY <2>2 DEF OneReceive
    <2>7. requests' # <<>> =>
            /\ requests' = <<recvInFlight'>> /\ recvInFlight' # NoStream
            /\ \A i \in 1 .. Len(inds') : ~DataAt(i)'
      BY <2>2 DEF OneReceive
    <2>8. recvInFlight' # NoStream => requests' # <<>> \/ \E i \in 1 .. Len(inds') : DataAt(i)'
      BY <2>3, <2>4 DEF OneReceive
    <2> QED BY <2>5, <2>6, <2>7, <2>8 DEF OneReceive
  <1> QED BY <1>1, <1>2, <1>3

\* Every step keeps the one receive.
LEMMA OneReceiveStep ==
  ASSUME ReceptionInv, [Next]_vars
  PROVE  OneReceive'
  <1>t. TypeOK /\ OneReceive
    BY DEF ReceptionInv
  <1>1. ASSUME NEW s \in Streams, DataComes(s) PROVE OneReceive'
    <2>1. Notice(s) \in Inds /\ Notice(s).kind # "data"
      BY IndsMade DEF Notice
    <2> QED BY <1>t, <1>1, <2>1, OneReceiveKept DEF DataComes, serial
  <1>2. ASSUME NEW s \in Streams, ResetComes(s) PROVE OneReceive'
    <2>1. Reset(s) \in Inds /\ Reset(s).kind # "data"
      BY IndsMade DEF Reset
    <2> QED BY <1>t, <1>2, <2>1, OneReceiveKept DEF ResetComes, serial
  <1>3. CASE AnswerReceive
    <2>1. requests = <<recvInFlight>> /\ recvInFlight # NoStream
          /\ \A i \in 1 .. Len(inds) : ~DataAt(i)
      BY <1>t, <1>3 DEF AnswerReceive, OneReceive
    <2>2. /\ Head(requests) = recvInFlight /\ recvInFlight \in Streams /\ Tail(requests) = <<>>
      BY <1>t, <2>1 DEF TypeOK
    <2> DEFINE x == Packet(recvInFlight, taken[recvInFlight], arrived[recvInFlight])
    <2>3. inds' = Append(inds, x) /\ UNCHANGED <<recvInFlight, parsing>> /\ requests' = <<>>
      BY <1>3, <2>2 DEF AnswerReceive
    <2>4. x \in Inds /\ x.kind = "data" /\ x.on = recvInFlight
      <3>1. taken[recvInFlight] \in Nat /\ arrived[recvInFlight] \in Nat
        BY <1>t, <2>2 DEF TypeOK
      <3> QED BY <2>2, <3>1, IndsMade DEF Packet
    <2> HIDE DEF x
    <2>5. /\ Len(inds) \in Nat /\ Len(inds') = Len(inds) + 1
          /\ \A i \in 1 .. Len(inds) : inds'[i] = inds[i]
          /\ inds'[Len(inds) + 1] = x
      BY <1>t, <2>3, <2>4, IndsAppend DEF TypeOK
    <2>6. \A i \in 1 .. Len(inds') : DataAt(i)' <=> i = Len(inds) + 1
      BY <2>1, <2>4, <2>5 DEF DataAt
    <2>7. Len(inds) + 1 \in 1 .. Len(inds')
      BY <2>5
    <2>8. parsing' # NoStream => recvInFlight' = NoStream
      BY <1>t, <2>3 DEF OneReceive
    <2> QED BY <2>3, <2>4, <2>5, <2>6, <2>7, <2>8 DEF OneReceive
  <1>4. CASE SocketDataAvailable
    <2>1. /\ inds # <<>> /\ inds' = Tail(inds) /\ Head(inds).kind = "available"
          /\ Head(inds).kind # "data" /\ parsing = NoStream /\ parsing' = parsing
      BY <1>4 DEF SocketDataAvailable, NextInd
    <2>2. CASE UNCHANGED <<requests, recvInFlight>>
      BY <1>t, <2>1, <2>2, OneReceiveKept
    <2>3. CASE recvInFlight = NoStream /\ StartNextRecv(recvPending \cup {Head(inds).on})
      <3>1. requests = <<>> /\ \A i \in 1 .. Len(inds) : ~DataAt(i)
        BY <1>t, <2>3, Idle
      <3>2. /\ Len(inds) \in Nat \ {0} /\ Len(inds') = Len(inds) - 1 /\ inds' \in Seq(Inds)
            /\ Head(inds) \in Inds /\ \A i \in 1 .. Len(inds) - 1 : inds'[i] = inds[i + 1]
        BY <1>t, <2>1, IndsTail DEF TypeOK
      <3>3. \A i \in 1 .. Len(inds') : i + 1 \in 1 .. Len(inds) /\ inds'[i] = inds[i + 1]
        BY <3>2
      <3>4. \A i \in 1 .. Len(inds') : ~DataAt(i)'
        BY <3>1, <3>3 DEF DataAt
      <3>5. recvPending \cup {Head(inds).on} \in SUBSET Streams
        BY <1>t, <3>2 DEF TypeOK, Inds
      <3> QED BY <1>t, <2>1, <2>3, <3>1, <3>2, <3>4, <3>5, StartOne
    <2> QED BY <1>4, <2>2, <2>3 DEF SocketDataAvailable, MayReceive, serial
  <1>5. CASE SocketDataArrived
    <2>1. /\ inds # <<>> /\ inds' = Tail(inds) /\ Head(inds).kind = "data"
          /\ recvInFlight' = NoStream /\ requests' = requests
      BY <1>5 DEF SocketDataArrived, NextInd
    <2>2. /\ Len(inds) \in Nat \ {0} /\ Len(inds') = Len(inds) - 1 /\ Head(inds) = inds[1]
          /\ \A i \in 1 .. Len(inds) - 1 : inds'[i] = inds[i + 1]
      BY <1>t, <2>1, IndsTail DEF TypeOK
    <2>3. 1 \in 1 .. Len(inds) /\ DataAt(1)
      BY <2>1, <2>2 DEF DataAt
    <2>4. requests = <<>>
      BY <1>t, <2>3 DEF OneReceive
    <2>5. ASSUME NEW i \in 1 .. Len(inds'), DataAt(i)' PROVE FALSE
      <3>1. i + 1 \in 1 .. Len(inds) /\ DataAt(i + 1) /\ i + 1 # 1
        BY <2>2, <2>5 DEF DataAt
      <3> QED BY <1>t, <2>3, <3>1 DEF OneReceive
    <2> QED BY <2>1, <2>4, <2>5 DEF OneReceive
  <1>6. CASE HandleFrame
    <2>1. UNCHANGED <<requests, recvInFlight, inds, parsing>>
      BY <1>6 DEF HandleFrame, serial
    <2> QED BY <1>t, <2>1, OneReceiveKept
  <1>7. CASE ParseDone
    <2>1. parsing # NoStream /\ parsing' = NoStream /\ StartNextRecv(recvPending) /\ inds' = inds
      BY <1>7 DEF ParseDone
    <2>2. recvInFlight = NoStream
      BY <1>t, <2>1 DEF OneReceive
    <2>3. requests = <<>> /\ \A i \in 1 .. Len(inds) : ~DataAt(i)
      BY <1>t, <2>2, Idle
    <2>4. \A i \in 1 .. Len(inds') : ~DataAt(i)'
      BY <2>1, <2>3 DEF DataAt
    <2>5. inds' \in Seq(Inds) /\ recvPending \in SUBSET Streams
      BY <1>t, <2>1 DEF TypeOK
    <2> QED BY <1>t, <2>1, <2>3, <2>4, <2>5, StartOne
  <1>8. CASE SocketStreamReset
    <2>1. /\ inds # <<>> /\ inds' = Tail(inds) /\ Head(inds).kind # "data"
          /\ UNCHANGED <<requests, recvInFlight, parsing>>
      BY <1>8 DEF SocketStreamReset, NextInd, serial
    <2> QED BY <1>t, <2>1, OneReceiveKept
  <1>9. CASE UNCHANGED vars
    <2>1. UNCHANGED <<requests, recvInFlight, inds, parsing>>
      BY <1>9 DEF vars, serial
    <2> QED BY <1>t, <2>1, OneReceiveKept
  <1> QED BY <1>1, <1>2, <1>3, <1>4, <1>5, <1>6, <1>7, <1>8, <1>9 DEF Next, Application

-----------------------------------------------------------------------------
(* Contiguity, one action at a time.                                       *)

\* The places of a stream are numbers.
LEMMA Places ==
  ASSUME TypeOK, NEW s \in Streams, Contiguous(s)
  PROVE  /\ Len(handled[s]) \in 0 .. Len(Ends[s]) /\ Len(Ends[s]) \in Nat
         /\ Done(s) \in Nat /\ Place(s) \in Nat /\ Sends(s) \in Nat /\ Done(s) <= Place(s)
         /\ arrived[s] \in Nat /\ taken[s] \in Nat
         /\ streamBuffers[s] \in Seq(Bytes) /\ Len(streamBuffers[s]) \in Nat
         /\ Len(streamBuffers[s]) = Place(s) - Done(s)
  <1>1. /\ handled[s] \in Seq(Seq(Bytes)) /\ streamBuffers[s] \in Seq(Bytes)
        /\ arrived[s] \in Nat /\ taken[s] \in Nat
    BY DEF TypeOK
  <1>2. Len(handled[s]) \in 0 .. Len(Ends[s]) /\ Len(Ends[s]) \in Nat
    BY <1>1, FrameEnds DEF Contiguous
  <1>3. Done(s) \in Nat
    BY <1>2, FrameEnds DEF Done
  <1>4. Sends(s) \in Nat
    <2>1. Len(Ends[s]) \in 0 .. Len(Ends[s])
      BY <1>2
    <2> QED BY <2>1, FrameEnds DEF Sends
  <1>5. Len(streamBuffers[s]) \in Nat
    BY <1>1
  <1> HIDE DEF Done
  <1>6. Place(s) = Done(s) + Len(streamBuffers[s])
    BY DEF Place
  <1> QED BY <1>1, <1>2, <1>3, <1>4, <1>5, <1>6

\* What tryParse cuts off the front of a buffer is the next frame of its stream, and what
\* it leaves begins where that frame ends.
LEMMA NextFrame ==
  ASSUME ReceptionInv, NEW s \in Streams, Whole(streamBuffers[s])
  PROVE  LET n == DeclaredLength(streamBuffers[s][1])
             h == Len(handled[s])
         IN  /\ s \notin abandoned
             /\ h \in Nat /\ h < Len(Ends[s])
             /\ FrameEnd(s, h + 1) \in Nat /\ FrameEnd(s, h + 1) <= Place(s)
             /\ SubSeq(streamBuffers[s], 1, n) = Frame(s, h + 1)
             /\ Erased(streamBuffers[s], n) = Slice(s, FrameEnd(s, h + 1), Place(s))
  <1> DEFINE buf == streamBuffers[s]
             n   == DeclaredLength(buf[1])
             h   == Len(handled[s])
             starts == {k \in 1 .. Len(Ends[s]) : FrameEnd(s, k - 1) = Done(s)}
  <1>1. TypeOK /\ Contiguous(s)
    BY DEF ReceptionInv
  <1>2. /\ h \in 0 .. Len(Ends[s]) /\ Len(Ends[s]) \in Nat
        /\ Done(s) \in Nat /\ Place(s) \in Nat /\ Sends(s) \in Nat /\ Done(s) <= Place(s)
        /\ buf \in Seq(Bytes) /\ Len(buf) \in Nat /\ Len(buf) = Place(s) - Done(s)
    BY <1>1, Places
  <1>3. buf # <<>> /\ Len(buf) >= n
    BY DEF Whole
  <1>4. Len(buf) > 0
    BY <1>2, <1>3
  <1>5. s \notin abandoned /\ buf = Slice(s, Done(s), Place(s)) /\ Place(s) <= Sends(s)
    BY <1>1, <1>3 DEF Contiguous
  <1>6. buf[1] = [on |-> s, at |-> Done(s)]
    <2>1. 1 \in 1 .. Place(s) - Done(s)
      BY <1>2, <1>4
    <2>2. Slice(s, Done(s), Place(s))[1] = [on |-> s, at |-> Done(s) + 1 - 1]
      BY <1>2, <2>1, SliceProperties
    <2>3. Done(s) + 1 - 1 = Done(s)
      BY <1>2
    <2> QED BY <1>5, <2>2, <2>3
  <1>7. h < Len(Ends[s])
    <2>1. h # Len(Ends[s])
      BY <1>2, <1>4, <1>5 DEF Done, Sends
    <2> QED BY <1>2, <2>1
  <1>8. /\ h + 1 \in 1 .. Len(Ends[s]) /\ (h + 1) - 1 = h
        /\ \A m \in 0 .. Len(Ends[s]) : FrameEnd(s, m) \in Nat
        /\ \A m \in 0 .. Len(Ends[s]) : \A l \in 0 .. m - 1 : FrameEnd(s, l) < FrameEnd(s, m)
    BY <1>2, <1>7, FrameEnds
  <1>9. starts = {h + 1}
    <2>1. h + 1 \in starts
      BY <1>8 DEF Done
    <2>2. ASSUME NEW k \in starts PROVE k = h + 1
      <3>1. /\ k \in 1 .. Len(Ends[s]) /\ FrameEnd(s, k - 1) = FrameEnd(s, h)
            /\ k - 1 \in 0 .. Len(Ends[s]) /\ h \in 0 .. Len(Ends[s])
        BY <1>2 DEF Done
      <3>2. FrameEnd(s, h) \in Nat
        BY <1>8, <3>1
      <3>3. ~(k - 1 < h)
        <4>1. k - 1 < h => k - 1 \in 0 .. h - 1
          BY <1>2, <3>1
        <4> QED BY <1>8, <3>1, <3>2, <4>1
      <3>4. ~(h < k - 1)
        <4>1. h < k - 1 => h \in 0 .. (k - 1) - 1
          BY <1>2, <3>1
        <4> QED BY <1>8, <3>1, <3>2, <4>1
      <3> QED BY <1>2, <3>1, <3>3, <3>4
    <2> QED BY <2>1, <2>2
  <1>10. n = FrameEnd(s, h + 1) - Done(s)
    <2>1. buf[1].on = s /\ buf[1].at = Done(s)
      BY <1>6
    <2>2. (CHOOSE k \in starts : TRUE) = h + 1
      BY <1>9
    <2> HIDE DEF buf, h
    <2> QED BY <1>9, <2>1, <2>2 DEF DeclaredLength
  <1> DEFINE b == FrameEnd(s, h + 1)
  <1>11. b \in Nat /\ Done(s) < b
    <2>1. h + 1 \in 0 .. Len(Ends[s]) /\ h \in 0 .. (h + 1) - 1
      BY <1>2, <1>8
    <2> QED BY <1>8, <2>1 DEF Done
  <1>12. b <= Place(s)
    BY <1>2, <1>3, <1>10, <1>11
  <1>13. SubSeq(buf, 1, n) = Slice(s, Done(s), b) /\ Erased(buf, n) = Slice(s, b, Place(s))
    <2>1. n + 1 = b - Done(s) + 1
      BY <1>10
    <2>3. Done(s) \in Nat /\ Place(s) \in Nat /\ b \in Nat /\ Done(s) <= b /\ b <= Place(s)
      BY <1>2, <1>11, <1>12
    <2> HIDE DEF b, n, buf
    <2>2. /\ SubSeq(Slice(s, Done(s), Place(s)), 1, b - Done(s)) = Slice(s, Done(s), b)
          /\ SubSeq(Slice(s, Done(s), Place(s)), b - Done(s) + 1, Place(s) - Done(s))
               = Slice(s, b, Place(s))
      BY <2>3, SliceSubSeq
    <2> QED BY <1>2, <1>5, <1>10, <2>1, <2>2 DEF Erased, b
  <1>14. Slice(s, Done(s), b) = Frame(s, h + 1)
    BY <1>8 DEF Frame, Done
  <1> QED BY <1>2, <1>5, <1>7, <1>11, <1>12, <1>13, <1>14

\* Contiguity of a stream none of whose bytes and frames a step touches.
LEMMA ContiguousKept ==
  ASSUME NEW s \in Streams, Contiguous(s),
         handled'[s] = handled[s], streamBuffers'[s] = streamBuffers[s],
         arrived'[s] = arrived[s], taken'[s] = taken[s],
         s \in resets' <=> s \in resets, s \in abandoned' <=> s \in abandoned,
         s \in entries => s \in entries'
  PROVE  Contiguous(s)' /\ Done(s)' = Done(s) /\ Place(s)' = Place(s)
  BY DEF Contiguous, Done, Place

\* The same of its packets, when an indication leaves the queue or joins it that is neither
\* a packet nor a reset of the stream.
LEMMA DataKept ==
  ASSUME TypeOK, NEW s \in Streams, DataContiguous(s),
         Place(s)' = Place(s), taken'[s] = taken[s],
         s \in resets' <=> s \in resets, s \in abandoned' <=> s \in abandoned,
         \/ inds' = inds
         \/ \E x \in Inds : (x.kind = "available" \/ x.on # s) /\ inds' = Append(inds, x)
         \/ inds # <<>> /\ inds' = Tail(inds) /\ (Head(inds).kind # "data" \/ Head(inds).on # s)
  PROVE  DataContiguous(s)'
  <1>1. CASE inds' = inds
    BY <1>1 DEF DataContiguous, DataAt
  <1>2. CASE \E x \in Inds : (x.kind = "available" \/ x.on # s) /\ inds' = Append(inds, x)
    <2>1. PICK x \in Inds : (x.kind = "available" \/ x.on # s) /\ inds' = Append(inds, x)
      BY <1>2
    <2>2. /\ Len(inds) \in Nat /\ Len(inds') = Len(inds) + 1
          /\ \A i \in 1 .. Len(inds) : inds'[i] = inds[i]
          /\ inds'[Len(inds) + 1] = x
      BY <2>1, IndsAppend DEF TypeOK
    <2>3. \A i \in 1 .. Len(inds') :
            inds'[i].kind \in {"data", "reset"} /\ inds'[i].on = s =>
              i \in 1 .. Len(inds) /\ inds'[i] = inds[i]
      BY <2>1, <2>2
    <2>4. \A i \in 1 .. Len(inds) : i \in 1 .. Len(inds') /\ inds'[i] = inds[i]
      BY <2>2
    <2>5. \A i \in 1 .. Len(inds') : DataAt(i)' /\ inds'[i].on = s =>
            i \in 1 .. Len(inds) /\ inds'[i] = inds[i] /\ DataAt(i) /\ inds[i].on = s
      BY <2>3 DEF DataAt
    <2>6. s \notin resets' =>
            \/ taken'[s] = Place(s)'
            \/ \E i \in 1 .. Len(inds') : DataAt(i)' /\ inds'[i].on = s
      BY <2>4 DEF DataContiguous, DataAt
    <2>7. ASSUME NEW i \in 1 .. Len(inds'), inds'[i].kind = "reset", inds'[i].on = s
          PROVE  /\ s \in resets'
                 /\ \A j \in i + 1 .. Len(inds') :
                      DataAt(j)' /\ inds'[j].on = s => inds'[j].from = inds'[j].to
      <3>1. i \in 1 .. Len(inds) /\ inds[i].kind = "reset" /\ inds[i].on = s
        BY <2>3, <2>7
      <3>2. \A j \in i + 1 .. Len(inds) : DataAt(j) /\ inds[j].on = s => inds[j].from = inds[j].to
        BY <3>1 DEF DataContiguous
      <3>3. \A j \in i + 1 .. Len(inds') : j \in 1 .. Len(inds')
        BY <3>1, <2>2
      <3>4. \A j \in i + 1 .. Len(inds') : DataAt(j)' /\ inds'[j].on = s => j \in i + 1 .. Len(inds)
        BY <2>5, <3>3
      <3>5. s \in resets'
        BY <3>1 DEF DataContiguous
      <3> QED BY <2>5, <3>2, <3>3, <3>4, <3>5
    <2> QED BY <2>5, <2>6, <2>7 DEF DataContiguous
  <1>3. CASE /\ inds # <<>> /\ inds' = Tail(inds)
             /\ (Head(inds).kind # "data" \/ Head(inds).on # s)
    <2>1. /\ Len(inds) \in Nat \ {0} /\ Len(inds') = Len(inds) - 1 /\ Head(inds) = inds[1]
          /\ \A i \in 1 .. Len(inds) - 1 : inds'[i] = inds[i + 1]
      BY <1>3, IndsTail DEF TypeOK
    <2>2. \A i \in 1 .. Len(inds') :
            /\ i + 1 \in 1 .. Len(inds) /\ inds'[i] = inds[i + 1]
            /\ DataAt(i)' <=> DataAt(i + 1)
      BY <2>1 DEF DataAt
    <2>3. ~(DataAt(1) /\ inds[1].on = s)
      BY <1>3, <2>1 DEF DataAt
    <2>4. \A i \in 1 .. Len(inds) : DataAt(i) /\ inds[i].on = s =>
            i - 1 \in 1 .. Len(inds') /\ DataAt(i - 1)' /\ inds'[i - 1].on = s
      <3> TAKE i \in 1 .. Len(inds)
      <3> HAVE DataAt(i) /\ inds[i].on = s
      <3>1. i # 1
        BY <2>3
      <3>2. i - 1 \in 1 .. Len(inds') /\ (i - 1) + 1 = i
        BY <2>1, <3>1
      <3> QED BY <2>2, <3>2
    <2>5. s \notin resets' =>
            \/ taken'[s] = Place(s)'
            \/ \E i \in 1 .. Len(inds') : DataAt(i)' /\ inds'[i].on = s
      BY <2>4 DEF DataContiguous
    <2>6. ASSUME NEW i \in 1 .. Len(inds'), inds'[i].kind = "reset", inds'[i].on = s
          PROVE  /\ s \in resets'
                 /\ \A j \in i + 1 .. Len(inds') :
                      DataAt(j)' /\ inds'[j].on = s => inds'[j].from = inds'[j].to
      <3>1. i + 1 \in 1 .. Len(inds) /\ inds[i + 1].kind = "reset" /\ inds[i + 1].on = s
        BY <2>2, <2>6
      <3>2. \A j \in (i + 1) + 1 .. Len(inds) :
              DataAt(j) /\ inds[j].on = s => inds[j].from = inds[j].to
        BY <3>1 DEF DataContiguous
      <3>3. \A j \in i + 1 .. Len(inds') : j \in 1 .. Len(inds') /\ j + 1 \in (i + 1) + 1 .. Len(inds)
        BY <2>1
      <3>4. s \in resets'
        BY <3>1 DEF DataContiguous
      <3> QED BY <2>2, <3>2, <3>3, <3>4
    <2>7. \A i \in 1 .. Len(inds') : DataAt(i)' /\ inds'[i].on = s =>
            /\ inds'[i].from <= inds'[i].to /\ inds'[i].to <= Sends(s)
            /\ inds'[i].from = inds'[i].to \/ (s \notin abandoned' /\ inds'[i].from = Place(s)')
            /\ s \notin resets' => inds'[i].from = Place(s)' /\ inds'[i].to = taken'[s]
      <3> TAKE i \in 1 .. Len(inds')
      <3> HAVE DataAt(i)' /\ inds'[i].on = s
      <3>1. /\ i + 1 \in 1 .. Len(inds) /\ inds'[i] = inds[i + 1]
            /\ DataAt(i + 1) /\ inds[i + 1].on = s
        BY <2>2
      <3> QED BY <3>1 DEF DataContiguous
    <2>8. Sends(s)' = Sends(s)
      BY DEF Sends, FrameEnd
    <2> QED BY <2>5, <2>6, <2>7, <2>8 DEF DataContiguous
  <1> QED BY <1>1, <1>2, <1>3

\* Contiguity of a stream that an action other than its own touches, of which the buffer
\* and the frames stay.
LEMMA StreamKept ==
  ASSUME ReceptionInv, NEW s \in Streams,
         handled'[s] = handled[s], streamBuffers'[s] = streamBuffers[s],
         arrived'[s] = arrived[s], taken'[s] = taken[s],
         s \in resets' <=> s \in resets, s \in abandoned' <=> s \in abandoned,
         s \in entries => s \in entries',
         \/ inds' = inds
         \/ \E x \in Inds : (x.kind = "available" \/ x.on # s) /\ inds' = Append(inds, x)
         \/ inds # <<>> /\ inds' = Tail(inds) /\ (Head(inds).kind # "data" \/ Head(inds).on # s)
  PROVE  Contiguous(s)' /\ DataContiguous(s)'
  <1>1. TypeOK /\ Contiguous(s) /\ DataContiguous(s)
    BY DEF ReceptionInv
  <1>2. Contiguous(s)' /\ Place(s)' = Place(s)
    BY <1>1, ContiguousKept
  <1>3. DataContiguous(s)'
    BY <1>1, <1>2, DataKept
  <1> QED BY <1>2, <1>3

\* More bytes of a stream arrive.
LEMMA DataComesStream ==
  ASSUME ReceptionInv, NEW r \in Streams, DataComes(r), NEW s \in Streams
  PROVE  Contiguous(s)' /\ DataContiguous(s)'
  <1>1. TypeOK /\ Contiguous(s) /\ DataContiguous(s)
    BY DEF ReceptionInv
  <1>2. Notice(r) \in Inds /\ Notice(r).kind = "available"
    BY IndsMade DEF Notice
  <1>3. /\ r \notin resets
        /\ inds' = inds \/ inds' = Append(inds, Notice(r))
        /\ UNCHANGED <<taken, resets, streamBuffers, entries, handled, abandoned>>
    BY DEF DataComes, serial, buffers, outcome
  <1>4. PICK upTo \in arrived[r] + 1 .. Sends(r) : arrived' = [arrived EXCEPT ![r] = upTo]
    BY DEF DataComes
  <1>5. CASE s # r
    <2>1. arrived'[s] = arrived[s]
      BY <1>1, <1>4, <1>5 DEF TypeOK
    <2> QED BY <1>2, <1>3, <2>1, StreamKept
  <1>6. CASE s = r
    <2>1. arrived[s] \in Nat /\ taken[s] \in Nat /\ Sends(s) \in Nat
      BY <1>1, Places
    <2>2. arrived'[s] = upTo
      BY <1>1, <1>4, <1>6 DEF TypeOK
    <2>3. taken[s] <= arrived'[s] /\ arrived'[s] <= Sends(s)
      BY <1>1, <1>4, <1>6, <2>1, <2>2 DEF Contiguous
    <2>4. Done(s)' = Done(s) /\ Place(s)' = Place(s) /\ Sends(s)' = Sends(s)
      BY <1>3 DEF Done, Place, Sends, FrameEnd
    <2>5. Contiguous(s)'
      BY <1>1, <1>3, <1>6, <2>3, <2>4 DEF Contiguous, Slice
    <2>6. DataContiguous(s)'
      BY <1>1, <1>2, <1>3, <2>4, DataKept
    <2> QED BY <2>5, <2>6
  <1> QED BY <1>5, <1>6

\* A stream is reset.
LEMMA ResetComesStream ==
  ASSUME ReceptionInv, NEW r \in Streams, ResetComes(r), NEW s \in Streams
  PROVE  Contiguous(s)' /\ DataContiguous(s)'
  <1>1. TypeOK /\ Contiguous(s) /\ DataContiguous(s)
    BY DEF ReceptionInv
  <1>2. Reset(r) \in Inds /\ Reset(r).kind = "reset" /\ Reset(r).on = r
    BY IndsMade DEF Reset
  <1>3. /\ r \notin resets /\ resets' = resets \cup {r}
        /\ taken' = [taken EXCEPT ![r] = arrived[r]]
        /\ inds' = Append(inds, Reset(r))
        /\ UNCHANGED <<arrived, streamBuffers, entries, handled, abandoned>>
    BY DEF ResetComes, buffers, outcome
  <1>4. CASE s # r
    <2>1. taken'[s] = taken[s] /\ (s \in resets' <=> s \in resets)
      BY <1>1, <1>3, <1>4 DEF TypeOK
    <2> QED BY <1>2, <1>3, <1>4, <2>1, StreamKept
  <1>5. CASE s = r
    <2>1. taken'[s] = arrived[s] /\ arrived[s] \in Nat
      BY <1>1, <1>3, <1>5 DEF TypeOK
    <2>2. Done(s)' = Done(s) /\ Place(s)' = Place(s) /\ Sends(s)' = Sends(s)
      BY <1>3 DEF Done, Place, Sends, FrameEnd
    <2>3. s \notin abandoned /\ s \in resets'
      BY <1>1, <1>3, <1>5 DEF Contiguous
    <2>4. Contiguous(s)'
      BY <1>1, <1>3, <2>1, <2>2, <2>3 DEF Contiguous, Slice
    <2>5. /\ Len(inds) \in Nat /\ Len(inds') = Len(inds) + 1
          /\ \A i \in 1 .. Len(inds) : inds'[i] = inds[i]
          /\ inds'[Len(inds) + 1] = Reset(r)
      BY <1>1, <1>2, <1>3, IndsAppend DEF TypeOK
    <2>6. \A i \in 1 .. Len(inds') : DataAt(i)' /\ inds'[i].on = s =>
            i \in 1 .. Len(inds) /\ inds'[i] = inds[i] /\ DataAt(i) /\ inds[i].on = s
      BY <1>2, <2>5 DEF DataAt
    <2>7. \A i \in 1 .. Len(inds') : inds'[i].kind = "reset" /\ inds'[i].on = s =>
            i = Len(inds')
      <3> TAKE i \in 1 .. Len(inds')
      <3> HAVE inds'[i].kind = "reset" /\ inds'[i].on = s
      <3>1. i \notin 1 .. Len(inds)
        BY <1>1, <1>3, <1>5, <2>5 DEF DataContiguous
      <3> QED BY <2>5, <3>1
    <2>8. \A i \in 1 .. Len(inds') : inds'[i].kind = "reset" /\ inds'[i].on = s =>
            \A j \in i + 1 .. Len(inds') : FALSE
      BY <2>5, <2>7
    <2>9. \A i \in 1 .. Len(inds') : DataAt(i)' /\ inds'[i].on = s =>
            /\ inds'[i].from <= inds'[i].to /\ inds'[i].to <= Sends(s)
            /\ inds'[i].from = inds'[i].to \/ (s \notin abandoned' /\ inds'[i].from = Place(s)')
      BY <1>1, <1>3, <2>2, <2>6 DEF DataContiguous
    <2>10. DataContiguous(s)'
      BY <2>2, <2>3, <2>8, <2>9 DEF DataContiguous
    <2> QED BY <2>4, <2>10
  <1> QED BY <1>4, <1>5

\* QUIC answers the receive outstanding.
LEMMA AnswerStream ==
  ASSUME ReceptionInv, AnswerReceive, NEW s \in Streams
  PROVE  Contiguous(s)' /\ DataContiguous(s)'
  <1>1. TypeOK /\ OneReceive /\ Contiguous(s) /\ DataContiguous(s)
    BY DEF ReceptionInv
  <1> DEFINE r == Head(requests)
             x == Packet(r, taken[r], arrived[r])
  <1>2. /\ r \in Streams /\ requests # <<>>
        /\ \A i \in 1 .. Len(inds) : ~DataAt(i)
    BY <1>1, HeadTailProperties DEF AnswerReceive, OneReceive, TypeOK
  <1>3. /\ inds' = Append(inds, x) /\ taken' = [taken EXCEPT ![r] = arrived[r]]
        /\ UNCHANGED <<arrived, resets, streamBuffers, entries, handled, abandoned>>
    BY DEF AnswerReceive, buffers, outcome
  <1>4. /\ x \in Inds /\ x.on = r /\ x.kind = "data" /\ x.from = taken[r] /\ x.to = arrived[r]
    <2>1. taken[r] \in Nat /\ arrived[r] \in Nat
      BY <1>1, <1>2 DEF TypeOK
    <2> QED BY <1>2, <2>1, IndsMade DEF Packet
  <1> HIDE DEF x, r
  <1>5. CASE s # r
    <2>1. taken'[s] = taken[s]
      BY <1>1, <1>3, <1>5 DEF TypeOK
    <2> QED BY <1>3, <1>4, <1>5, <2>1, StreamKept
  <1>6. CASE s = r
    <2>1. taken'[s] = arrived[s] /\ arrived[s] \in Nat
      BY <1>1, <1>3, <1>6 DEF TypeOK
    <2>2. Done(s)' = Done(s) /\ Place(s)' = Place(s) /\ Sends(s)' = Sends(s)
      BY <1>3 DEF Done, Place, Sends, FrameEnd
    <2>3. Contiguous(s)'
      BY <1>1, <1>3, <2>1, <2>2 DEF Contiguous, Slice
    <2>4. /\ Len(inds) \in Nat /\ Len(inds') = Len(inds) + 1
          /\ \A i \in 1 .. Len(inds) : inds'[i] = inds[i]
          /\ inds'[Len(inds) + 1] = x
      BY <1>1, <1>3, <1>4, IndsAppend DEF TypeOK
    <2>5. \A i \in 1 .. Len(inds') : DataAt(i)' => i = Len(inds) + 1 /\ inds'[i] = x
      BY <1>2, <2>4 DEF DataAt
    <2>6. s \notin resets => x.from = Place(s)
      BY <1>1, <1>2, <1>4, <1>6 DEF DataContiguous
    <2>7. s \in resets => x.from = x.to
      BY <1>1, <1>4, <1>6 DEF Contiguous
    <2>8. x.from <= x.to /\ x.to <= Sends(s) /\ (s \in abandoned => s \in resets)
      BY <1>1, <1>4, <1>6 DEF Contiguous
    <2>9. \A i \in 1 .. Len(inds') : DataAt(i)' /\ inds'[i].on = s =>
            /\ inds'[i].from <= inds'[i].to /\ inds'[i].to <= Sends(s)
            /\ inds'[i].from = inds'[i].to \/ (s \notin abandoned' /\ inds'[i].from = Place(s)')
            /\ s \notin resets' => inds'[i].from = Place(s)' /\ inds'[i].to = taken'[s]
      BY <1>3, <1>4, <1>6, <2>1, <2>2, <2>5, <2>6, <2>7, <2>8
    <2>10. \E i \in 1 .. Len(inds') : DataAt(i)' /\ inds'[i].on = s
      <3>1. Len(inds) + 1 \in 1 .. Len(inds') /\ inds'[Len(inds) + 1].kind = "data"
            /\ inds'[Len(inds) + 1].on = s
        BY <1>4, <1>6, <2>4
      <3> QED BY <3>1 DEF DataAt
    <2>11. ASSUME NEW i \in 1 .. Len(inds'), inds'[i].kind = "reset", inds'[i].on = s
           PROVE  /\ s \in resets'
                  /\ \A j \in i + 1 .. Len(inds') :
                       DataAt(j)' /\ inds'[j].on = s => inds'[j].from = inds'[j].to
      <3>1. i \in 1 .. Len(inds) /\ inds'[i] = inds[i]
        BY <1>4, <2>4, <2>11
      <3>2. s \in resets
        BY <1>1, <2>11, <3>1 DEF DataContiguous
      <3>3. \A j \in i + 1 .. Len(inds') : j \in 1 .. Len(inds')
        BY <2>4, <3>1
      <3> QED BY <1>3, <2>5, <2>7, <3>2, <3>3
    <2>12. DataContiguous(s)'
      BY <2>2, <2>9, <2>10, <2>11 DEF DataContiguous
    <2> QED BY <2>3, <2>12
  <1> QED BY <1>5, <1>6

\* A packet goes to the buffer of the stream being received.
LEMMA DataArrivedStream ==
  ASSUME ReceptionInv, SocketDataArrived, NEW s \in Streams
  PROVE  Contiguous(s)' /\ DataContiguous(s)'
  <1>1. TypeOK /\ OneReceive /\ Contiguous(s) /\ DataContiguous(s)
    BY DEF ReceptionInv
  <1> DEFINE p == Head(inds)
             r == recvInFlight
  <1>2. /\ inds # <<>> /\ inds' = Tail(inds) /\ p.kind = "data"
        /\ streamBuffers' = [streamBuffers EXCEPT ![r] =
                               streamBuffers[r] \o Slice(p.on, p.from, p.to)]
        /\ entries' = entries \cup {r}
        /\ UNCHANGED <<arrived, taken, resets, handled, abandoned>>
    BY DEF SocketDataArrived, NextInd, quic, outcome
  <1>3. /\ Len(inds) \in Nat \ {0} /\ Len(inds') = Len(inds) - 1 /\ inds[1] \in Inds /\ p = inds[1]
        /\ \A i \in 1 .. Len(inds) - 1 : inds'[i] = inds[i + 1]
    BY <1>1, <1>2, IndsTail DEF TypeOK
  <1>4. 1 \in 1 .. Len(inds) /\ DataAt(1)
    BY <1>2, <1>3 DEF DataAt
  <1>5. /\ p.on = r /\ p.on \in Streams /\ p.from \in Nat /\ p.to \in Nat
    BY <1>1, <1>3, <1>4 DEF OneReceive, Inds
  <1>6. \A i \in 1 .. Len(inds') : ~DataAt(i)'
    <2>1. ASSUME NEW i \in 1 .. Len(inds'), DataAt(i)' PROVE FALSE
      <3>1. i + 1 \in 1 .. Len(inds) /\ DataAt(i + 1) /\ i + 1 # 1
        BY <1>3, <2>1 DEF DataAt
      <3> QED BY <1>1, <1>4, <3>1 DEF OneReceive
    <2> QED BY <2>1
  <1> HIDE DEF p
  <1>7. CASE s # r
    <2>1. streamBuffers'[s] = streamBuffers[s]
      BY <1>1, <1>2, <1>7 DEF TypeOK
    <2>2. Head(inds).on # s
      BY <1>5, <1>7 DEF p
    <2> QED BY <1>2, <2>1, <2>2, StreamKept
  <1>8. CASE s = r
    <2>1. /\ p.from <= p.to /\ p.to <= Sends(s)
          /\ p.from = p.to \/ (s \notin abandoned /\ p.from = Place(s))
          /\ s \notin resets => p.from = Place(s) /\ p.to = taken[s]
      BY <1>1, <1>3, <1>4, <1>5, <1>8 DEF DataContiguous
    <2>2. /\ Done(s) \in Nat /\ Place(s) \in Nat /\ Done(s) <= Place(s)
          /\ streamBuffers[s] \in Seq(Bytes)
      BY <1>1, Places
    <2>3. streamBuffers'[s] = streamBuffers[s] \o Slice(s, p.from, p.to)
      BY <1>1, <1>2, <1>5, <1>8 DEF TypeOK
    <2>4. Done(s)' = Done(s) /\ Sends(s)' = Sends(s)
      BY <1>2 DEF Done, Sends, FrameEnd
    <2>5. p.from = p.to => streamBuffers'[s] = streamBuffers[s]
      <3>1. p.from = p.to => Slice(s, p.from, p.to) = <<>>
        <4>1. \A k \in Nat : Slice(s, k, k) = <<>>
          <5> TAKE k \in Nat
          <5>1. Slice(s, k, k) \in Seq(Bytes) /\ Len(Slice(s, k, k)) = k - k
            BY SliceProperties
          <5> QED BY <5>1, EmptySeq
        <4> QED BY <1>5, <4>1
      <3> QED BY <2>2, <2>3, <3>1, ConcatEmptySeq
    <2>6. s \notin abandoned => streamBuffers[s] = Slice(s, Done(s), Place(s)) /\ Place(s) <= Sends(s)
      BY <1>1 DEF Contiguous
    <2>7. CASE p.from = p.to
      <3>1. Place(s)' = Place(s)
        BY <2>4, <2>5, <2>7 DEF Place
      <3>2. Contiguous(s)'
        BY <1>1, <1>2, <1>8, <2>4, <2>5, <2>7, <3>1 DEF Contiguous, Slice
      <3>3. s \notin resets' => taken'[s] = Place(s)'
        BY <1>2, <2>1, <2>7, <3>1
      <3>4. \A i \in 1 .. Len(inds') : inds'[i].kind = "reset" /\ inds'[i].on = s => s \in resets'
        BY <1>1, <1>2, <1>3 DEF DataContiguous
      <3>5. \A i \in 1 .. Len(inds') : \A j \in i + 1 .. Len(inds') : ~DataAt(j)'
        BY <1>3, <1>6
      <3> QED BY <1>6, <3>2, <3>3, <3>4, <3>5 DEF DataContiguous
    <2>8. CASE p.from # p.to
      <3>1. s \notin abandoned /\ p.from = Place(s)
        BY <2>1, <2>8
      <3>2. streamBuffers'[s] = Slice(s, Done(s), p.to)
        <4>1. /\ Done(s) \in Nat /\ Place(s) \in Nat /\ p.to \in Nat
              /\ Done(s) <= Place(s) /\ Place(s) <= p.to
          BY <1>5, <2>1, <2>2, <3>1
        <4>2. Slice(s, Done(s), Place(s)) \o Slice(s, Place(s), p.to) = Slice(s, Done(s), p.to)
          BY <4>1, SliceConcat
        <4> QED BY <2>3, <2>6, <3>1, <4>2
      <3>3. Len(streamBuffers'[s]) = p.to - Done(s)
        <4>1. Done(s) \in Nat /\ p.to \in Nat /\ Done(s) <= p.to
          BY <1>5, <2>1, <2>2, <3>1
        <4>2. Len(Slice(s, Done(s), p.to)) = p.to - Done(s)
          BY <4>1, SliceProperties
        <4> QED BY <3>2, <4>2
      <3>4. Place(s)' = p.to
        <4>1. Place(s)' = Done(s)' + Len(streamBuffers'[s])
          BY DEF Place
        <4> QED BY <1>5, <2>2, <2>4, <3>3, <4>1
      <3>5. s \notin abandoned' =>
              streamBuffers'[s] = Slice(s, Done(s)', Place(s)') /\ Place(s)' <= Sends(s)'
        BY <2>1, <2>4, <3>2, <3>4
      <3>6. Contiguous(s)'
        BY <1>1, <1>2, <1>8, <2>4, <3>1, <3>5 DEF Contiguous, Slice
      <3>7. s \notin resets' => taken'[s] = Place(s)'
        BY <1>2, <2>1, <3>4
      <3>8. \A i \in 1 .. Len(inds') : inds'[i].kind = "reset" /\ inds'[i].on = s => s \in resets'
        BY <1>1, <1>2, <1>3 DEF DataContiguous
      <3>9. \A i \in 1 .. Len(inds') : \A j \in i + 1 .. Len(inds') : ~DataAt(j)'
        BY <1>3, <1>6
      <3> QED BY <1>6, <3>6, <3>7, <3>8, <3>9 DEF DataContiguous
    <2> QED BY <2>7, <2>8
  <1> QED BY <1>7, <1>8

\* A frame is cut off the buffer.
LEMMA HandleFrameStream ==
  ASSUME ReceptionInv, HandleFrame, NEW s \in Streams
  PROVE  Contiguous(s)' /\ DataContiguous(s)'
  <1>1. TypeOK /\ Contiguous(s) /\ DataContiguous(s)
    BY DEF ReceptionInv
  <1> DEFINE buf == streamBuffers[parsing]
             n   == DeclaredLength(buf[1])
  <1>2. /\ parsing \in Streams /\ Whole(buf)
        /\ handled' = [handled EXCEPT ![parsing] = Append(handled[parsing], SubSeq(buf, 1, n))]
        /\ streamBuffers' = [streamBuffers EXCEPT ![parsing] = Erased(buf, n)]
        /\ UNCHANGED <<arrived, taken, resets, inds, entries, abandoned>>
    BY <1>1 DEF HandleFrame, TypeOK, quic
  <1> HIDE DEF n
  <1>3. CASE s # parsing
    <2>1. streamBuffers'[s] = streamBuffers[s] /\ handled'[s] = handled[s]
      BY <1>1, <1>2, <1>3 DEF TypeOK
    <2> QED BY <1>2, <2>1, StreamKept
  <1>4. CASE s = parsing
    <2> DEFINE h == Len(handled[s])
               b == FrameEnd(s, h + 1)
    <2>1. /\ s \notin abandoned /\ h \in Nat /\ h < Len(Ends[s]) /\ b \in Nat /\ b <= Place(s)
          /\ Erased(buf, n) = Slice(s, b, Place(s))
      BY <1>2, <1>4, NextFrame DEF n
    <2>2. /\ Place(s) \in Nat /\ Len(Ends[s]) \in Nat /\ handled[s] \in Seq(Seq(Bytes))
      BY <1>1, Places DEF TypeOK
    <2>3. streamBuffers'[s] = Slice(s, b, Place(s)) /\ Len(streamBuffers'[s]) = Place(s) - b
      <3>1. streamBuffers'[s] = Slice(s, b, Place(s))
        BY <1>1, <1>2, <1>4, <2>1 DEF TypeOK
      <3> HIDE DEF b
      <3> QED BY <2>1, <2>2, <3>1, SliceProperties
    <2>4. Len(handled'[s]) = h + 1
      <3>1. handled'[s] = Append(handled[s], SubSeq(buf, 1, n))
        BY <1>1, <1>2, <1>4 DEF TypeOK
      <3> QED BY <2>2, <3>1
    <2>5. Done(s)' = b /\ Sends(s)' = Sends(s)
      BY <2>4 DEF Done, Sends, FrameEnd
    <2> HIDE DEF b
    <2>6. Place(s)' = Place(s)
      <3>1. Place(s)' = Done(s)' + Len(streamBuffers'[s])
        BY DEF Place
      <3> QED BY <2>1, <2>2, <2>3, <2>5, <3>1
    <2>7. streamBuffers[s] # <<>> /\ Place(s) <= Sends(s) /\ s \in entries
      BY <1>1, <1>2, <1>4, <2>1 DEF Contiguous, Whole
    <2>8. Len(handled'[s]) <= Len(Ends[s])
      BY <2>1, <2>2, <2>4
    <2>9. streamBuffers'[s] = Slice(s, Done(s)', Place(s)') /\ Place(s)' <= Sends(s)'
      BY <2>3, <2>5, <2>6, <2>7
    <2>10. Contiguous(s)'
      BY <1>1, <1>2, <2>1, <2>5, <2>7, <2>8, <2>9 DEF Contiguous, Slice
    <2>11. DataContiguous(s)'
      BY <1>1, <1>2, <2>6, DataKept
    <2> QED BY <2>10, <2>11
  <1> QED BY <1>3, <1>4

\* A reset is handled.
LEMMA StreamResetStream ==
  ASSUME ReceptionInv, SocketStreamReset, NEW s \in Streams
  PROVE  Contiguous(s)' /\ DataContiguous(s)'
  <1>1. TypeOK /\ Contiguous(s) /\ DataContiguous(s)
    BY DEF ReceptionInv
  <1> DEFINE r == Head(inds).on
  <1>2. /\ inds # <<>> /\ inds' = Tail(inds) /\ Head(inds).kind = "reset"
        /\ abandoned' = abandoned \cup {r}
        /\ \/ r \in entries /\ streamBuffers' = Without(r) /\ entries' = entries \ {r}
           \/ r \notin entries /\ UNCHANGED <<streamBuffers, entries>>
        /\ UNCHANGED <<arrived, taken, resets, handled>>
    BY DEF SocketStreamReset, NextInd, quic, buffers
  <1>3. /\ Len(inds) \in Nat \ {0} /\ Len(inds') = Len(inds) - 1 /\ inds[1] \in Inds
        /\ Head(inds) = inds[1]
        /\ \A i \in 1 .. Len(inds) - 1 : inds'[i] = inds[i + 1]
    BY <1>1, <1>2, IndsTail DEF TypeOK
  <1>4. CASE s # r
    <2>1. streamBuffers'[s] = streamBuffers[s] /\ (s \in entries => s \in entries')
      BY <1>1, <1>2, <1>4 DEF TypeOK, Without
    <2>2. s \in abandoned' <=> s \in abandoned
      BY <1>2, <1>4
    <2> QED BY <1>2, <1>4, <2>1, <2>2, StreamKept
  <1>5. CASE s = r
    <2>1. streamBuffers'[s] = <<>>
      BY <1>1, <1>2, <1>5 DEF Contiguous, TypeOK, Without
    <2>2. /\ s \in resets
          /\ \A j \in 2 .. Len(inds) : DataAt(j) /\ inds[j].on = s => inds[j].from = inds[j].to
      <3>1. 1 \in 1 .. Len(inds) /\ inds[1].kind = "reset" /\ inds[1].on = s /\ 1 + 1 = 2
        BY <1>2, <1>3, <1>5
      <3> QED BY <1>1, <3>1 DEF DataContiguous
    <2>3. Sends(s)' = Sends(s) /\ s \in abandoned'
      BY <1>2, <1>5 DEF Sends, FrameEnd
    <2>4. Contiguous(s)'
      BY <1>1, <1>2, <2>1, <2>2, <2>3 DEF Contiguous
    <2>5. \A i \in 1 .. Len(inds') :
            /\ i + 1 \in 2 .. Len(inds) /\ i + 1 \in 1 .. Len(inds) /\ inds'[i] = inds[i + 1]
            /\ DataAt(i)' <=> DataAt(i + 1)
      BY <1>3 DEF DataAt
    <2>6. \A i \in 1 .. Len(inds') : DataAt(i)' /\ inds'[i].on = s =>
            inds'[i].from = inds'[i].to /\ inds'[i].from <= inds'[i].to /\ inds'[i].to <= Sends(s)
      BY <1>1, <2>2, <2>5 DEF DataContiguous
    <2>7. \A i \in 1 .. Len(inds') : \A j \in i + 1 .. Len(inds') : j \in 1 .. Len(inds')
      BY <1>3
    <2>8. s \in resets'
      BY <1>2, <2>2
    <2>9. DataContiguous(s)'
      BY <2>3, <2>6, <2>7, <2>8 DEF DataContiguous
    <2> QED BY <2>4, <2>9
  <1> QED BY <1>4, <1>5

\* Every step keeps the invariant.
LEMMA InvStep ==
  ASSUME ReceptionInv, [Next]_vars
  PROVE  ReceptionInv'
  <1>1. TypeOK' /\ OneReceive'
    BY TypeStep, OneReceiveStep
  <1>2. ASSUME NEW s \in Streams PROVE Contiguous(s)' /\ DataContiguous(s)'
    <2>1. ASSUME NEW r \in Streams, DataComes(r) PROVE Contiguous(s)' /\ DataContiguous(s)'
      BY <2>1, DataComesStream
    <2>2. ASSUME NEW r \in Streams, ResetComes(r) PROVE Contiguous(s)' /\ DataContiguous(s)'
      BY <2>2, ResetComesStream
    <2>3. CASE AnswerReceive
      BY <2>3, AnswerStream
    <2>4. CASE SocketDataAvailable
      <3>1. /\ inds # <<>> /\ inds' = Tail(inds) /\ Head(inds).kind # "data"
            /\ UNCHANGED <<arrived, taken, resets, streamBuffers, entries, handled, abandoned>>
        BY <2>4 DEF SocketDataAvailable, NextInd, quic, buffers, outcome
      <3> QED BY <3>1, StreamKept
    <2>5. CASE SocketDataArrived
      BY <2>5, DataArrivedStream
    <2>6. CASE HandleFrame
      BY <2>6, HandleFrameStream
    <2>7. CASE ParseDone
      <3>1. UNCHANGED <<arrived, taken, resets, inds, streamBuffers, entries, handled, abandoned>>
        BY <2>7 DEF ParseDone, quic, buffers, outcome
      <3> QED BY <3>1, StreamKept
    <2>8. CASE SocketStreamReset
      BY <2>8, StreamResetStream
    <2>9. CASE UNCHANGED vars
      <3>1. UNCHANGED <<arrived, taken, resets, inds, streamBuffers, entries, handled, abandoned>>
        BY <2>9 DEF vars, quic, buffers, outcome
      <3> QED BY <3>1, StreamKept
    <2> QED BY <2>1, <2>2, <2>3, <2>4, <2>5, <2>6, <2>7, <2>8, <2>9 DEF Next, Application
  <1> QED BY <1>1, <1>2 DEF ReceptionInv

-----------------------------------------------------------------------------
(* Announcements.                                                          *)

\* An announcement of s that counts on: the packets of s, if any, come before it.
Announced(s) ==
  \E i \in 1 .. Len(inds) :
    /\ inds[i] = Notice(s)
    /\ \A j \in 1 .. Len(inds) : DataAt(j) /\ inds[j].on = s => j < i

\* An announcement counts on when something joins the queue that is not a packet of its
\* stream, and when another indication leaves it.
LEMMA AnnouncedKept ==
  ASSUME TypeOK, NEW s \in Streams, Announced(s),
         \/ inds' = inds
         \/ \E x \in Inds : (x.kind # "data" \/ x.on # s) /\ inds' = Append(inds, x)
         \/ inds # <<>> /\ inds' = Tail(inds) /\ Head(inds) # Notice(s)
  PROVE  Announced(s)'
  <1>1. PICK i \in 1 .. Len(inds) :
          /\ inds[i] = Notice(s)
          /\ \A j \in 1 .. Len(inds) : DataAt(j) /\ inds[j].on = s => j < i
    BY DEF Announced
  <1>2. CASE inds' = inds
    BY <1>1, <1>2 DEF Announced, DataAt, Notice
  <1>3. CASE \E x \in Inds : (x.kind # "data" \/ x.on # s) /\ inds' = Append(inds, x)
    <2>1. PICK x \in Inds : (x.kind # "data" \/ x.on # s) /\ inds' = Append(inds, x)
      BY <1>3
    <2>2. /\ Len(inds) \in Nat /\ Len(inds') = Len(inds) + 1
          /\ \A j \in 1 .. Len(inds) : inds'[j] = inds[j]
          /\ inds'[Len(inds) + 1] = x
      BY <2>1, IndsAppend DEF TypeOK
    <2>3. \A j \in 1 .. Len(inds') : DataAt(j)' /\ inds'[j].on = s => j < i
      <3> TAKE j \in 1 .. Len(inds')
      <3> HAVE DataAt(j)' /\ inds'[j].on = s
      <3>1. j \in 1 .. Len(inds)
        BY <2>1, <2>2 DEF DataAt
      <3> QED BY <1>1, <2>2, <3>1 DEF DataAt
    <2>4. i \in 1 .. Len(inds') /\ inds'[i] = Notice(s)
      BY <1>1, <2>2
    <2> QED BY <2>3, <2>4 DEF Announced, Notice
  <1>4. CASE inds # <<>> /\ inds' = Tail(inds) /\ Head(inds) # Notice(s)
    <2>1. /\ Len(inds) \in Nat \ {0} /\ Len(inds') = Len(inds) - 1 /\ Head(inds) = inds[1]
          /\ \A j \in 1 .. Len(inds) - 1 : inds'[j] = inds[j + 1]
      BY <1>4, IndsTail DEF TypeOK
    <2>2. i # 1
      BY <1>1, <1>4, <2>1
    <2>3. i - 1 \in 1 .. Len(inds') /\ inds'[i - 1] = Notice(s)
      <3>1. i - 1 \in 1 .. Len(inds) - 1 /\ (i - 1) + 1 = i
        BY <2>1, <2>2
      <3> QED BY <1>1, <2>1, <3>1
    <2>4. \A j \in 1 .. Len(inds') : DataAt(j)' /\ inds'[j].on = s => j < i - 1
      <3> TAKE j \in 1 .. Len(inds')
      <3> HAVE DataAt(j)' /\ inds'[j].on = s
      <3>1. j + 1 \in 1 .. Len(inds) /\ DataAt(j + 1) /\ inds[j + 1].on = s
        BY <2>1 DEF DataAt
      <3>2. j + 1 < i
        BY <1>1, <3>1
      <3> QED BY <2>1, <3>2
    <2> QED BY <2>3, <2>4 DEF Announced, Notice
  <1> QED BY <1>2, <1>3, <1>4

\* Every step keeps the wakeups.
LEMMA WakeupStep ==
  ASSUME ReceptionInv, [Next]_vars, NEW s \in Streams, Wakeup(s)
  PROVE  Wakeup(s)'
  <1>t. TypeOK /\ OneReceive /\ Contiguous(s) /\ DataContiguous(s)
    BY DEF ReceptionInv
  <1> DEFINE Requested == \E i \in 1 .. Len(requests) : requests[i] = s
  <1>w. Held(s) > 0 => s \in recvPending \/ Requested \/ Announced(s)
    BY DEF Wakeup, Announced
  <1> SUFFICES Held(s)' > 0 => s \in recvPending' \/ Requested' \/ Announced(s)'
    BY DEF Wakeup, Announced
  <1>n. arrived[s] \in Nat /\ taken[s] \in Nat
    BY <1>t DEF TypeOK
  <1>1. ASSUME NEW r \in Streams, DataComes(r)
        PROVE  Held(s)' > 0 => s \in recvPending' \/ Requested' \/ Announced(s)'
    <2>1. /\ inds' = Append(inds, Notice(r)) \/ (Held(r) > 0 /\ inds' = inds)
          /\ UNCHANGED <<taken, requests, recvPending>>
          /\ s # r => arrived'[s] = arrived[s]
      BY <1>t, <1>1 DEF DataComes, serial, TypeOK
    <2>2. Notice(r) \in Inds /\ Notice(r).kind # "data"
      BY IndsMade DEF Notice
    <2>3. Announced(s) => Announced(s)'
      BY <1>t, <2>1, <2>2, AnnouncedKept
    <2>4. CASE Held(s) > 0
      BY <1>w, <2>1, <2>3, <2>4
    <2>5. CASE ~(Held(s) > 0) /\ s # r
      BY <2>1, <2>5 DEF Held
    <2>6. CASE ~(Held(s) > 0) /\ s = r
      <3>1. inds' = Append(inds, Notice(s))
        BY <2>1, <2>6
      <3>2. /\ Len(inds) \in Nat /\ Len(inds') = Len(inds) + 1
            /\ \A j \in 1 .. Len(inds) : inds'[j] = inds[j]
            /\ inds'[Len(inds) + 1] = Notice(s)
        BY <1>t, <2>2, <2>6, <3>1, IndsAppend DEF TypeOK
      <3>3. \A j \in 1 .. Len(inds') : DataAt(j)' => j < Len(inds) + 1
        BY <2>2, <2>6, <3>2 DEF DataAt
      <3>4. Len(inds) + 1 \in 1 .. Len(inds')
        BY <3>2
      <3>5. PICK i \in 1 .. Len(inds') : i = Len(inds) + 1
        BY <3>4
      <3>6. /\ inds'[i] = Notice(s)
            /\ \A j \in 1 .. Len(inds') : DataAt(j)' /\ inds'[j].on = s => j < i
        BY <3>2, <3>3, <3>5
      <3> QED BY <3>6 DEF Announced, Notice
    <2> QED BY <2>4, <2>5, <2>6
  <1>2. ASSUME NEW r \in Streams, ResetComes(r)
        PROVE  Held(s)' > 0 => s \in recvPending' \/ Requested' \/ Announced(s)'
    <2>1. /\ inds' = Append(inds, Reset(r)) /\ UNCHANGED <<arrived, requests, recvPending>>
          /\ s # r => taken'[s] = taken[s]
          /\ s = r => taken'[s] = arrived[s]
      BY <1>t, <1>2 DEF ResetComes, serial, TypeOK
    <2>2. Reset(r) \in Inds /\ Reset(r).kind # "data"
      BY IndsMade DEF Reset
    <2>3. Announced(s) => Announced(s)'
      BY <1>t, <2>1, <2>2, AnnouncedKept
    <2>4. Held(s)' > 0 => Held(s) > 0
      BY <1>n, <2>1 DEF Held
    <2> QED BY <1>w, <2>1, <2>3, <2>4
  <1>3. CASE AnswerReceive
    <2> DEFINE r == Head(requests)
               x == Packet(r, taken[r], arrived[r])
    <2>1. requests = <<recvInFlight>>
      BY <1>t, <1>3 DEF AnswerReceive, OneReceive
    <2>2. r = recvInFlight /\ r \in Streams
      BY <1>t, <2>1 DEF TypeOK
    <2>3. /\ inds' = Append(inds, x) /\ UNCHANGED <<arrived, recvPending>>
          /\ taken' = [taken EXCEPT ![r] = arrived[r]]
      BY <1>3 DEF AnswerReceive
    <2>4. x \in Inds /\ x.on = r
      <3>1. taken[r] \in Nat /\ arrived[r] \in Nat
        BY <1>t, <2>2 DEF TypeOK
      <3> QED BY <2>2, <3>1, IndsMade DEF Packet
    <2> HIDE DEF x, r
    <2>5. CASE s = r
      <3>1. taken'[s] = arrived[s] /\ arrived'[s] = arrived[s]
        BY <1>t, <2>3, <2>5 DEF TypeOK
      <3> QED BY <1>n, <3>1 DEF Held
    <2>6. CASE s # r
      <3>1. Held(s)' = Held(s)
        BY <1>t, <2>3, <2>6 DEF TypeOK, Held
      <3>2. ~Requested
        BY <2>1, <2>2, <2>6
      <3>3. Announced(s) => Announced(s)'
        BY <1>t, <2>3, <2>4, <2>6, AnnouncedKept
      <3> QED BY <1>w, <2>3, <3>1, <3>2, <3>3
    <2> QED BY <2>5, <2>6
  <1>4. CASE SocketDataAvailable
    <2>1. /\ inds # <<>> /\ inds' = Tail(inds) /\ Head(inds).kind = "available"
          /\ UNCHANGED <<arrived, taken>>
      BY <1>4 DEF SocketDataAvailable, NextInd, quic
    <2> DEFINE r == Head(inds).on
    <2>2. /\ Len(inds) \in Nat \ {0} /\ Len(inds') = Len(inds) - 1 /\ inds[1] \in Inds
          /\ Head(inds) = inds[1]
          /\ \A j \in 1 .. Len(inds) - 1 : inds'[j] = inds[j + 1]
      BY <1>t, <2>1, IndsTail DEF TypeOK
    <2>3. r \in Streams
      BY <2>2 DEF Inds
    <2>4. Held(s)' = Held(s)
      BY <2>1 DEF Held
    <2>5. Head(inds) # Notice(s) => (Announced(s) => Announced(s)')
      BY <1>t, <2>1, AnnouncedKept
    <2>6. Head(inds) = Notice(s) => r = s
      BY DEF Notice
    <2> HIDE DEF r
    <2>7. CASE Covered(r) /\ UNCHANGED serial
      <3>1. UNCHANGED <<requests, recvPending>>
        BY <2>7 DEF serial
      <3>2. CASE r # s
        BY <1>w, <2>4, <2>5, <2>6, <3>1, <3>2
      <3>3. CASE r = s /\ requests # <<>>
        <4>1. requests = <<s>>
          BY <1>t, <2>7, <3>3 DEF OneReceive, Covered
        <4>2. 1 \in 1 .. Len(requests) /\ requests[1] = s
          BY <4>1
        <4> QED BY <3>1, <4>2
      <3>4. CASE r = s /\ requests = <<>>
        <4>1. recvInFlight = s /\ recvInFlight # NoStream
          BY <2>3, <2>7, <3>4, ReceptionAssumption DEF Covered, NoStream
        <4>2. PICK d \in 1 .. Len(inds) : DataAt(d) /\ inds[d].on = s
          BY <1>t, <3>4, <4>1 DEF OneReceive
        <4>3. d # 1
          BY <2>1, <2>2, <4>2 DEF DataAt
        <4>4. Head(inds) = Notice(s) => ~(\A j \in 1 .. Len(inds) : DataAt(j) /\ inds[j].on = s => j < 1)
          BY <2>2, <4>2
        <4>5. Announced(s) => Announced(s)'
          <5>1. SUFFICES ASSUME Announced(s) PROVE Announced(s)'
            OBVIOUS
          <5>2. PICK i \in 1 .. Len(inds) :
                  /\ inds[i] = Notice(s)
                  /\ \A j \in 1 .. Len(inds) : DataAt(j) /\ inds[j].on = s => j < i
            BY <5>1 DEF Announced
          <5>3. d < i
            BY <4>2, <5>2
          <5>4. i - 1 \in 1 .. Len(inds') /\ inds'[i - 1] = Notice(s)
            <6>1. i - 1 \in 1 .. Len(inds) - 1 /\ (i - 1) + 1 = i
              BY <2>2, <5>3
            <6> QED BY <2>2, <5>2, <6>1
          <5>5. \A j \in 1 .. Len(inds') : DataAt(j)' /\ inds'[j].on = s => j < i - 1
            <6> TAKE j \in 1 .. Len(inds')
            <6> HAVE DataAt(j)' /\ inds'[j].on = s
            <6>1. j + 1 \in 1 .. Len(inds) /\ DataAt(j + 1) /\ inds[j + 1].on = s
              BY <2>2 DEF DataAt
            <6>2. j + 1 < i
              BY <5>2, <6>1
            <6> QED BY <2>2, <6>2
          <5> QED BY <5>4, <5>5 DEF Announced, Notice
        <4> QED BY <1>w, <2>4, <3>1, <4>5
      <3> QED BY <3>2, <3>3, <3>4
    <2>8. CASE recvInFlight = NoStream /\ StartNextRecv(recvPending \cup {r})
      <3>1. requests = <<>> /\ requests \in Seq(Streams) /\ recvPending \cup {r} \in SUBSET Streams
        BY <1>t, <2>3, <2>8, Idle DEF TypeOK
      <3>2. /\ recvInFlight' \in recvPending \cup {r}
            /\ recvPending' = (recvPending \cup {r}) \ {recvInFlight'}
            /\ requests' = Append(requests, recvInFlight')
        BY <2>8, <3>1, StartNext
      <3>3. Len(requests') = 1 /\ requests'[1] = recvInFlight'
        BY <3>1, <3>2
      <3>4. s \in recvPending \cup {r} => s \in recvPending' \/ Requested'
        BY <3>2, <3>3
      <3>5. ~Requested
        BY <3>1
      <3> QED BY <1>w, <2>4, <2>5, <2>6, <3>4, <3>5
    <2>9. CASE recvPending' = recvPending \cup {r} /\ UNCHANGED <<requests, recvInFlight>>
      BY <1>w, <2>4, <2>5, <2>6, <2>9
    <2> QED BY <1>4, <2>7, <2>8, <2>9 DEF SocketDataAvailable, MayReceive, r
  <1>5. CASE SocketDataArrived
    <2>1. /\ inds # <<>> /\ inds' = Tail(inds) /\ Head(inds).kind = "data"
          /\ UNCHANGED <<arrived, taken, requests, recvPending>>
      BY <1>5 DEF SocketDataArrived, NextInd, quic
    <2>2. Head(inds) # Notice(s)
      BY <2>1 DEF Notice
    <2>3. Announced(s) => Announced(s)'
      BY <1>t, <2>1, <2>2, AnnouncedKept
    <2> QED BY <1>w, <2>1, <2>3 DEF Held
  <1>6. CASE HandleFrame
    <2>1. UNCHANGED <<arrived, taken, requests, recvPending, inds>>
      BY <1>6 DEF HandleFrame, quic, serial
    <2>2. Announced(s) => Announced(s)'
      BY <1>t, <2>1, AnnouncedKept
    <2> QED BY <1>w, <2>1, <2>2 DEF Held
  <1>7. CASE ParseDone
    <2>1. UNCHANGED <<arrived, taken, inds>> /\ parsing # NoStream /\ StartNextRecv(recvPending)
      BY <1>7 DEF ParseDone, quic
    <2>2. Announced(s) => Announced(s)'
      BY <1>t, <2>1, AnnouncedKept
    <2>3. recvInFlight = NoStream
      BY <1>t, <2>1 DEF OneReceive
    <2>4. requests = <<>> /\ requests \in Seq(Streams) /\ recvPending \in SUBSET Streams
      BY <1>t, <2>3, Idle DEF TypeOK
    <2>5. ~Requested
      BY <2>4
    <2>6. s \in recvPending => s \in recvPending' \/ Requested'
      <3>1. SUFFICES ASSUME s \in recvPending PROVE s \in recvPending' \/ Requested'
        OBVIOUS
      <3>2. /\ recvPending' = recvPending \ {recvInFlight'}
            /\ requests' = Append(requests, recvInFlight')
        BY <2>1, <2>4, <3>1, StartNext
      <3>3. Len(requests') = 1 /\ requests'[1] = recvInFlight'
        BY <2>4, <3>2
      <3> QED BY <3>1, <3>2, <3>3
    <2> QED BY <1>w, <2>1, <2>2, <2>5, <2>6 DEF Held
  <1>8. CASE SocketStreamReset
    <2>1. /\ inds # <<>> /\ inds' = Tail(inds) /\ Head(inds).kind = "reset"
          /\ UNCHANGED <<arrived, taken, requests, recvPending>>
      BY <1>8 DEF SocketStreamReset, NextInd, quic, serial
    <2>2. Head(inds) # Notice(s)
      BY <2>1 DEF Notice
    <2>3. Announced(s) => Announced(s)'
      BY <1>t, <2>1, <2>2, AnnouncedKept
    <2> QED BY <1>w, <2>1, <2>3 DEF Held
  <1>9. CASE UNCHANGED vars
    <2>1. UNCHANGED <<arrived, taken, requests, recvPending, inds>>
      BY <1>9 DEF vars, quic, serial
    <2>2. Announced(s) => Announced(s)'
      BY <1>t, <2>1, AnnouncedKept
    <2> QED BY <1>w, <2>1, <2>2 DEF Held
  <1> QED BY <1>1, <1>2, <1>3, <1>4, <1>5, <1>6, <1>7, <1>8, <1>9 DEF Next, Application

-----------------------------------------------------------------------------
(* The theorems.                                                           *)

LEMMA Always == Spec => [](ReceptionInv /\ \A s \in Streams : Wakeup(s))
  <1>1. /\ ReceptionInv /\ \A s \in Streams : Wakeup(s)
        /\ [Next]_vars
        => (ReceptionInv /\ \A s \in Streams : Wakeup(s))'
    BY InvStep, WakeupStep
  <1> QED BY InitInv, <1>1, PTL DEF Spec

\* Every state of the reception has the types its variables are given, for every set of
\* streams and every length of frame.
THEOREM TypeCorrect == Spec => []TypeOK
  <1>1. ReceptionInv => TypeOK
    BY DEF ReceptionInv
  <1> QED BY Always, <1>1, PTL

\* The packet that names no stream is always for the stream recvInFlight names, whatever
\* is announced or reset meanwhile (socketDataArrived).
THEOREM RightStreamAlways == Spec => []RightStream
  <1>1. ReceptionInv => RightStream
    BY DEF ReceptionInv, OneReceive, RightStream, DataAt
  <1> QED BY Always, <1>1, PTL

\* socketDataAvailable never forgets data: a stream QUIC holds bytes of is still to be
\* announced, is pending, or has a receive on its way.
THEOREM WakeupNeverLost == Spec => []NoLostWakeup
  <1>1. (\A s \in Streams : Wakeup(s)) => NoLostWakeup
    BY DEF Wakeup, NoLostWakeup
  <1> QED BY Always, <1>1, PTL

\* Of a stream whose reset the application has handled no byte is ever buffered again, even
\* when a receive was outstanding on it (socketStreamReset).
THEOREM NothingComesBack == Spec => []NothingAfterReset
  <1>1. ReceptionInv => NothingAfterReset
    <2> SUFFICES ASSUME ReceptionInv, NEW s \in abandoned PROVE streamBuffers[s] = <<>>
      BY DEF NothingAfterReset
    <2>1. s \in Streams
      BY DEF ReceptionInv, TypeOK
    <2> QED BY <2>1 DEF ReceptionInv, Contiguous
  <1> QED BY Always, <1>1, PTL

\* The reception implements FrameStreams: whatever the packets' sizes and the order of the
\* indications, the frames of a stream are handled whole, in order, once each, until its
\* reset (tryParse, tryParseControl, socketStreamReset).
THEOREM InOrderAlways == Spec => InOrder
  <1>1. Init => Promise!Init
    BY DEF Init, Promise!Init
  <1>2. ReceptionInv /\ [Next]_vars => [Promise!Next]_<<handled, abandoned>>
    <2> SUFFICES ASSUME ReceptionInv, [Next]_vars
                 PROVE  [Promise!Next]_<<handled, abandoned>>
      OBVIOUS
    <2>1. CASE HandleFrame
      <3> DEFINE buf == streamBuffers[parsing]
                 n   == DeclaredLength(buf[1])
                 h   == Len(handled[parsing])
      <3>1. /\ parsing \in Streams /\ Whole(buf) /\ handled \in [Streams -> Seq(Seq(Bytes))]
            /\ handled' = [handled EXCEPT ![parsing] = Append(handled[parsing], SubSeq(buf, 1, n))]
            /\ abandoned' = abandoned
        BY <2>1 DEF HandleFrame, ReceptionInv, TypeOK
      <3>2. /\ parsing \notin abandoned /\ h \in Nat /\ h < Len(Ends[parsing])
            /\ SubSeq(buf, 1, n) = Frame(parsing, h + 1)
        BY <3>1, NextFrame
      <3>3. Len(Ends[parsing]) \in Nat
        BY <3>1, FrameEnds
      <3>4. /\ Len(Frames[parsing]) = Len(Ends[parsing])
            /\ Frames[parsing][h + 1] = Frame(parsing, h + 1)
        <4>1. Frames[parsing] = [k \in 1 .. Len(Ends[parsing]) |-> Frame(parsing, k)]
          BY <3>1 DEF Frames
        <4>2. h + 1 \in 1 .. Len(Ends[parsing])
          BY <3>2, <3>3
        <4> HIDE DEF h
        <4> QED BY <3>3, <4>1, <4>2
      <3>5. Promise!HandleNext(parsing)
        BY <3>1, <3>2, <3>4 DEF Promise!HandleNext
      <3> QED BY <3>1, <3>5 DEF Promise!Next
    <2>2. CASE SocketStreamReset
      <3>1. handled' = handled /\ abandoned' = abandoned \cup {Head(inds).on}
        BY <2>2 DEF SocketStreamReset
      <3>2. Head(inds).on \in Streams
        BY <2>2, IndsTail DEF SocketStreamReset, NextInd, ReceptionInv, TypeOK, Inds
      <3> QED BY <3>1, <3>2 DEF Promise!Next, Promise!Abandon
    <2>3. CASE \/ \E s \in Streams : DataComes(s) \/ ResetComes(s)
               \/ AnswerReceive \/ SocketDataAvailable \/ SocketDataArrived \/ ParseDone
      BY <2>3 DEF DataComes, ResetComes, AnswerReceive, SocketDataAvailable,
                  SocketDataArrived, ParseDone, outcome
    <2>4. CASE UNCHANGED vars
      BY <2>4 DEF vars, outcome
    <2> QED BY <2>1, <2>2, <2>3, <2>4 DEF Next, Application
  <1>3. Spec => []ReceptionInv
    BY Always, PTL
  <1> QED BY <1>1, <1>2, <1>3, PTL DEF Spec, InOrder, Promise!Spec

=============================================================================
