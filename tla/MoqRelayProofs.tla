--------------------------- MODULE MoqRelayProofs ---------------------------
(* Theorems about MoqRelay, for every set of subscribers and tracks and     *)
(* every limit: its types, its ledger, the pacing of each connection, that  *)
(* QUIC refuses no slice, and what a subscriber may rely on of its streams: *)
(* no torn frame, no gap inside an object, nothing after PUBLISH_DONE.      *)
(*                                                                          *)
(* The invariants below are proved in their order, each with the help of    *)
(* those before it; each section ends in the theorems it was for.           *)
EXTENDS MoqRelay, FiniteSetTheorems, FunctionTheorems, SequenceTheorems, TLAPS

-----------------------------------------------------------------------------
(* The inductive invariants.                                               *)

\* The queues and what is kept of the streams: all that QueuesOK says but for the
\* count of the queued objects, which is a number only because it counts them.
BufferShape ==
  /\ buffer \subseteq Items
  /\ \A p \in buffer : p.sentOffset < ObjectBytes[p.track]
  /\ IsFiniteSet(buffer)
StreamShape ==
  /\ outstanding \subseteq OutstandingFwd
  /\ downstreamStreams \subseteq DownSubgroups
  /\ resetDownstream \in [DownSubgroups -> {"none", "TIMEOUT", "OVERFLOW"}]
  /\ wire \in [DownSubgroups -> [obj : Int, off : Nat]]

\* The loop starts at the first place, and ends no track but of a subscriber that is
\* then flushed.
LoopShape ==
  /\ LoopsOK
  /\ fwd.i # 0
  /\ pc = "end" => at \in Subscribers

\* Everything TypeOK says but for that count.
ShapeInv ==
  ControlOK /\ BufferShape /\ StreamShape /\ CountersOK /\ LoopShape /\ TransportOK

Distinct(v) == \A i, j \in DOMAIN v : v[i] = v[j] => i = j

\* An object is being forwarded: to the subscribers at places the loop has not
\* reached yet.
Looping == pc \in {"forward", "end", "flushForward"}
FwdSubgroup == <<fwd.track, fwd.group>>
Places  == LET v == subscriberByTrack[fwd.track]
           IN  {j \in DOMAIN v : j > fwd.i \/ (j = fwd.i /\ pc = "forward")}
Waiting == {subscriberByTrack[fwd.track][j] : j \in Places}

\* A subscriber is registered for a track once at most, and only what is for a
\* registered subscriber with a socket is queued.
RegisteredInv ==
  /\ \A t \in Tracks : /\ Distinct(subscriberByTrack[t])
                       /\ \A s \in Range(subscriberByTrack[t]) : <<s, t>> \in subscribed
  /\ \A p \in buffer : p.sub \in subscriberSockets /\ p.sub \in Range(subscriberByTrack[p.track])

\* A queue is in the order of arrival, which within a subgroup is that of the
\* objects; and the object being forwarded is newer than all a waiting subscriber has.
OrderInv ==
  /\ \A p \in buffer : p.pos < arrived /\ p.obj < received[Subgroup(p)]
  /\ \A p, q \in buffer : p.sub = q.sub /\ p.pos = q.pos => p = q
  /\ \A p, q \in buffer : Down(p) = Down(q) /\ p.pos < q.pos => p.obj < q.obj
  /\ Looping =>
       /\ arrived = fwd.pos + 1 /\ received[FwdSubgroup] = fwd.obj + 1
       /\ \A s \in Waiting : \A p \in Queue(s) :
            p.pos < fwd.pos /\ (Subgroup(p) = FwdSubgroup => p.obj < fwd.obj)

\* A stream that was not reset carries what its queue has not begun up to what its
\* queue has begun.
WireInv ==
  /\ \A d \in DownSubgroups : wire[d].obj < received[d[2]]
  /\ Looping => \A s \in Waiting : wire[<<s, FwdSubgroup>>].obj < fwd.obj
  /\ \A p \in buffer : resetDownstream[Down(p)] = "none" =>
       IF p.sentOffset = 0 THEN wire[Down(p)].obj < p.obj
       ELSE wire[Down(p)] = [obj |-> p.obj, off |-> p.sentOffset]

PacingInv ==
  \A s \in Subscribers :
    Quic!Paced(conn[s], quicBytesThisEvent[s], SendQueueLimit + ChunkBytes)

AdmissionInv ==
  /\ \A s \in Subscribers :
       /\ Quic!Admits(conn[s])
       /\ Quic!Signals(conn[s], quicBytesThisEvent[s])
       /\ Quic!Blocks(conn[s], blocked[s])
       /\ "data" \notin conn[s].rejected
       /\ Looping => conn[s].inds = <<>>
  /\ pc = "flush" /\ ~blocked[at] /\ ~conn[at].accept =>
       SendQueueLimit < LowWaterMark + quicBytesThisEvent[at]

-----------------------------------------------------------------------------
(* A vector some subscribers are erased from.                              *)

\* One element of the recursion of Erased, when g holds the elements before it.
Kept(v, X, i, g) ==
  IF i = 0 THEN <<>> ELSE IF v[i] \in X THEN g[i - 1] ELSE Append(g[i - 1], v[i])

\* The recursion has a solution, by induction over its length.
LEMMA KeptExists ==
  ASSUME NEW S, NEW v \in Seq(S), NEW X, NEW m \in Nat
  PROVE  \E g : g = [i \in 0 .. m |-> Kept(v, X, i, g)]
  <1> DEFINE OK(n) == \E g : g = [i \in 0 .. n |-> Kept(v, X, i, g)]
             Good  == {n \in Nat : OK(n)}
  <1>1. OK(0)
    <2> DEFINE g == [i \in 0 .. 0 |-> <<>>]
    <2>1. g = [i \in 0 .. 0 |-> Kept(v, X, i, g)]
      BY DEF Kept
    <2> QED BY <2>1
  <1>2. ASSUME NEW n \in Nat, OK(n) PROVE OK(n + 1)
    <2>1. PICK g : g = [i \in 0 .. n |-> Kept(v, X, i, g)]
      BY <1>2
    <2> DEFINE h == [i \in 0 .. n + 1 |-> Kept(v, X, i, g)]
    <2>2. ASSUME NEW i \in 0 .. n + 1 PROVE Kept(v, X, i, g) = Kept(v, X, i, h)
      <3>1. CASE i = 0
        BY <3>1 DEF Kept
      <3>2. CASE i # 0
        <4>1. i - 1 \in 0 .. n /\ i - 1 \in 0 .. n + 1
          BY <3>2
        <4>2. h[i - 1] = Kept(v, X, i - 1, g) /\ g[i - 1] = Kept(v, X, i - 1, g)
          BY <2>1, <4>1
        <4> HIDE DEF h
        <4> QED BY <4>2 DEF Kept
      <3> QED BY <3>1, <3>2
    <2>3. h = [i \in 0 .. n + 1 |-> Kept(v, X, i, h)]
      BY <2>2
    <2> QED BY <2>3
  <1>3. \A n \in Nat : n \in Good
    <2>1. \A n \in Nat : n \in Good <=> OK(n)
      OBVIOUS
    <2> HIDE DEF Good, OK
    <2> QED BY <1>1, <1>2, <2>1, Quic!NatInductionOn
  <1> QED BY <1>3

\* Erased is the last element of that solution.
LEMMA ErasedUnfold ==
  ASSUME NEW S, NEW v \in Seq(S), NEW X
  PROVE  \E g : /\ g = [i \in 0 .. Len(v) |-> Kept(v, X, i, g)]
                /\ Erased(v, X) = g[Len(v)]
  <1> DEFINE g == CHOOSE h : h = [i \in 0 .. Len(v) |-> Kept(v, X, i, h)]
  <1>1. g = [i \in 0 .. Len(v) |-> Kept(v, X, i, g)]
    BY KeptExists, LenProperties
  <1>2. Erased(v, X) = g[Len(v)]
    BY DEF Erased, Kept
  <1> QED BY <1>1, <1>2

\* What is left are the elements outside X, in their order: none moves to a later
\* place, and none is there twice that was not before.
LEMMA ErasedFacts ==
  ASSUME NEW S, NEW v \in Seq(S), NEW X
  PROVE  LET w == Erased(v, X) IN
         /\ w \in Seq(S)
         /\ Range(w) = Range(v) \ X
         /\ \A j \in DOMAIN w : \E k \in DOMAIN v : j <= k /\ w[j] = v[k]
         /\ Distinct(v) => Distinct(w)
  <1>1. PICK g : /\ g = [i \in 0 .. Len(v) |-> Kept(v, X, i, g)]
                 /\ Erased(v, X) = g[Len(v)]
    BY ErasedUnfold
  <1> DEFINE OK(i) == /\ g[i] \in Seq(S) /\ Len(g[i]) <= i
                      /\ \A k \in 1 .. i : v[k] \notin X => v[k] \in Range(g[i])
                      /\ \A s \in Range(g[i]) : s \notin X
                      /\ \A j \in 1 .. Len(g[i]) : \E k \in 1 .. i : j <= k /\ g[i][j] = v[k]
                      /\ Distinct(v) => Distinct(g[i])
             Good  == {i \in Nat : i <= Len(v) => OK(i)}
  <1>2. Len(v) \in Nat /\ DOMAIN v = 1 .. Len(v) /\ \A k \in 1 .. Len(v) : v[k] \in S
    BY LenProperties
  <1>3. OK(0)
    <2>1. g[0] = <<>>
      BY <1>1, <1>2 DEF Kept
    <2>2. <<>> \in Seq(S) /\ Len(<<>>) = 0 /\ DOMAIN <<>> = {}
      OBVIOUS
    <2> QED BY <2>1, <2>2 DEF Range, Distinct
  <1>4. ASSUME NEW n \in Nat, n + 1 <= Len(v), OK(n) PROVE OK(n + 1)
    <2>1. g[n + 1] = IF v[n + 1] \in X THEN g[n] ELSE Append(g[n], v[n + 1])
      <3>1. n + 1 \in 0 .. Len(v) /\ n + 1 # 0 /\ (n + 1) - 1 = n
        BY <1>2, <1>4
      <3>2. g[n + 1] = Kept(v, X, n + 1, g)
        BY <1>1, <3>1
      <3> QED BY <3>1, <3>2 DEF Kept
    <2>2. n + 1 \in 1 .. Len(v) /\ v[n + 1] \in S
      BY <1>2, <1>4
    <2>3. CASE v[n + 1] \in X
      <3>1. g[n + 1] = g[n]
        BY <2>1, <2>3
      <3>2. g[n] \in Seq(S) /\ Len(g[n]) <= n + 1
        BY <1>4, LenProperties
      <3>3. \A k \in 1 .. n + 1 : k \in 1 .. n \/ k = n + 1
        OBVIOUS
      <3>4. \A k \in 1 .. n + 1 : v[k] \notin X => v[k] \in Range(g[n])
        BY <1>4, <2>3, <3>3
      <3>5. \A j \in 1 .. Len(g[n]) : \E k \in 1 .. n + 1 : j <= k /\ g[n][j] = v[k]
        <4> TAKE j \in 1 .. Len(g[n])
        <4>1. PICK k \in 1 .. n : j <= k /\ g[n][j] = v[k]
          BY <1>4
        <4>2. k \in 1 .. n + 1
          OBVIOUS
        <4> QED BY <4>1, <4>2
      <3> QED BY <1>4, <3>1, <3>2, <3>4, <3>5
    <2>4. CASE v[n + 1] \notin X
      <3> DEFINE q == g[n]
                 e == v[n + 1]
                 r == g[n + 1]
      <3>0. q \in Seq(S) /\ e \in S /\ Len(q) \in Nat /\ DOMAIN q = 1 .. Len(q) /\ Len(q) <= n
        BY <1>4, <2>2, LenProperties
      <3>1. r = Append(q, e)
        BY <2>1, <2>4
      <3>2. /\ r \in Seq(S) /\ Len(r) = Len(q) + 1 /\ DOMAIN r = 1 .. Len(q) + 1
            /\ \A j \in 1 .. Len(q) : r[j] = q[j]
            /\ r[Len(q) + 1] = e
        <4> HIDE DEF q, e, r
        <4> QED BY <3>0, <3>1, AppendProperties, LenProperties
      <3>3. OK(n)
        BY <1>4
      <3>4. /\ \A k \in 1 .. n : v[k] \notin X => v[k] \in Range(q)
            /\ \A s \in Range(q) : s \notin X
            /\ \A j \in 1 .. Len(q) : \E k \in 1 .. n : j <= k /\ q[j] = v[k]
            /\ Distinct(v) => Distinct(q)
        BY <3>3
      <3>5. e \notin X /\ e = v[n + 1] /\ n + 1 \in DOMAIN v /\ DOMAIN v = 1 .. Len(v)
        BY <1>2, <2>2, <2>4
      <3> HIDE DEF q, e, r
      <3>6. \A j \in 1 .. Len(q) + 1 : j \in 1 .. Len(q) \/ j = Len(q) + 1
        BY <3>0
      <3>7. Range(r) = Range(q) \cup {e}
        <4>1. Len(q) + 1 \in 1 .. Len(q) + 1 /\ \A j \in 1 .. Len(q) : j \in 1 .. Len(q) + 1
          BY <3>0
        <4> QED BY <3>0, <3>2, <3>6, <4>1 DEF Range
      <3>8. \A k \in 1 .. n + 1 : v[k] \notin X => v[k] \in Range(r)
        <4>1. \A k \in 1 .. n + 1 : k \in 1 .. n \/ k = n + 1
          OBVIOUS
        <4> QED BY <3>4, <3>5, <3>7, <4>1
      <3>9. \A j \in 1 .. Len(r) : \E k \in 1 .. n + 1 : j <= k /\ r[j] = v[k]
        <4> SUFFICES ASSUME NEW j \in 1 .. Len(q) + 1
                     PROVE  \E k \in 1 .. n + 1 : j <= k /\ r[j] = v[k]
          BY <3>2
        <4>1. CASE j = Len(q) + 1
          <5>1. n + 1 \in 1 .. n + 1 /\ j <= n + 1 /\ r[j] = v[n + 1]
            BY <3>0, <3>2, <3>5, <4>1
          <5> QED BY <5>1
        <4>2. CASE j \in 1 .. Len(q)
          <5>1. PICK k \in 1 .. n : j <= k /\ q[j] = v[k]
            BY <3>4, <4>2
          <5>2. k \in 1 .. n + 1 /\ r[j] = q[j]
            BY <3>2, <4>2
          <5> QED BY <5>1, <5>2
        <4> QED BY <3>6, <4>1, <4>2
      <3>10. Distinct(v) => Distinct(r)
        <4> SUFFICES ASSUME Distinct(v) PROVE Distinct(r)
          OBVIOUS
        <4>1. \A j \in 1 .. Len(q) : q[j] # e
          <5> SUFFICES ASSUME NEW j \in 1 .. Len(q), q[j] = e PROVE FALSE
            OBVIOUS
          <5>1. PICK k \in 1 .. n : q[j] = v[k]
            BY <3>4
          <5>2. k \in DOMAIN v /\ k # n + 1
            BY <1>2, <1>4
          <5> QED BY <3>5, <5>1, <5>2 DEF Distinct
        <4>2. Distinct(q)
          BY <3>4
        <4> QED BY <3>0, <3>2, <3>6, <4>1, <4>2 DEF Distinct
      <3> QED BY <3>2, <3>4, <3>5, <3>7, <3>8, <3>9, <3>10, <3>0 DEF r
    <2> QED BY <2>3, <2>4
  <1>5. OK(Len(v))
    <2>1. \A n \in Nat : n \in Good <=> (n <= Len(v) => OK(n))
      OBVIOUS
    <2>2. \A n \in Nat : n \in Good => n + 1 \in Good
      <3> SUFFICES ASSUME NEW n \in Nat, n \in Good, n + 1 <= Len(v) PROVE OK(n + 1)
        OBVIOUS
      <3>1. OK(n)
        BY <1>2, <2>1
      <3> QED BY <1>4, <3>1
    <2> HIDE DEF Good, OK
    <2>3. 0 \in Good
      BY <1>3, <2>1
    <2>4. Len(v) \in Good
      BY <1>2, <2>2, <2>3, Quic!NatInductionOn
    <2> QED BY <1>2, <2>1, <2>4
  <1> DEFINE w == g[Len(v)]
  <1>6. /\ w \in Seq(S) /\ Len(w) \in Nat /\ DOMAIN w = 1 .. Len(w)
        /\ \A k \in DOMAIN v : v[k] \notin X => v[k] \in Range(w)
        /\ \A s \in Range(w) : s \notin X
        /\ \A j \in DOMAIN w : \E k \in DOMAIN v : j <= k /\ w[j] = v[k]
        /\ Distinct(v) => Distinct(w)
    BY <1>2, <1>5, LenProperties
  <1> HIDE DEF w
  <1>7. Range(w) = Range(v) \ X
    <2>1. \A s \in Range(w) : s \in Range(v)
      BY <1>6 DEF Range
    <2>2. \A s \in Range(v) : s \notin X => s \in Range(w)
      BY <1>6 DEF Range
    <2> QED BY <1>6, <2>1, <2>2
  <1> QED BY <1>1, <1>6, <1>7 DEF w

-----------------------------------------------------------------------------
(* Types.                                                                  *)

\* The constants of this connection are what the lemmas about the send queue ask for.
LEMMA RelayLimits ==
  /\ IsFiniteSet(Subscribers) /\ IsFiniteSet(Tracks) /\ IsFiniteSet(Subgroups)
  /\ Quic!QueueLimits
  <1>1. IsFiniteSet(Subscribers) /\ IsFiniteSet(Tracks)
    BY RelayAssumption
  <1>2. IsFiniteSet(0 .. MaxGroups - 1)
    BY RelayAssumption, FS_Interval
  <1>3. IsFiniteSet(Subgroups)
    BY <1>1, <1>2, FS_Product DEF Subgroups
  <1>4. Quic!IsFiniteSet(Subgroups)
    BY <1>3 DEF IsFiniteSet, Quic!IsFiniteSet
  <1> QED BY <1>1, <1>3, <1>4, RelayAssumption DEF Quic!QueueLimits

\* The fields of a queued object, and the stream it is for.
LEMMA ItemFacts ==
  ASSUME BufferShape, NEW p \in buffer
  PROVE  /\ p \in Items /\ p.sub \in Subscribers /\ p.track \in Tracks
         /\ p.group \in 0 .. MaxGroups - 1
         /\ p.obj \in Nat /\ p.pos \in Nat /\ p.age \in Nat /\ p.sentOffset \in Nat
         /\ ObjectBytes[p.track] \in Nat \ {0} /\ p.sentOffset < ObjectBytes[p.track]
         /\ Subgroup(p) \in Subgroups /\ Down(p) \in DownSubgroups
         /\ Down(p) = <<p.sub, Subgroup(p)>> /\ Subgroup(p) = <<p.track, p.group>>
         /\ Down(p)[1] = p.sub /\ Down(p)[2] = Subgroup(p) /\ Down(p)[2][1] = p.track
  <1>1. p \in Items /\ p.sentOffset < ObjectBytes[p.track]
    BY DEF BufferShape
  <1>2. p.track \in Tracks /\ p.group \in 0 .. MaxGroups - 1 /\ p.sub \in Subscribers
    BY <1>1 DEF Items
  <1>3. ObjectBytes[p.track] \in Nat \ {0}
    BY <1>2, RelayAssumption
  <1>4. Subgroup(p) \in Subgroups /\ Subgroup(p) = <<p.track, p.group>>
    BY <1>2 DEF Subgroup, Subgroups
  <1>5. Down(p) = <<p.sub, Subgroup(p)>> /\ Down(p) \in DownSubgroups
    BY <1>2, <1>4 DEF Down, DownSubgroups
  <1> QED BY <1>1, <1>2, <1>3, <1>4, <1>5 DEF Items

\* What an unfinished loop forwards, and where it is.
LEMMA LoopFacts ==
  ASSUME ControlOK, LoopShape
  PROVE  /\ fwd.track \in Tracks /\ fwd.group \in 0 .. MaxGroups - 1
         /\ fwd.obj \in Nat /\ fwd.pos \in Nat /\ fwd.age \in Nat
         /\ fwd.i \in Nat \ {0} /\ fwd.n \in Nat
         /\ FwdSubgroup \in Subgroups /\ FwdSubgroup = <<fwd.track, fwd.group>>
         /\ subscriberByTrack[fwd.track] \in Seq(Subscribers)
         /\ \A s \in Subscribers : <<s, FwdSubgroup>> \in DownSubgroups
         /\ fwd = [track |-> fwd.track, group |-> fwd.group, obj |-> fwd.obj, pos |-> fwd.pos,
                   age |-> fwd.age, i |-> fwd.i, n |-> fwd.n]
  BY DEF ControlOK, LoopShape, LoopsOK, FwdSubgroup, Subgroups, DownSubgroups

\* The subscriber the loop has reached is a subscriber if it has a socket.
LEMMA ReachedFacts ==
  ASSUME ControlOK, LoopShape, NEW s \in subscriberSockets, Forwarding(s)
  PROVE  /\ pc = "forward" /\ s \in Subscribers /\ s \in openPeers
         /\ fwd.i \in DOMAIN subscriberByTrack[fwd.track]
         /\ s = subscriberByTrack[fwd.track][fwd.i]
         /\ s \in Range(subscriberByTrack[fwd.track])
  <1>1. s \in Subscribers /\ s # Nobody /\ s \in openPeers
    BY RelayAssumption DEF ControlOK
  <1>2. pc = "forward" /\ fwd.i <= Len(subscriberByTrack[fwd.track])
        /\ s = subscriberByTrack[fwd.track][fwd.i]
    BY <1>1 DEF Forwarding, Reached
  <1>3. fwd.i \in DOMAIN subscriberByTrack[fwd.track]
    BY <1>2, LoopFacts, LenProperties
  <1> QED BY <1>1, <1>2, <1>3 DEF Range

\* A slice is never empty and never runs past the end of the object.
LEMMA SliceFacts ==
  ASSUME BufferShape, NEW p \in buffer
  PROVE  /\ Slice(p) \in Nat \ {0} /\ Slice(p) <= ChunkBytes /\ ChunkBytes \in Nat \ {0}
         /\ p.sentOffset + Slice(p) <= ObjectBytes[p.track]
         /\ Slice(p) = Rest(p) <=> p.sentOffset + Slice(p) = ObjectBytes[p.track]
  BY ItemFacts, RelayAssumption DEF Slice, Rest

\* The objects a teardown takes, and the streams it tears.
Live(S)    == S \cap subscriberSockets
Gone(S, t) == Abandoned(Live(S), t)
Torn(S, t) == {Down(p) : p \in {q \in Gone(S, t) : q.sentOffset > 0}}

\* What a teardown takes is a part of the queue.
LEMMA GoneFacts ==
  ASSUME ControlOK, BufferShape, NEW S, NEW t
  PROVE  /\ Live(S) \in SUBSET Subscribers
         /\ Gone(S, t) \in SUBSET buffer /\ IsFiniteSet(Gone(S, t))
         /\ Cardinality(Gone(S, t)) \in Nat
         /\ Cardinality(buffer \ Gone(S, t)) = Cardinality(buffer) - Cardinality(Gone(S, t))
         /\ Torn(S, t) \in SUBSET DownSubgroups
  <1>1. Gone(S, t) \in SUBSET buffer /\ IsFiniteSet(buffer)
    BY DEF Gone, Abandoned, BufferShape
  <1>2. IsFiniteSet(Gone(S, t)) /\ Cardinality(Gone(S, t)) \in Nat
    BY <1>1, FS_Subset, FS_CardinalityType
  <1>3. Cardinality(buffer \ Gone(S, t)) = Cardinality(buffer) - Cardinality(Gone(S, t))
    <2>1. buffer \cap Gone(S, t) = Gone(S, t)
      BY <1>1
    <2> QED BY <1>1, <2>1, FS_Difference
  <1>4. Torn(S, t) \in SUBSET DownSubgroups
    BY <1>1, ItemFacts DEF Torn
  <1>5. Live(S) \in SUBSET Subscribers
    BY DEF Live, ControlOK
  <1> QED BY <1>1, <1>2, <1>3, <1>4, <1>5

\* What ending a track for the subscribers in S does.
LEMMA EndEffect ==
  ASSUME ControlOK, BufferShape, TransportOK, NEW S, NEW t \in Tracks, NEW status,
         EndSubscriberTrack(S, t, status)
  PROVE  /\ buffer' = buffer \ Gone(S, t)
         /\ pendingForwardCount' = pendingForwardCount - Cardinality(Gone(S, t))
         /\ relayShedOverflow' = [relayShedOverflow EXCEPT ![t] = @ + Cardinality(Gone(S, t))]
         /\ resetDownstream' = [d \in DownSubgroups |-> IF d \in Torn(S, t) THEN "OVERFLOW"
                                                        ELSE resetDownstream[d]]
         /\ downstreamStreams' = downstreamStreams \ Torn(S, t)
         /\ conn' \in [Subscribers -> Quic!Connections]
         /\ \A s \in Subscribers : Quic!Asked(conn[s], conn'[s])
         /\ publishDone' = publishDone \cup {<<s, t, status>> : s \in Live(S)}
         /\ subscriberByTrack' =
              [subscriberByTrack EXCEPT ![t] = Erased(subscriberByTrack[t], Live(S))]
         /\ UNCHANGED <<outstanding, relayShedStale>>
  <1> DEFINE tornOf(s) == {d[2] : d \in {e \in Torn(S, t) : e[1] = s}}
  <1>1. /\ buffer' = buffer \ Gone(S, t)
        /\ pendingForwardCount' = pendingForwardCount - Cardinality(Gone(S, t))
        /\ relayShedOverflow' = [relayShedOverflow EXCEPT ![t] = @ + Cardinality(Gone(S, t))]
        /\ resetDownstream' = [d \in DownSubgroups |-> IF d \in Torn(S, t) THEN "OVERFLOW"
                                                       ELSE resetDownstream[d]]
        /\ downstreamStreams' = downstreamStreams \ Torn(S, t)
        /\ publishDone' = publishDone \cup {<<s, t, status>> : s \in Live(S)}
        /\ subscriberByTrack' =
             [subscriberByTrack EXCEPT ![t] = Erased(subscriberByTrack[t], Live(S))]
        /\ UNCHANGED <<outstanding, relayShedStale>>
    BY DEF EndSubscriberTrack, Live, Gone, Torn, Charged
  <1>2. conn' = [s \in Subscribers |->
                   IF s \in Live(S)
                   THEN Quic!SendControl(Quic!ResetStreams(conn[s], tornOf(s)))
                   ELSE conn[s]]
    BY DEF EndSubscriberTrack, Live, Gone, Torn
  <1>3. ASSUME NEW s \in Subscribers
        PROVE  conn'[s] \in Quic!Connections /\ Quic!Asked(conn[s], conn'[s])
    <2>1. conn[s] \in Quic!Connections
      BY DEF TransportOK
    <2>2. tornOf(s) \in SUBSET Subgroups
      <3>1. Torn(S, t) \in SUBSET DownSubgroups
        BY ONLY ControlOK, BufferShape, GoneFacts
      <3>2. \A d \in DownSubgroups : d[2] \in Subgroups
        BY DEF DownSubgroups
      <3> QED BY <3>1, <3>2
    <2> HIDE DEF tornOf
    <2> DEFINE c == Quic!ResetStreams(conn[s], tornOf(s))
    <2>3. c \in Quic!Connections /\ Quic!Asked(conn[s], c)
      BY <2>1, <2>2, Quic!ResetAsked
    <2>4. conn'[s] = IF s \in Live(S) THEN Quic!SendControl(c) ELSE conn[s]
      BY <1>2
    <2> HIDE DEF c
    <2>5. CASE s \notin Live(S)
      <3>1. conn[s].requests \in Seq(Quic!Requests)
        BY <2>1 DEF Quic!Connections
      <3> QED BY <2>1, <2>4, <2>5, <3>1, Quic!GrownSame DEF Quic!Asked
    <2>6. CASE s \in Live(S)
      <3>1. conn'[s] \in Quic!Connections /\ Quic!Asked(c, conn'[s])
        BY <2>3, <2>4, <2>6, Quic!ControlAsked
      <3> QED BY <2>1, <2>3, <3>1, Quic!AskedTwice
    <2> QED BY <2>5, <2>6
  <1>4. conn' \in [Subscribers -> Quic!Connections]
    BY <1>2, <1>3
  <1> QED BY <1>1, <1>3, <1>4

\* The vector of an ended track is still one of subscribers.
LEMMA EndedVector ==
  ASSUME ControlOK, NEW S, NEW t \in Tracks,
         subscriberByTrack' = [subscriberByTrack EXCEPT ![t] = Erased(subscriberByTrack[t], Live(S))]
  PROVE  subscriberByTrack' \in [Tracks -> Seq(Subscribers)]
  <1>1. subscriberByTrack[t] \in Seq(Subscribers)
    BY DEF ControlOK
  <1>2. Erased(subscriberByTrack[t], Live(S)) \in Seq(Subscribers)
    BY <1>1, ErasedFacts
  <1> QED BY <1>2 DEF ControlOK

\* Every step keeps the types of what the control plane registers.
LEMMA ControlNext ==
  ASSUME ShapeInv, Next
  PROVE  ControlOK'
  <1>1. CASE UNCHANGED <<control, subscriberByTrack, arrivals>>
    BY <1>1 DEF ShapeInv, ControlOK, control, arrivals
  <1>2. CASE \/ SkipSubscriber \/ EndDone \/ ForwardDone \/ FlushStep \/ CheckFires \/ Tick
             \/ \E s \in Subscribers : RefuseObject(s) \/ ForwardObject(s)
             \/ \E s \in Subscribers : QuicFullOrRejected(s) \/ QuicDrain(s) \/ QuicHandleRequest(s)
             \/ \E s \in Subscribers, g \in Subgroups : QuicAck(s, g)
    <2>1. UNCHANGED <<control, subscriberByTrack, arrivals>>
      BY <1>2 DEF SkipSubscriber, EndDone, ForwardDone, FlushStep, CheckFires, Tick,
         RefuseObject, ForwardObject, QuicFullOrRejected, QuicDrain, QuicHandleRequest, QuicAck,
         DropWithSubgroup, DropStale, WriteChunk, EndFlush
    <2> QED BY <1>1, <2>1
  <1>3. ASSUME NEW t \in Tracks, Announce(t) PROVE ControlOK'
    BY <1>3 DEF Announce, ShapeInv, ControlOK, arrivals
  <1>4. ASSUME NEW t \in Tracks, EndTrackDownstream(t) \/ EndTrack(t) PROVE ControlOK'
    <2>1. subscriberByTrack' \in [Tracks -> Seq(Subscribers)]
      BY <1>4, EndedVector, EndEffect DEF EndTrackDownstream, EndTrack, ShapeInv
    <2> QED BY <1>4, <2>1 DEF EndTrackDownstream, EndTrack, ShapeInv, ControlOK, arrivals, control
  <1>5. ASSUME NEW s \in Subscribers, NEW t \in Tracks, Subscribe(s, t) PROVE ControlOK'
    <2>1. Append(subscriberByTrack[t], s) \in Seq(Subscribers)
      BY AppendProperties DEF ShapeInv, ControlOK
    <2> QED BY <1>5, <2>1 DEF Subscribe, ShapeInv, ControlOK, arrivals
  <1>6. ASSUME NEW t, NEW g, <<t, g>> \in Subgroups, NEW a, OnObjectFrame(t, g, a) PROVE ControlOK'
    BY <1>6 DEF OnObjectFrame, ShapeInv, ControlOK, control
  <1>7. CASE \E a \in {0, AgeCap(fwd.track)} : NextInPacket(a)
    BY <1>6, <1>7, LoopFacts DEF NextInPacket, FwdSubgroup, ShapeInv
  <1>8. CASE \E g \in Subgroups : \E a \in {0, AgeCap(g[1])} : ObjectArrives(g[1], g[2], a)
    BY <1>6, <1>8 DEF ObjectArrives, Subgroups
  <1>9. ASSUME NEW s \in Subscribers, CloseSubscriber(s) PROVE ControlOK'
    BY <1>9 DEF CloseSubscriber, ShapeInv, ControlOK, arrivals
  <1>10. ASSUME NEW p \in Publishers, ClosePublisher(p) PROVE ControlOK'
    <2>1. p \notin Subscribers
      BY RelayAssumption
    <2> QED BY <1>10, <2>1 DEF ClosePublisher, ShapeInv, ControlOK, arrivals
  <1> QED BY <1>2, <1>3, <1>4, <1>5, <1>7, <1>8, <1>9, <1>10 DEF Next, Application, Peers

\* The object a forwarding queues.
FwdItem(s) == [sub |-> s, track |-> fwd.track, group |-> fwd.group, obj |-> fwd.obj,
               pos |-> fwd.pos, sentOffset |-> 0, age |-> fwd.age]

\* The object being forwarded, as it is queued for s.
LEMMA FwdItemFacts ==
  ASSUME ControlOK, LoopShape, NEW s \in Subscribers
  PROVE  /\ FwdItem(s) \in Items /\ FwdItem(s).sentOffset < ObjectBytes[FwdItem(s).track]
         /\ FwdItem(s).sub = s /\ FwdItem(s).track = fwd.track /\ FwdItem(s).obj = fwd.obj
         /\ FwdItem(s).pos = fwd.pos /\ FwdItem(s).sentOffset = 0
         /\ Subgroup(FwdItem(s)) = FwdSubgroup
         /\ Down(FwdItem(s)) = <<s, FwdSubgroup>> /\ Down(FwdItem(s)) \in DownSubgroups
  <1>1. FwdItem(s) \in Items
    BY LoopFacts DEF FwdItem, Items
  <1>2. ObjectBytes[fwd.track] \in Nat \ {0}
    BY LoopFacts, RelayAssumption
  <1> QED BY <1>1, <1>2, LoopFacts DEF FwdItem, Subgroup, Down, FwdSubgroup, DownSubgroups

\* Ageing changes an object's age only.
LEMMA OlderFacts ==
  /\ \A p \in Items : /\ Older(p) \in Items
                      /\ Older(p).sub = p.sub /\ Older(p).track = p.track /\ Older(p).pos = p.pos
                      /\ Older(p).group = p.group /\ Older(p).obj = p.obj
                      /\ Older(p).sentOffset = p.sentOffset
                      /\ Down(Older(p)) = Down(p) /\ Subgroup(Older(p)) = Subgroup(p)
  /\ \A o \in OutstandingFwd : Older(o) \in OutstandingFwd
  <1>1. ASSUME NEW p \in Items
        PROVE  /\ Older(p) \in Items
               /\ Older(p).sub = p.sub /\ Older(p).track = p.track /\ Older(p).pos = p.pos
               /\ Older(p).group = p.group /\ Older(p).obj = p.obj
               /\ Older(p).sentOffset = p.sentOffset
    <2>1. PICK a \in Nat : Older(p) = [p EXCEPT !.age = a]
      BY DEF Older, Items
    <2> QED BY <2>1 DEF Items
  <1>2. ASSUME NEW o \in OutstandingFwd PROVE Older(o) \in OutstandingFwd
    <2>1. o.age \in Nat /\ o.age + 1 \in Nat
      BY DEF OutstandingFwd
    <2>2. \/ Older(o) = [o EXCEPT !.age = o.age + 1]
          \/ Older(o) = [o EXCEPT !.age = o.age]
      BY DEF Older
    <2>3. \A a \in Nat : [o EXCEPT !.age = a] \in OutstandingFwd
      BY DEF OutstandingFwd
    <2> QED BY <2>1, <2>2, <2>3
  <1> QED BY <1>1, <1>2 DEF Down, Subgroup

\* What a slice does to the queue: the object stays with a longer offset, or goes.
LEMMA WriteEffect ==
  ASSUME BufferShape, NEW p \in buffer, WriteChunk(p)
  PROVE  \E n \in Nat \ {0}, next \in Items :
           /\ n <= ChunkBytes /\ p.sentOffset + n <= ObjectBytes[p.track]
           /\ next = [p EXCEPT !.sentOffset = p.sentOffset + n]
           /\ next.sub = p.sub /\ next.track = p.track /\ next.group = p.group
           /\ next.obj = p.obj /\ next.pos = p.pos /\ next.sentOffset = p.sentOffset + n
           /\ Down(next) = Down(p) /\ Subgroup(next) = Subgroup(p)
           /\ \/ /\ p.sentOffset + n = ObjectBytes[p.track]
                 /\ buffer' = buffer \ {p}
                 /\ pendingForwardCount' = pendingForwardCount - 1
                 /\ forward_count' = [forward_count EXCEPT ![at] = @ + 1]
              \/ /\ p.sentOffset + n < ObjectBytes[p.track]
                 /\ buffer' = (buffer \ {p}) \cup {next}
                 /\ UNCHANGED <<pendingForwardCount, forward_count, outstanding>>
           /\ conn' = [conn EXCEPT ![at] = Quic!SendData(conn[at], Subgroup(p), n)]
           /\ wire' = [wire EXCEPT ![Down(p)] = [obj |-> p.obj, off |-> p.sentOffset + n]]
           /\ quicBytesThisEvent' = [quicBytesThisEvent EXCEPT ![at] = @ + n]
  <1> DEFINE n    == Slice(p)
             next == [p EXCEPT !.sentOffset = p.sentOffset + n]
  <1>1. /\ n \in Nat \ {0} /\ n <= ChunkBytes /\ p.sentOffset + n <= ObjectBytes[p.track]
        /\ n = Rest(p) <=> p.sentOffset + n = ObjectBytes[p.track]
        /\ p \in Items /\ p.sentOffset \in Nat /\ ObjectBytes[p.track] \in Nat
    BY SliceFacts, ItemFacts
  <1>2. /\ IF n = Rest(p)
           THEN /\ buffer' = buffer \ {p}
                /\ pendingForwardCount' = pendingForwardCount - 1
                /\ forward_count' = [forward_count EXCEPT ![at] = @ + 1]
           ELSE /\ buffer' = (buffer \ {p}) \cup {next}
                /\ UNCHANGED <<pendingForwardCount, forward_count, outstanding>>
        /\ conn' = [conn EXCEPT ![at] = Quic!SendData(conn[at], Subgroup(p), n)]
        /\ wire' = [wire EXCEPT ![Down(p)] = [obj |-> p.obj, off |-> p.sentOffset + n]]
        /\ quicBytesThisEvent' = [quicBytesThisEvent EXCEPT ![at] = @ + n]
    BY DEF WriteChunk
  <1> HIDE DEF n
  <1>3. /\ next \in Items /\ next.sub = p.sub /\ next.track = p.track /\ next.group = p.group
        /\ next.obj = p.obj /\ next.pos = p.pos /\ next.sentOffset = p.sentOffset + n
    BY <1>1 DEF Items
  <1>4. next = [p EXCEPT !.sentOffset = p.sentOffset + n]
    OBVIOUS
  <1> HIDE DEF next
  <1>5. Down(next) = Down(p) /\ Subgroup(next) = Subgroup(p)
    BY <1>3 DEF Down, Subgroup
  <1>6. n # Rest(p) => p.sentOffset + n < ObjectBytes[p.track]
    BY <1>1
  <1> QED BY <1>1, <1>2, <1>3, <1>4, <1>5, <1>6

\* Every step keeps the shape of the queues.
LEMMA BufferNext ==
  ASSUME ShapeInv, Next
  PROVE  BufferShape'
  <1> USE DEF ShapeInv
  <1>1. CASE UNCHANGED buffer
    BY <1>1 DEF BufferShape
  <1>2. ASSUME buffer' \subseteq buffer PROVE BufferShape'
    BY <1>2, FS_Subset DEF BufferShape
  <1>3. CASE \/ SkipSubscriber \/ EndDone \/ ForwardDone \/ EndFlush \/ CheckFires
             \/ \E s \in Subscribers : RefuseObject(s)
             \/ \E s \in Subscribers : QuicFullOrRejected(s) \/ QuicDrain(s) \/ QuicHandleRequest(s)
             \/ \E s \in Subscribers, g \in Subgroups : QuicAck(s, g)
             \/ \E t \in Tracks : Announce(t)
             \/ \E s \in Subscribers, t \in Tracks : Subscribe(s, t)
             \/ \E a \in {0, AgeCap(fwd.track)} : NextInPacket(a)
             \/ \E g \in Subgroups : \E a \in {0, AgeCap(g[1])} : ObjectArrives(g[1], g[2], a)
             \/ \E p \in Publishers : ClosePublisher(p)
    <2>1. UNCHANGED buffer
      BY <1>3 DEF SkipSubscriber, EndDone, ForwardDone, CheckFires, queues,
         RefuseObject, QuicFullOrRejected, QuicDrain, QuicHandleRequest, QuicAck,
         EndFlush, Announce, Subscribe, NextInPacket, ObjectArrives, OnObjectFrame, ClosePublisher
    <2> QED BY <1>1, <2>1
  <1>4. ASSUME NEW t \in Tracks, EndTrackDownstream(t) \/ EndTrack(t) PROVE BufferShape'
    <2>1. PICK S : buffer' = buffer \ Gone(S, t)
      BY <1>4, EndEffect DEF EndTrackDownstream, EndTrack
    <2> QED BY <1>2, <2>1
  <1>5. ASSUME NEW p \in buffer, DropWithSubgroup(p) \/ DropStale(p) PROVE BufferShape'
    BY <1>2, <1>5 DEF DropWithSubgroup, DropStale
  <1>6. ASSUME NEW p \in buffer, WriteChunk(p) PROVE BufferShape'
    <2>1. PICK n \in Nat \ {0}, next \in Items :
             /\ next.track = p.track /\ next.sentOffset = p.sentOffset + n
             /\ \/ buffer' = buffer \ {p}
                \/ /\ p.sentOffset + n < ObjectBytes[p.track]
                   /\ buffer' = (buffer \ {p}) \cup {next}
      BY <1>6, WriteEffect
    <2>2. CASE buffer' = buffer \ {p}
      BY <1>2, <2>2
    <2>3. CASE /\ p.sentOffset + n < ObjectBytes[p.track]
               /\ buffer' = (buffer \ {p}) \cup {next}
      <3>1. IsFiniteSet((buffer \ {p}) \cup {next})
        BY FS_AddElement, FS_RemoveElement DEF BufferShape
      <3> QED BY <2>1, <2>3, <3>1 DEF BufferShape
    <2> QED BY <2>1, <2>2, <2>3
  <1>7. ASSUME NEW s \in Subscribers, ForwardObject(s) PROVE BufferShape'
    <2>1. buffer' = buffer \cup {FwdItem(s)}
      BY <1>7 DEF ForwardObject, FwdItem
    <2>2. IsFiniteSet(buffer \cup {FwdItem(s)})
      BY FS_AddElement DEF BufferShape
    <2> QED BY <2>1, <2>2, FwdItemFacts DEF BufferShape
  <1>8. ASSUME NEW s \in Subscribers, CloseSubscriber(s) PROVE BufferShape'
    BY <1>2, <1>8 DEF CloseSubscriber
  <1>9. CASE Tick
    <2>1. buffer' = {Older(p) : p \in buffer}
      BY <1>9 DEF Tick
    <2>2. IsFiniteSet({Older(p) : p \in buffer})
      <3> DEFINE f == [p \in buffer |-> Older(p)]
      <3>1. f \in Surjection(buffer, {Older(p) : p \in buffer})
        BY DEF Surjection
      <3> QED BY <3>1, FS_Surjection DEF BufferShape
    <2>3. \A p \in buffer : Older(p) \in Items /\ Older(p).sentOffset < ObjectBytes[Older(p).track]
      BY OlderFacts DEF BufferShape
    <2> QED BY <2>1, <2>2, <2>3 DEF BufferShape
  <1> QED BY <1>3, <1>4, <1>5, <1>6, <1>7, <1>8, <1>9 DEF Next, Application, Peers, FlushStep

\* Every step keeps the types of what is known of the streams.
LEMMA StreamNext ==
  ASSUME ShapeInv, Next
  PROVE  StreamShape'
  <1> USE DEF ShapeInv
  <1>1. CASE UNCHANGED <<outstanding, downstreamStreams, resetDownstream, wire>>
    BY <1>1 DEF StreamShape
  <1>2. CASE \/ SkipSubscriber \/ EndDone \/ ForwardDone \/ EndFlush \/ CheckFires
             \/ \E s \in Subscribers : RefuseObject(s)
             \/ \E s \in Subscribers : QuicFullOrRejected(s) \/ QuicDrain(s) \/ QuicHandleRequest(s)
             \/ \E s \in Subscribers, g \in Subgroups : QuicAck(s, g)
             \/ \E t \in Tracks : Announce(t)
             \/ \E s \in Subscribers, t \in Tracks : Subscribe(s, t)
             \/ \E a \in {0, AgeCap(fwd.track)} : NextInPacket(a)
             \/ \E g \in Subgroups : \E a \in {0, AgeCap(g[1])} : ObjectArrives(g[1], g[2], a)
             \/ \E p \in Publishers : ClosePublisher(p)
             \/ \E p \in buffer : DropWithSubgroup(p)
    <2>1. UNCHANGED <<outstanding, downstreamStreams, resetDownstream, wire>>
      BY <1>2 DEF SkipSubscriber, EndDone, ForwardDone, CheckFires, queues,
         RefuseObject, QuicFullOrRejected, QuicDrain, QuicHandleRequest, QuicAck,
         EndFlush, Announce, Subscribe, NextInPacket, ObjectArrives, OnObjectFrame, ClosePublisher,
         DropWithSubgroup
    <2> QED BY <1>1, <2>1
  <1>3. ASSUME NEW t \in Tracks, EndTrackDownstream(t) \/ EndTrack(t) PROVE StreamShape'
    <2>1. PICK S, status : EndSubscriberTrack(S, t, status)
      BY <1>3 DEF EndTrackDownstream, EndTrack
    <2>2. /\ resetDownstream' = [d \in DownSubgroups |-> IF d \in Torn(S, t) THEN "OVERFLOW"
                                                         ELSE resetDownstream[d]]
          /\ downstreamStreams' = downstreamStreams \ Torn(S, t)
          /\ outstanding' = outstanding
      BY <2>1, EndEffect
    <2>3. wire' = wire
      BY <1>3 DEF EndTrackDownstream, EndTrack
    <2> QED BY <2>2, <2>3 DEF StreamShape
  <1>4. ASSUME NEW p \in buffer, DropStale(p) PROVE StreamShape'
    BY <1>4, ItemFacts DEF DropStale, StreamShape, TornBy
  <1>5. ASSUME NEW p \in buffer, WriteChunk(p) PROVE StreamShape'
    <2>1. PICK n \in Nat \ {0} :
             wire' = [wire EXCEPT ![Down(p)] = [obj |-> p.obj, off |-> p.sentOffset + n]]
      BY <1>5, WriteEffect
    <2>2. wire' \in [DownSubgroups -> [obj : Int, off : Nat]]
      BY <2>1, ItemFacts DEF StreamShape
    <2>3. [sub |-> p.sub, track |-> p.track, group |-> p.group, obj |-> p.obj, age |-> p.age]
            \in OutstandingFwd
      BY ItemFacts DEF OutstandingFwd
    <2>4. outstanding' \subseteq OutstandingFwd
      BY <1>5, <2>3 DEF WriteChunk, StreamShape
    <2> QED BY <1>5, <2>2, <2>4 DEF WriteChunk, StreamShape
  <1>6. ASSUME NEW s \in Subscribers, ForwardObject(s) PROVE StreamShape'
    <2>1. /\ downstreamStreams' = downstreamStreams \cup {Down(FwdItem(s))}
          /\ UNCHANGED <<outstanding, resetDownstream, wire>>
      BY <1>6 DEF ForwardObject, FwdItem
    <2> QED BY <2>1, FwdItemFacts DEF StreamShape
  <1>7. ASSUME NEW s \in Subscribers, CloseSubscriber(s) PROVE StreamShape'
    BY <1>7 DEF CloseSubscriber, StreamShape
  <1>8. CASE Tick
    BY <1>8, OlderFacts DEF Tick, StreamShape
  <1> QED BY <1>2, <1>3, <1>4, <1>5, <1>6, <1>7, <1>8 DEF Next, Application, Peers, FlushStep

\* An object lost with its stream is charged once.
LEMMA ChargeFacts ==
  ASSUME NEW d \in DownSubgroups, ChargeToCause(d)
  PROVE  \E t \in Tracks :
           \/ /\ relayShedOverflow' = [relayShedOverflow EXCEPT ![t] = @ + 1]
              /\ relayShedStale' = relayShedStale
           \/ /\ relayShedStale' = [relayShedStale EXCEPT ![t] = @ + 1]
              /\ relayShedOverflow' = relayShedOverflow
  <1>1. d[2][1] \in Tracks
    BY DEF DownSubgroups, Subgroups
  <1> QED BY <1>1 DEF ChargeToCause

\* Every step keeps the types of the counters.
LEMMA CountersNext ==
  ASSUME ShapeInv, Next
  PROVE  CountersOK'
  <1> USE DEF ShapeInv
  <1>1. CASE UNCHANGED <<forward_count, relayShedStale, relayShedOverflow, publishDone,
                         tooFarBehind, offered, lostAtClose>>
    BY <1>1 DEF CountersOK
  <1>2. CASE \/ SkipSubscriber \/ EndDone \/ ForwardDone \/ EndFlush \/ CheckFires \/ Tick
             \/ \E s \in Subscribers : QuicFullOrRejected(s) \/ QuicDrain(s) \/ QuicHandleRequest(s)
             \/ \E s \in Subscribers, g \in Subgroups : QuicAck(s, g)
             \/ \E t \in Tracks : Announce(t)
             \/ \E s \in Subscribers, t \in Tracks : Subscribe(s, t)
             \/ \E a \in {0, AgeCap(fwd.track)} : NextInPacket(a)
             \/ \E g \in Subgroups : \E a \in {0, AgeCap(g[1])} : ObjectArrives(g[1], g[2], a)
             \/ \E p \in Publishers : ClosePublisher(p)
    <2>1. UNCHANGED <<forward_count, relayShedStale, relayShedOverflow, publishDone,
                      tooFarBehind, offered, lostAtClose>>
      BY <1>2 DEF SkipSubscriber, EndDone, ForwardDone, CheckFires, Tick, charges, ends, history,
         QuicFullOrRejected, QuicDrain, QuicHandleRequest, QuicAck,
         EndFlush, Announce, Subscribe, NextInPacket, ObjectArrives, OnObjectFrame, ClosePublisher
    <2> QED BY <1>1, <2>1
  <1>3. ASSUME NEW t \in Tracks, EndTrackDownstream(t) \/ EndTrack(t) PROVE CountersOK'
    <2>1. PICK S, status : /\ EndSubscriberTrack(S, t, status)
                           /\ status \in {"TRACK_ENDED", "TOO_FAR_BEHIND"}
      BY <1>3 DEF EndTrackDownstream, EndTrack
    <2>2. /\ relayShedOverflow' = [relayShedOverflow EXCEPT ![t] = @ + Cardinality(Gone(S, t))]
          /\ publishDone' = publishDone \cup {<<s, t, status>> : s \in Live(S)}
          /\ relayShedStale' = relayShedStale
      BY <2>1, EndEffect
    <2>3. UNCHANGED <<forward_count, tooFarBehind, offered, lostAtClose>>
      BY <1>3 DEF EndTrackDownstream, EndTrack, history
    <2>4. Cardinality(Gone(S, t)) \in Nat /\ Live(S) \in SUBSET Subscribers
      BY GoneFacts
    <2>5. relayShedOverflow' \in [Tracks -> Nat]
      BY <2>2, <2>4 DEF CountersOK
    <2>6. publishDone' \subseteq Subscribers \X Tracks \X {"TRACK_ENDED", "TOO_FAR_BEHIND"}
      <3>1. \A s \in Live(S) :
              <<s, t, status>> \in Subscribers \X Tracks \X {"TRACK_ENDED", "TOO_FAR_BEHIND"}
        BY <2>1, <2>4
      <3> HIDE DEF ShapeInv
      <3> DEFINE P == Subscribers \X Tracks \X {"TRACK_ENDED", "TOO_FAR_BEHIND"}
                 N == {<<s, t, status>> : s \in Live(S)}
      <3>2. publishDone \in SUBSET P
        BY DEF CountersOK, ShapeInv
      <3>3. N \subseteq P
        BY <3>1
      <3>4. publishDone' = publishDone \cup N
        BY <2>2
      <3> HIDE DEF P, N
      <3>5. publishDone' \subseteq P
        BY <3>2, <3>3, <3>4
      <3> QED BY <3>5 DEF P
    <2> QED BY <2>2, <2>3, <2>5, <2>6 DEF CountersOK
  <1>4. ASSUME NEW p \in buffer, DropStale(p) \/ DropWithSubgroup(p) PROVE CountersOK'
    <2>1. CASE DropStale(p)
      BY <2>1, ItemFacts DEF DropStale, CountersOK, ends, history
    <2>2. CASE DropWithSubgroup(p)
      <3>1. ChargeToCause(Down(p)) /\ Down(p) \in DownSubgroups
        BY <2>2, ItemFacts DEF DropWithSubgroup
      <3>2. /\ relayShedStale' \in [Tracks -> Nat]
            /\ relayShedOverflow' \in [Tracks -> Nat]
        BY <3>1, ChargeFacts DEF CountersOK
      <3> QED BY <2>2, <3>2 DEF DropWithSubgroup, CountersOK, ends, history
    <2> QED BY <1>4, <2>1, <2>2
  <1>5. ASSUME NEW p \in buffer, WriteChunk(p) PROVE CountersOK'
    <2>1. forward_count' \in [Subscribers -> Nat]
      BY <1>5 DEF WriteChunk, CountersOK
    <2> QED BY <1>5, <2>1 DEF WriteChunk, CountersOK, charges, ends, history
  <1>6. ASSUME NEW s \in Subscribers, ForwardObject(s) PROVE CountersOK'
    BY <1>6 DEF ForwardObject, CountersOK, charges
  <1>7. ASSUME NEW s \in Subscribers, RefuseObject(s) PROVE CountersOK'
    <2>1. ChargeToCause(<<s, FwdSubgroup>>) /\ <<s, FwdSubgroup>> \in DownSubgroups
      BY <1>7, LoopFacts DEF RefuseObject, FwdSubgroup
    <2>2. /\ relayShedStale' \in [Tracks -> Nat]
          /\ relayShedOverflow' \in [Tracks -> Nat]
      BY <2>1, ChargeFacts DEF CountersOK
    <2> QED BY <1>7, <2>2 DEF RefuseObject, CountersOK, ends
  <1>8. ASSUME NEW s \in Subscribers, CloseSubscriber(s) PROVE CountersOK'
    <2>1. Cardinality(Queue(s)) \in Nat
      <3>1. Queue(s) \subseteq buffer
        BY DEF Queue
      <3> QED BY <3>1, FS_Subset, FS_CardinalityType DEF BufferShape
    <2> QED BY <1>8, <2>1 DEF CloseSubscriber, Released, CountersOK, charges, ends
  <1> QED BY <1>2, <1>3, <1>4, <1>5, <1>6, <1>7, <1>8 DEF Next, Application, Peers, FlushStep

\* Every step keeps the shape of the running loop.
LEMMA LoopNext ==
  ASSUME ShapeInv, Next
  PROVE  LoopShape'
  <1> USE DEF ShapeInv
  <1>0. ASSUME pc' \in {"idle", "forward", "end", "flush", "flushForward"},
               fwd' \in [track : Tracks, group : 0 .. MaxGroups - 1, obj : Nat, pos : Nat,
                         age : Nat, i : Nat, n : Nat],
               fwd'.i # 0,
               ending' \in [who : Subscribers \cup {Nobody}, keys : SUBSET Tracks],
               at' \in Subscribers \cup {Nobody},
               pc' \in {"flush", "flushForward", "end"} => at' \in Subscribers
        PROVE  LoopShape'
    BY <1>0 DEF LoopShape, LoopsOK, Flushing
  <1>1. CASE UNCHANGED <<pc, fwd, ending, at>>
    BY <1>1 DEF LoopShape, LoopsOK, Flushing
  <1>2. CASE \/ CheckFires \/ Tick
             \/ \E s \in Subscribers : QuicFullOrRejected(s) \/ QuicHandleRequest(s)
             \/ \E s \in Subscribers, g \in Subgroups : QuicAck(s, g)
             \/ \E t \in Tracks : Announce(t) \/ EndTrackDownstream(t)
             \/ \E s \in Subscribers, t \in Tracks : Subscribe(s, t)
             \/ \E p \in Publishers : ClosePublisher(p)
             \/ \E s \in Subscribers : CloseSubscriber(s)
             \/ \E p \in buffer : DropWithSubgroup(p) \/ DropStale(p) \/ WriteChunk(p)
    <2>1. UNCHANGED <<pc, fwd, ending, at>>
      BY <1>2 DEF CheckFires, Tick, ends, QuicFullOrRejected, QuicHandleRequest, QuicAck,
         Announce, EndTrackDownstream, Subscribe, ClosePublisher, CloseSubscriber,
         DropWithSubgroup, DropStale, WriteChunk
    <2> QED BY <1>1, <2>1
  <1>3. ASSUME fwd' = [fwd EXCEPT !.i = @ + 1]
        PROVE  /\ fwd' \in [track : Tracks, group : 0 .. MaxGroups - 1, obj : Nat, pos : Nat,
                            age : Nat, i : Nat, n : Nat]
               /\ fwd'.i # 0
    BY <1>3 DEF LoopShape, LoopsOK
  <1>4. CASE SkipSubscriber \/ \E s \in Subscribers : RefuseObject(s)
    <2>1. fwd' = [fwd EXCEPT !.i = @ + 1] /\ UNCHANGED <<pc, ending, at>>
      BY <1>4 DEF SkipSubscriber, RefuseObject, NextSubscriber, ends
    <2> QED BY <1>0, <1>3, <2>1 DEF LoopShape, LoopsOK, Flushing
  <1>5. ASSUME NEW s \in Subscribers, ForwardObject(s) PROVE LoopShape'
    <2>1. /\ at' = s /\ fwd' = fwd
          /\ \/ /\ pc' = "end"
                /\ ending' = [who  |-> s,
                              keys |-> {t \in Tracks : s \in Range(subscriberByTrack[t])}]
             \/ pc' = "flushForward" /\ ending' = ending
      BY <1>5 DEF ForwardObject
    <2>2. ending' \in [who : Subscribers \cup {Nobody}, keys : SUBSET Tracks]
      BY <2>1 DEF LoopShape, LoopsOK
    <2> QED BY <1>0, <2>1, <2>2 DEF LoopShape, LoopsOK
  <1>6. ASSUME NEW t \in Tracks, EndTrack(t) PROVE LoopShape'
    <2>1. subscriberByTrack' \in [Tracks -> Seq(Subscribers)]
      BY <1>6, EndedVector, EndEffect DEF EndTrack
    <2>2. \A v \in Seq(Subscribers) : Renamed(v) \subseteq Subscribers \cup {Nobody}
      <3>1. ASSUME NEW v \in Seq(Subscribers), fwd.i <= Len(v) PROVE v[fwd.i] \in Subscribers
        BY <3>1, LoopFacts, LenProperties
      <3>2. ending.who \in Subscribers \cup {Nobody}
        BY DEF LoopShape, LoopsOK
      <3> QED BY <3>1, <3>2 DEF Renamed
    <2>3. PICK who \in Subscribers \cup {Nobody} :
             ending' = [who |-> who, keys |-> ending.keys \ {t}]
      <3>1. ending.who \in Subscribers \cup {Nobody}
        BY DEF LoopShape, LoopsOK
      <3>2. subscriberByTrack'[t] \in Seq(Subscribers)
        BY <2>1
      <3> QED BY <1>6, <2>2, <3>1, <3>2 DEF EndTrack
    <2>4. UNCHANGED <<pc, fwd, at>> /\ pc = "end"
      BY <1>6 DEF EndTrack
    <2>5. ending.keys \in SUBSET Tracks
      BY DEF LoopShape, LoopsOK
    <2> QED BY <1>0, <2>3, <2>4, <2>5 DEF LoopShape, LoopsOK
  <1>7. CASE EndDone
    <2>1. ending' = [who |-> Nobody, keys |-> {}] /\ pc' = "flushForward" /\ pc = "end"
          /\ UNCHANGED <<fwd, at>>
      BY <1>7 DEF EndDone, NoEnding
    <2> QED BY <1>0, <2>1 DEF LoopShape, LoopsOK
  <1>8. CASE ForwardDone
    <2>1. (CHOOSE t \in Tracks : TRUE) \in Tracks
      BY RelayAssumption
    <2>2. 0 \in 0 .. MaxGroups - 1
      BY RelayAssumption
    <2>3. /\ fwd' = [track |-> CHOOSE t \in Tracks : TRUE, group |-> 0, obj |-> 0,
                     pos |-> 0, age |-> 0, i |-> 1, n |-> 0]
          /\ pc' = "idle" /\ UNCHANGED <<ending, at>>
      BY <1>8 DEF ForwardDone, NoObject, ends
    <2> HIDE DEF ShapeInv
    <2> DEFINE tk == CHOOSE t \in Tracks : TRUE
    <2>4. tk \in Tracks /\ fwd' = [track |-> tk, group |-> 0, obj |-> 0,
                     pos |-> 0, age |-> 0, i |-> 1, n |-> 0]
      BY <2>1, <2>3
    <2> HIDE DEF tk
    <2>5. /\ fwd' \in [track : Tracks, group : 0 .. MaxGroups - 1, obj : Nat, pos : Nat,
                       age : Nat, i : Nat, n : Nat]
          /\ fwd'.i # 0
      BY <2>2, <2>4
    <2> QED BY <1>0, <2>3, <2>5 DEF LoopShape, LoopsOK, ShapeInv
  <1>9. CASE EndFlush
    <2>1. /\ at' = Nobody /\ ending' = ending
          /\ \/ pc' = "forward" /\ fwd' = [fwd EXCEPT !.i = @ + 1]
             \/ pc' = "idle" /\ fwd' = fwd
      BY <1>9 DEF EndFlush, ends
    <2> QED BY <1>0, <1>3, <2>1 DEF LoopShape, LoopsOK
  <1>10. ASSUME NEW s \in Subscribers, QuicDrain(s) PROVE LoopShape'
    BY <1>0, <1>10 DEF QuicDrain, LoopShape, LoopsOK, ends
  <1>11. ASSUME NEW t, NEW g, <<t, g>> \in Subgroups, NEW a \in {0, AgeCap(t)},
                OnObjectFrame(t, g, a)
         PROVE  LoopShape'
    <2>1. t \in Tracks /\ g \in 0 .. MaxGroups - 1 /\ DeliveryTimeout[t] \in Nat
      BY <1>11, RelayAssumption DEF Subgroups
    <2>2. a \in Nat
      BY <1>11, <2>1, RelayAssumption DEF AgeCap
    <2>3. received[<<t, g>>] \in Nat /\ arrived \in Nat /\ Len(subscriberByTrack[t]) \in Nat
      BY <1>11, <2>1, LenProperties DEF ControlOK
    <2>4. /\ pc' = "forward" /\ UNCHANGED <<ending, at>>
          /\ fwd' = [track |-> t, group |-> g, obj |-> received[<<t, g>>],
                     pos |-> arrived, age |-> a, i |-> 1, n |-> Len(subscriberByTrack[t])]
      BY <1>11 DEF OnObjectFrame, ends
    <2>5. /\ fwd' \in [track : Tracks, group : 0 .. MaxGroups - 1, obj : Nat, pos : Nat,
                       age : Nat, i : Nat, n : Nat]
          /\ fwd'.i # 0
      BY <2>1, <2>2, <2>3, <2>4
    <2> QED BY <1>0, <2>4, <2>5 DEF LoopShape, LoopsOK
  <1>12. CASE \E a \in {0, AgeCap(fwd.track)} : NextInPacket(a)
    BY <1>11, <1>12, LoopFacts DEF NextInPacket, FwdSubgroup
  <1>13. CASE \E g \in Subgroups : \E a \in {0, AgeCap(g[1])} : ObjectArrives(g[1], g[2], a)
    <2>1. PICK g \in Subgroups : \E a \in {0, AgeCap(g[1])} : ObjectArrives(g[1], g[2], a)
      BY <1>13
    <2>2. <<g[1], g[2]>> \in Subgroups
      BY DEF Subgroups
    <2> QED BY <1>11, <2>1, <2>2 DEF ObjectArrives
  <1> QED BY <1>2, <1>4, <1>5, <1>6, <1>7, <1>8, <1>9, <1>10, <1>12, <1>13
          DEF Next, Application, Peers, FlushStep

\* Every step keeps the types of the connections.
LEMMA TransportNext ==
  ASSUME ShapeInv, Next
  PROVE  TransportOK'
  <1> USE DEF ShapeInv
  <1>1. CASE UNCHANGED <<blocked, checkTimer, conn>> /\ quicBytesThisEvent' = quicBytesThisEvent
    BY <1>1 DEF TransportOK
  <1>2. ASSUME UNCHANGED <<blocked, checkTimer, conn>>, SameInstant \/ NewInstant
        PROVE  TransportOK'
    BY <1>2 DEF TransportOK, SameInstant, NewInstant
  <1>3. CASE \/ SkipSubscriber \/ EndDone \/ ForwardDone \/ EndFlush
             \/ \E s \in Subscribers : RefuseObject(s) \/ ForwardObject(s)
             \/ \E a \in {0, AgeCap(fwd.track)} : NextInPacket(a)
             \/ \E p \in buffer : DropWithSubgroup(p)
    <2>1. UNCHANGED <<blocked, checkTimer, conn>> /\ quicBytesThisEvent' = quicBytesThisEvent
      BY <1>3 DEF SkipSubscriber, EndDone, ForwardDone, RefuseObject, ForwardObject,
         EndFlush, NextInPacket, OnObjectFrame, DropWithSubgroup
    <2> QED BY <1>1, <2>1
  <1>4. CASE \/ \E t \in Tracks : Announce(t)
             \/ \E s \in Subscribers, t \in Tracks : Subscribe(s, t)
             \/ \E g \in Subgroups : \E a \in {0, AgeCap(g[1])} : ObjectArrives(g[1], g[2], a)
             \/ \E p \in Publishers : ClosePublisher(p)
    <2>1. UNCHANGED <<blocked, checkTimer, conn>> /\ (SameInstant \/ NewInstant)
      BY <1>4 DEF Announce, Subscribe, ObjectArrives, OnObjectFrame, ClosePublisher
    <2> QED BY <1>2, <2>1
  <1>5. ASSUME NEW t \in Tracks, EndTrackDownstream(t) \/ EndTrack(t) PROVE TransportOK'
    <2>1. conn' \in [Subscribers -> Quic!Connections]
      BY <1>5, EndEffect DEF EndTrackDownstream, EndTrack
    <2>2. quicBytesThisEvent' \in [Subscribers -> Nat] /\ UNCHANGED <<blocked, checkTimer>>
      BY <1>5 DEF EndTrackDownstream, EndTrack, SameInstant, NewInstant, TransportOK
    <2> QED BY <2>1, <2>2 DEF TransportOK
  <1>6. ASSUME NEW p \in buffer, DropStale(p) PROVE TransportOK'
    <2>1. at \in Subscribers /\ conn[at] \in Quic!Connections
      BY <1>6 DEF DropStale, LoopShape, LoopsOK, TransportOK
    <2> DEFINE S == {d[2] : d \in TornBy(p)}
    <2>2. S \in SUBSET Subgroups
      BY ItemFacts DEF TornBy
    <2> HIDE DEF S
    <2>3. Quic!ResetStreams(conn[at], S) \in Quic!Connections
      BY <2>1, <2>2, Quic!ResetAsked
    <2>4. conn' = [conn EXCEPT ![at] = Quic!ResetStreams(conn[at], S)]
          /\ UNCHANGED <<blocked, checkTimer>> /\ quicBytesThisEvent' = quicBytesThisEvent
      BY <1>6 DEF DropStale, S
    <2> QED BY <2>3, <2>4 DEF TransportOK
  <1>7. ASSUME NEW p \in buffer, WriteChunk(p) PROVE TransportOK'
    <2>1. PICK n \in Nat :
            /\ conn' = [conn EXCEPT ![at] = Quic!SendData(conn[at], Subgroup(p), n)]
            /\ quicBytesThisEvent' = [quicBytesThisEvent EXCEPT ![at] = @ + n]
      BY <1>7, WriteEffect
    <2>2. at \in Subscribers /\ conn[at] \in Quic!Connections
      BY <1>7 DEF WriteChunk, LoopShape, LoopsOK, TransportOK
    <2>3. Quic!SendData(conn[at], Subgroup(p), n) \in Quic!Connections
      BY <2>2, ItemFacts, Quic!DataSent
    <2>4. quicBytesThisEvent' \in [Subscribers -> Nat] /\ conn' \in [Subscribers -> Quic!Connections]
      BY <2>1, <2>2, <2>3 DEF TransportOK
    <2>5. UNCHANGED <<blocked, checkTimer>>
      BY <1>7 DEF WriteChunk
    <2> QED BY <2>4, <2>5 DEF TransportOK
  <1>8. ASSUME NEW s \in Subscribers, QuicFullOrRejected(s) \/ QuicDrain(s) PROVE TransportOK'
    <2>1. Quic!TakeIndication(conn[s]) \in Quic!Connections
      BY <1>8, Quic!TakeIndicationType DEF QuicFullOrRejected, QuicDrain, TransportOK
    <2>2. conn' = [conn EXCEPT ![s] = Quic!TakeIndication(conn[s])]
          /\ UNCHANGED checkTimer /\ quicBytesThisEvent' = quicBytesThisEvent
      BY <1>8 DEF QuicFullOrRejected, QuicDrain
    <2>3. blocked' \in [Subscribers -> BOOLEAN]
      BY <1>8 DEF QuicFullOrRejected, QuicDrain, Unblocked, TransportOK
    <2> QED BY <2>1, <2>2, <2>3 DEF TransportOK
  <1>9. ASSUME NEW s \in Subscribers, QuicHandleRequest(s) PROVE TransportOK'
    <2>1. Quic!HandleRequest(conn[s]) \in Quic!Connections
      BY <1>9, RelayLimits, Quic!HandleRequestType DEF QuicHandleRequest, TransportOK
    <2> QED BY <1>9, <2>1 DEF QuicHandleRequest, TransportOK
  <1>10. ASSUME NEW s \in Subscribers, NEW g \in Subgroups, QuicAck(s, g) PROVE TransportOK'
    <2>1. Quic!Acknowledge(conn[s], g) \in Quic!Connections
      BY <1>10, Quic!AcknowledgeType DEF QuicAck, TransportOK
    <2> QED BY <1>10, <2>1 DEF QuicAck, NewInstant, TransportOK
  <1>11. ASSUME NEW s \in Subscribers, CloseSubscriber(s) PROVE TransportOK'
    BY <1>11, RelayLimits, Quic!FreshOccupancy DEF CloseSubscriber, NewInstant, TransportOK
  <1>12. CASE CheckFires
    BY <1>12 DEF CheckFires, TransportOK, Off
  <1>13. CASE Tick
    <2>1. checkTimer' \in {Off} \cup (0 .. CheckInterval)
      BY <1>13, RelayAssumption DEF Tick, TransportOK, Off
    <2> QED BY <1>13, <2>1 DEF Tick, NewInstant, TransportOK
  <1> QED BY <1>3, <1>4, <1>5, <1>6, <1>7, <1>8, <1>9, <1>10, <1>11, <1>12, <1>13
          DEF Next, Application, Peers, FlushStep

\* The program starts in that shape.
LEMMA ShapeInit == Init => ShapeInv
  <1> SUFFICES ASSUME Init PROVE ShapeInv
    OBVIOUS
  <1>1. ControlOK
    BY RelayAssumption DEF Init, ControlOK
  <1>2. BufferShape
    BY FS_EmptySet DEF Init, BufferShape
  <1>3. StreamShape
    BY DEF Init, StreamShape
  <1>4. CountersOK
    BY DEF Init, CountersOK
  <1>5. LoopShape
    <2> DEFINE tk == CHOOSE t \in Tracks : TRUE
    <2>1. tk \in Tracks
      BY RelayAssumption
    <2>2. /\ pc = "idle" /\ at = Nobody /\ ending = [who |-> Nobody, keys |-> {}]
          /\ fwd = [track |-> tk, group |-> 0, obj |-> 0, pos |-> 0, age |-> 0, i |-> 1, n |-> 0]
      BY DEF Init, NoEnding, NoObject
    <2> HIDE DEF tk
    <2>3. 0 \in 0 .. MaxGroups - 1
      BY RelayAssumption
    <2> QED BY <2>1, <2>2, <2>3 DEF LoopShape, LoopsOK, Flushing
  <1>6. TransportOK
    BY RelayLimits, Quic!FreshOccupancy, RelayAssumption DEF Init, TransportOK
  <1> QED BY <1>1, <1>2, <1>3, <1>4, <1>5, <1>6 DEF ShapeInv

\* A step that changes no variable keeps it.
LEMMA ShapeKept == ShapeInv /\ UNCHANGED vars => ShapeInv'
  BY DEF ShapeInv, ControlOK, BufferShape, StreamShape, CountersOK, LoopShape, LoopsOK, Flushing,
     TransportOK, vars, control, queues, charges, ends, history, arrivals

\* Every variable keeps its shape, whatever the peers and QUIC do.
LEMMA ShapeInvariant == Spec => []ShapeInv
  <1>1. ShapeInv /\ [Next]_vars => ShapeInv'
    <2> SUFFICES ASSUME ShapeInv, [Next]_vars PROVE ShapeInv'
      OBVIOUS
    <2>1. CASE Next
      <3> QED BY <2>1, ControlNext, BufferNext, StreamNext, CountersNext, LoopNext, TransportNext
              DEF ShapeInv
    <2>2. CASE UNCHANGED vars
      BY <2>2, ShapeKept
    <2> QED BY <2>1, <2>2
  <1> QED BY <1>1, ShapeInit, PTL DEF Spec

-----------------------------------------------------------------------------
(* Who is registered.                                                      *)

\* Every step keeps the registrations.
LEMMA RegisteredNext ==
  ASSUME ShapeInv, RegisteredInv, Next
  PROVE  RegisteredInv'
  <1> USE DEF ShapeInv
  <1>1. ASSUME UNCHANGED <<subscriberByTrack, subscribed, subscriberSockets>>,
               \A q \in buffer' : \E p \in buffer : q.sub = p.sub /\ q.track = p.track
        PROVE  RegisteredInv'
    BY <1>1 DEF RegisteredInv
  <1>2. ASSUME UNCHANGED <<subscriberByTrack, subscribed, subscriberSockets>>,
               buffer' \subseteq buffer
        PROVE  RegisteredInv'
    BY <1>1, <1>2
  <1>3. CASE \/ SkipSubscriber \/ EndDone \/ ForwardDone \/ EndFlush \/ CheckFires
             \/ \E s \in Subscribers : RefuseObject(s)
             \/ \E s \in Subscribers : QuicFullOrRejected(s) \/ QuicDrain(s) \/ QuicHandleRequest(s)
             \/ \E s \in Subscribers, g \in Subgroups : QuicAck(s, g)
             \/ \E t \in Tracks : Announce(t)
             \/ \E a \in {0, AgeCap(fwd.track)} : NextInPacket(a)
             \/ \E g \in Subgroups : \E a \in {0, AgeCap(g[1])} : ObjectArrives(g[1], g[2], a)
             \/ \E p \in Publishers : ClosePublisher(p)
             \/ \E p \in buffer : DropWithSubgroup(p) \/ DropStale(p)
    <2>1. UNCHANGED <<subscriberByTrack, subscribed, subscriberSockets>> /\ buffer' \subseteq buffer
      BY <1>3 DEF SkipSubscriber, EndDone, ForwardDone, CheckFires, queues, control,
         RefuseObject, QuicFullOrRejected, QuicDrain, QuicHandleRequest, QuicAck,
         EndFlush, Announce, NextInPacket, ObjectArrives, OnObjectFrame, ClosePublisher,
         DropWithSubgroup, DropStale
    <2> QED BY <1>2, <2>1
  <1>4. ASSUME NEW t \in Tracks, EndTrackDownstream(t) \/ EndTrack(t) PROVE RegisteredInv'
    <2>1. PICK S, status : EndSubscriberTrack(S, t, status)
      BY <1>4 DEF EndTrackDownstream, EndTrack
    <2> DEFINE v == subscriberByTrack[t]
               w == Erased(v, Live(S))
    <2>2. /\ buffer' = buffer \ Gone(S, t)
          /\ subscriberByTrack' = [subscriberByTrack EXCEPT ![t] = w]
          /\ UNCHANGED <<subscribed, subscriberSockets>>
      BY <1>4, <2>1, EndEffect DEF EndTrackDownstream, EndTrack, control
    <2>3. v \in Seq(Subscribers)
      BY DEF ControlOK
    <2>4. Range(w) = Range(v) \ Live(S) /\ (Distinct(v) => Distinct(w))
      BY <2>3, ErasedFacts
    <2> HIDE DEF w
    <2>5. subscriberByTrack'[t] = w /\ \A u \in Tracks \ {t} : subscriberByTrack'[u] = subscriberByTrack[u]
      BY <2>2 DEF ControlOK
    <2>6. ASSUME NEW u \in Tracks
          PROVE  /\ Distinct(subscriberByTrack'[u])
                 /\ \A s \in Range(subscriberByTrack'[u]) : <<s, u>> \in subscribed'
      BY <2>2, <2>4, <2>5 DEF RegisteredInv
    <2>7. ASSUME NEW p \in buffer'
          PROVE  p.sub \in subscriberSockets' /\ p.sub \in Range(subscriberByTrack'[p.track])
      <3>1. p \in buffer /\ p \notin Gone(S, t)
        BY <2>2, <2>7
      <3>2. p.sub \in subscriberSockets /\ p.sub \in Range(subscriberByTrack[p.track])
            /\ p.track \in Tracks
        BY <3>1, ItemFacts DEF RegisteredInv
      <3>3. p.track = t => p.sub \notin Live(S)
        BY <3>1 DEF Gone, Abandoned
      <3> QED BY <2>2, <2>4, <2>5, <3>2, <3>3
    <2>8. (\A u \in Tracks : /\ Distinct(subscriberByTrack[u])
                             /\ \A s \in Range(subscriberByTrack[u]) : <<s, u>> \in subscribed)'
      BY <2>6
    <2> QED BY <2>7, <2>8 DEF RegisteredInv
  <1>5. ASSUME NEW s \in Subscribers, NEW t \in Tracks, Subscribe(s, t) PROVE RegisteredInv'
    <2> DEFINE v == subscriberByTrack[t]
               w == Append(v, s)
    <2>1. /\ subscriberByTrack' = [subscriberByTrack EXCEPT ![t] = w]
          /\ subscribed' = subscribed \cup {<<s, t>>} /\ <<s, t>> \notin subscribed
          /\ subscriberSockets' = subscriberSockets \cup {s} /\ buffer' = buffer
      BY <1>5 DEF Subscribe, queues
    <2>2. v \in Seq(Subscribers)
      BY DEF ControlOK
    <2>3. /\ DOMAIN v = 1 .. Len(v) /\ DOMAIN w = 1 .. Len(v) + 1 /\ Len(v) \in Nat
          /\ w[Len(v) + 1] = s /\ \A i \in 1 .. Len(v) : w[i] = v[i]
      BY <2>2, LenProperties, AppendProperties
    <2>4. Range(w) = Range(v) \cup {s}
      BY <2>3 DEF Range
    <2>5. Distinct(v) /\ s \notin Range(v)
      BY <2>1 DEF RegisteredInv
    <2>6. Distinct(w)
      <3> SUFFICES ASSUME NEW i \in DOMAIN w, NEW j \in DOMAIN w, w[i] = w[j] PROVE i = j
        BY DEF Distinct
      <3>1. \A k \in 1 .. Len(v) : v[k] # s
        BY <2>3, <2>5 DEF Range
      <3>2. CASE i = Len(v) + 1 \/ j = Len(v) + 1
        BY <2>3, <3>1, <3>2
      <3>3. CASE i # Len(v) + 1 /\ j # Len(v) + 1
        <4>1. i \in DOMAIN v /\ j \in DOMAIN v /\ v[i] = v[j]
          BY <2>3, <3>3
        <4> QED BY <2>5, <4>1 DEF Distinct
      <3> QED BY <3>2, <3>3
    <2> HIDE DEF w
    <2>7. subscriberByTrack'[t] = w /\ \A u \in Tracks \ {t} : subscriberByTrack'[u] = subscriberByTrack[u]
      BY <2>1 DEF ControlOK
    <2>8. ASSUME NEW u \in Tracks
          PROVE  /\ Distinct(subscriberByTrack'[u])
                 /\ \A x \in Range(subscriberByTrack'[u]) : <<x, u>> \in subscribed'
      BY <2>1, <2>4, <2>6, <2>7 DEF RegisteredInv
    <2>9. ASSUME NEW p \in buffer'
          PROVE  p.sub \in subscriberSockets' /\ p.sub \in Range(subscriberByTrack'[p.track])
      BY <2>1, <2>4, <2>7, ItemFacts DEF RegisteredInv
    <2>10. (\A u \in Tracks : /\ Distinct(subscriberByTrack[u])
                              /\ \A x \in Range(subscriberByTrack[u]) : <<x, u>> \in subscribed)'
      BY <2>8
    <2> QED BY <2>9, <2>10 DEF RegisteredInv
  <1>6. ASSUME NEW p \in buffer, WriteChunk(p) PROVE RegisteredInv'
    <2>1. UNCHANGED <<subscriberByTrack, subscribed, subscriberSockets>>
      BY <1>6 DEF WriteChunk, control
    <2>2. PICK n \in Nat \ {0}, next \in Items :
             /\ next.track = p.track /\ next.sub = p.sub
             /\ buffer' = buffer \ {p} \/ buffer' = (buffer \ {p}) \cup {next}
      BY <1>6, WriteEffect
    <2> QED BY <1>1, <2>1, <2>2
  <1>7. ASSUME NEW s \in Subscribers, ForwardObject(s) PROVE RegisteredInv'
    <2>1. /\ buffer' = buffer \cup {FwdItem(s)}
          /\ UNCHANGED <<subscriberByTrack, subscribed, subscriberSockets>>
          /\ s \in subscriberSockets /\ Forwarding(s)
      BY <1>7 DEF ForwardObject, FwdItem, control
    <2>2. s \in Range(subscriberByTrack[fwd.track])
      BY <2>1, ReachedFacts
    <2> QED BY <2>1, <2>2, FwdItemFacts DEF RegisteredInv
  <1>8. ASSUME NEW s \in Subscribers, CloseSubscriber(s) PROVE RegisteredInv'
    BY <1>8 DEF CloseSubscriber, Queue, RegisteredInv
  <1>9. CASE Tick
    BY <1>1, <1>9, OlderFacts DEF Tick, BufferShape, control
  <1> QED BY <1>3, <1>4, <1>5, <1>6, <1>7, <1>8, <1>9 DEF Next, Application, Peers, FlushStep

\* A vector of subscribers names none twice, and whatever is queued is for a subscriber
\* that is connected and registered for its track.
LEMMA RegisteredInvariant == Spec => []RegisteredInv
  <1>1. Init => RegisteredInv
    BY DEF Init, RegisteredInv, Distinct, Range
  <1>2. ShapeInv /\ RegisteredInv /\ [Next]_vars => RegisteredInv'
    <2>1. RegisteredInv /\ UNCHANGED vars => RegisteredInv'
      BY DEF RegisteredInv, vars, control, queues
    <2> QED BY <2>1, RegisteredNext
  <1> QED BY <1>1, <1>2, ShapeInvariant, PTL DEF Spec

\* Only a slice being written changes what is on a stream.
LEMMA WireKept ==
  ASSUME [Next]_vars
  PROVE  wire' = wire \/ \E p \in buffer : WriteChunk(p)
  <1>1. CASE UNCHANGED vars
    BY <1>1 DEF vars
  <1>2. CASE Next
    BY <1>2 DEF Next, Application, Peers, FlushStep, SkipSubscriber, EndDone, ForwardDone, CheckFires,
       Tick, RefuseObject, QuicFullOrRejected, QuicDrain, QuicHandleRequest, QuicAck,
       EndFlush, Announce, Subscribe, NextInPacket, ObjectArrives, OnObjectFrame, ClosePublisher,
       CloseSubscriber, ForwardObject, DropWithSubgroup, DropStale, EndTrack, EndTrackDownstream
  <1> QED BY <1>1, <1>2

\* endSubscriberTrack is final: nothing of a track is written to a subscriber that is no
\* longer registered for it.
THEOREM QuietAfterDone == Spec => NothingAfterDone
  <1> DEFINE Step == \A d \in DownSubgroups :
                wire'[d] # wire[d] => d[1] \in Range(subscriberByTrack[d[2][1]])
  <1>1. ShapeInv /\ RegisteredInv /\ [Next]_vars => [Step]_vars
    <2> SUFFICES ASSUME ShapeInv, RegisteredInv, [Next]_vars,
                        NEW d \in DownSubgroups, wire'[d] # wire[d]
                 PROVE  d[1] \in Range(subscriberByTrack[d[2][1]])
      OBVIOUS
    <2>1. PICK p \in buffer : WriteChunk(p)
      BY WireKept
    <2>2. BufferShape /\ StreamShape
      BY DEF ShapeInv
    <2>3. d = Down(p)
      BY <2>1, <2>2, WriteEffect DEF StreamShape
    <2> QED BY <2>2, <2>3, ItemFacts DEF RegisteredInv
  <1> QED BY <1>1, ShapeInvariant, RegisteredInvariant, PTL DEF Spec, NothingAfterDone

-----------------------------------------------------------------------------
(* The order of a queue.                                                   *)

\* The keys an object keeps while it is queued.
SameKeys(p, q) ==
  q.sub = p.sub /\ q.track = p.track /\ q.group = p.group /\ q.obj = p.obj /\ q.pos = p.pos

\* A queue whose objects go or change, one by one, stays in order, when nobody new is waiting.
LEMMA OrderKept ==
  ASSUME OrderInv, NEW f, UNCHANGED <<arrived, received>>,
         \A q \in buffer' : \E p \in buffer : q = f[p] /\ SameKeys(p, q),
         Looping' => /\ Looping /\ FwdSubgroup' = FwdSubgroup
                     /\ fwd'.pos = fwd.pos /\ fwd'.obj = fwd.obj /\ Waiting' \subseteq Waiting
  PROVE  OrderInv'
  <1>0. \A p, q : SameKeys(p, q) => Subgroup(q) = Subgroup(p) /\ Down(q) = Down(p)
    BY DEF SameKeys, Subgroup, Down
  <1>1. ASSUME NEW q \in buffer' PROVE q.pos < arrived' /\ q.obj < received'[Subgroup(q)]
    <2>1. PICK p \in buffer : q = f[p] /\ SameKeys(p, q)
      OBVIOUS
    <2> QED BY <1>0, <2>1 DEF OrderInv, SameKeys
  <1>2. ASSUME NEW q \in buffer', NEW r \in buffer'
        PROVE  /\ q.sub = r.sub /\ q.pos = r.pos => q = r
               /\ Down(q) = Down(r) /\ q.pos < r.pos => q.obj < r.obj
    <2>1. PICK p \in buffer : q = f[p] /\ SameKeys(p, q)
      OBVIOUS
    <2>2. PICK o \in buffer : r = f[o] /\ SameKeys(o, r)
      OBVIOUS
    <2> QED BY <1>0, <2>1, <2>2 DEF OrderInv, SameKeys
  <1>3. ASSUME Looping'
        PROVE  (/\ arrived = fwd.pos + 1 /\ received[FwdSubgroup] = fwd.obj + 1
                /\ \A s \in Waiting : \A p \in Queue(s) :
                     p.pos < fwd.pos /\ (Subgroup(p) = FwdSubgroup => p.obj < fwd.obj))'
    <2>1. arrived' = fwd'.pos + 1 /\ received'[FwdSubgroup'] = fwd'.obj + 1
      BY <1>3 DEF OrderInv
    <2>2. ASSUME NEW s \in Waiting', NEW q \in buffer', q.sub = s
          PROVE  q.pos < fwd'.pos /\ (Subgroup(q) = FwdSubgroup' => q.obj < fwd'.obj)
      <3>1. PICK p \in buffer : q = f[p] /\ SameKeys(p, q)
        OBVIOUS
      <3>2. s \in Waiting /\ p \in Queue(s)
        BY <1>3, <2>2, <3>1 DEF Queue, SameKeys
      <3>3. p.pos < fwd.pos /\ (Subgroup(p) = FwdSubgroup => p.obj < fwd.obj)
        BY <1>3, <3>2 DEF OrderInv
      <3> QED BY <1>0, <1>3, <3>1, <3>3 DEF SameKeys
    <2> QED BY <2>1, <2>2 DEF Queue
  <1> QED BY <1>1, <1>2, <1>3 DEF OrderInv

\* The loop goes on, or what it forwards is not touched: nobody new is waiting.
LEMMA WaitingKept ==
  ASSUME ControlOK, LoopShape, subscriberByTrack' = subscriberByTrack,
         \/ fwd' = fwd /\ (pc' = "forward" => pc = "forward")
         \/ fwd' = [fwd EXCEPT !.i = fwd.i + 1]
  PROVE  /\ FwdSubgroup' = FwdSubgroup /\ fwd'.pos = fwd.pos /\ fwd'.obj = fwd.obj
         /\ fwd'.track = fwd.track /\ Waiting' \subseteq Waiting
  <1>1. /\ fwd'.track = fwd.track /\ fwd'.group = fwd.group
        /\ fwd'.pos = fwd.pos /\ fwd'.obj = fwd.obj
        /\ fwd.i \in Nat
        /\ \/ fwd'.i = fwd.i /\ (pc' = "forward" => pc = "forward")
           \/ fwd'.i = fwd.i + 1
    BY DEF LoopShape, LoopsOK
  <1>2. DOMAIN subscriberByTrack[fwd.track] \subseteq Nat
    BY LoopFacts, LenProperties
  <1>3. ASSUME NEW j \in DOMAIN subscriberByTrack[fwd.track],
               j > fwd'.i \/ (j = fwd'.i /\ pc' = "forward")
        PROVE  j > fwd.i \/ (j = fwd.i /\ pc = "forward")
    BY <1>1, <1>2, <1>3
  <1>4. Places' \subseteq Places
    BY <1>1, <1>3 DEF Places
  <1> QED BY <1>1, <1>4 DEF Waiting, FwdSubgroup

\* The object that is forwarded now is for nobody who is still waiting.
LEMMA WaitingOthers ==
  ASSUME ControlOK, LoopShape, RegisteredInv, NEW s \in subscriberSockets, Forwarding(s),
         subscriberByTrack' = subscriberByTrack, fwd' = fwd, pc' # "forward"
  PROVE  Looping /\ s \in Waiting /\ Waiting' \subseteq Waiting \ {s}
  <1> DEFINE v == subscriberByTrack[fwd.track]
  <1>1. pc = "forward" /\ fwd.i \in DOMAIN v /\ s = v[fwd.i] /\ fwd.track \in Tracks
    BY ReachedFacts, LoopFacts
  <1>2. Distinct(v) /\ DOMAIN v \subseteq Nat /\ fwd.i \in Nat
    BY <1>1, LoopFacts, LenProperties DEF RegisteredInv
  <1>3. Waiting' \subseteq Waiting
    BY WaitingKept
  <1>4. s \in Waiting
    BY <1>1 DEF Waiting, Places
  <1>5. s \notin Waiting'
    <2> SUFFICES ASSUME NEW j \in DOMAIN v, j > fwd.i, v[j] = s PROVE FALSE
      BY DEF Waiting, Places
    <2> QED BY <1>1, <1>2 DEF Distinct
  <1> QED BY <1>1, <1>3, <1>4, <1>5 DEF Looping

\* No subscriber moves past the place the loop has reached.
LEMMA WaitingErased ==
  ASSUME ControlOK, LoopShape, NEW t \in Tracks, NEW X,
         subscriberByTrack' = [subscriberByTrack EXCEPT ![t] = Erased(subscriberByTrack[t], X)],
         fwd' = fwd, pc' = pc
  PROVE  FwdSubgroup' = FwdSubgroup /\ Waiting' \subseteq Waiting
  <1> DEFINE v == subscriberByTrack[fwd.track]
  <1>1. fwd.track \in Tracks /\ v \in Seq(Subscribers) /\ DOMAIN v \subseteq Nat /\ fwd.i \in Nat
    BY LoopFacts, LenProperties
  <1>2. CASE fwd.track # t
    <2>1. subscriberByTrack'[fwd.track] = v
      BY <1>1, <1>2 DEF ControlOK
    <2> QED BY <2>1 DEF Waiting, Places, FwdSubgroup
  <1>3. CASE fwd.track = t
    <2> DEFINE w == Erased(v, X)
    <2>1. subscriberByTrack'[fwd.track] = w
      BY <1>3 DEF ControlOK
    <2>2. /\ w \in Seq(Subscribers)
          /\ \A j \in DOMAIN w : \E k \in DOMAIN v : j <= k /\ w[j] = v[k]
      BY <1>1, ErasedFacts
    <2>3. DOMAIN w \subseteq Nat
      BY <2>2, LenProperties
    <2> HIDE DEF w
    <2>4. ASSUME NEW j \in DOMAIN w, j > fwd.i \/ (j = fwd.i /\ pc = "forward")
          PROVE  \E k \in Places : w[j] = v[k]
      <3>1. PICK k \in DOMAIN v : j <= k /\ w[j] = v[k]
        BY <2>2
      <3>2. k > fwd.i \/ (k = fwd.i /\ pc = "forward")
        BY <1>1, <2>3, <2>4, <3>1
      <3> QED BY <3>1, <3>2 DEF Places
    <2>5. Places' = {j \in DOMAIN w : j > fwd.i \/ (j = fwd.i /\ pc = "forward")}
      BY <2>1 DEF Places
    <2>6. Waiting' = {w[j] : j \in Places'}
      BY <2>1 DEF Waiting
    <2>7. Waiting = {v[k] : k \in Places}
      BY DEF Waiting
    <2> QED BY <2>4, <2>5, <2>6, <2>7 DEF FwdSubgroup
  <1> QED BY <1>2, <1>3

\* Every step keeps the order.
LEMMA OrderNext ==
  ASSUME ShapeInv, RegisteredInv, OrderInv, Next
  PROVE  OrderInv'
  <1> USE DEF ShapeInv
  <1>1. ASSUME UNCHANGED <<arrived, received>>, buffer' \subseteq buffer,
               Looping' => /\ Looping /\ FwdSubgroup' = FwdSubgroup
                           /\ fwd'.pos = fwd.pos /\ fwd'.obj = fwd.obj /\ Waiting' \subseteq Waiting
        PROVE  OrderInv'
    <2> DEFINE f == [p \in buffer |-> p]
    <2>1. \A q \in buffer' : \E p \in buffer : q = f[p] /\ SameKeys(p, q)
      BY <1>1 DEF SameKeys
    <2> HIDE DEF f
    <2> QED BY <1>1, <2>1, OrderKept
  <1>2. CASE \/ CheckFires
             \/ \E s \in Subscribers : QuicFullOrRejected(s) \/ QuicDrain(s) \/ QuicHandleRequest(s)
             \/ \E s \in Subscribers, g \in Subgroups : QuicAck(s, g)
             \/ \E t \in Tracks : Announce(t)
             \/ \E s \in Subscribers, t \in Tracks : Subscribe(s, t)
             \/ \E p \in Publishers : ClosePublisher(p)
             \/ \E s \in Subscribers : CloseSubscriber(s)
    <2>1. /\ UNCHANGED <<arrived, received>> /\ buffer' \subseteq buffer
          /\ pc' \in {"idle", "flush"}
      BY <1>2 DEF CheckFires, queues, arrivals, QuicFullOrRejected, QuicDrain, QuicHandleRequest,
         QuicAck, Announce, Subscribe, ClosePublisher, CloseSubscriber, NewInstant
    <2> QED BY <1>1, <2>1 DEF Looping
  <1>3. CASE \/ SkipSubscriber \/ EndDone \/ ForwardDone \/ EndFlush
             \/ \E s \in Subscribers : RefuseObject(s)
             \/ \E p \in buffer : DropWithSubgroup(p) \/ DropStale(p)
    <2>1. UNCHANGED <<arrived, received, subscriberByTrack>> /\ buffer' \subseteq buffer
      BY <1>3 DEF SkipSubscriber, EndDone, ForwardDone, RefuseObject, EndFlush,
         DropWithSubgroup, DropStale, queues, arrivals
    <2>2. CASE SkipSubscriber \/ EndFlush \/ \E s \in Subscribers : RefuseObject(s)
      <3>1. CASE SkipSubscriber \/ \E s \in Subscribers : RefuseObject(s)
        <4>1. pc = "forward" /\ pc' = pc /\ fwd' = [fwd EXCEPT !.i = fwd.i + 1]
          BY <3>1 DEF SkipSubscriber, RefuseObject, Forwarding, NextSubscriber
        <4> QED BY <1>1, <2>1, <4>1, WaitingKept DEF Looping
      <3>2. CASE EndFlush
        <4>1. \/ pc = "flushForward" /\ fwd' = [fwd EXCEPT !.i = fwd.i + 1]
              \/ pc' = "idle"
          BY <3>2 DEF EndFlush, Flushing
        <4> QED BY <1>1, <2>1, <4>1, WaitingKept DEF Looping
      <3> QED BY <2>2, <3>1, <3>2
    <2>3. CASE EndDone \/ ForwardDone \/ \E p \in buffer : DropWithSubgroup(p) \/ DropStale(p)
      <3>1. \/ fwd' = fwd /\ pc = "end" /\ pc' = "flushForward"
            \/ fwd' = fwd /\ pc' = pc
            \/ pc' = "idle"
        BY <2>3 DEF EndDone, ForwardDone, DropWithSubgroup, DropStale
      <3> QED BY <1>1, <2>1, <3>1, WaitingKept DEF Looping
    <2> QED BY <1>3, <2>2, <2>3
  <1>4. ASSUME NEW t \in Tracks, EndTrackDownstream(t) PROVE OrderInv'
    <2>1. /\ UNCHANGED <<arrived, received>> /\ pc' = "idle"
      BY <1>4 DEF EndTrackDownstream, arrivals, SameInstant, NewInstant
    <2>2. buffer' \subseteq buffer
      BY <1>4, EndEffect DEF EndTrackDownstream
    <2> QED BY <1>1, <2>1, <2>2 DEF Looping
  <1>5. ASSUME NEW t \in Tracks, EndTrack(t) PROVE OrderInv'
    <2>1. EndSubscriberTrack({ending.who}, t, "TOO_FAR_BEHIND")
          /\ UNCHANGED <<arrived, received, pc, fwd>> /\ pc = "end"
      BY <1>5 DEF EndTrack, arrivals
    <2>2. /\ buffer' \subseteq buffer
          /\ subscriberByTrack' = [subscriberByTrack EXCEPT
               ![t] = Erased(subscriberByTrack[t], Live({ending.who}))]
      BY <2>1, EndEffect
    <2>3. FwdSubgroup' = FwdSubgroup /\ Waiting' \subseteq Waiting
      BY <2>1, <2>2, WaitingErased
    <2> QED BY <1>1, <2>1, <2>2, <2>3 DEF Looping
  <1>6. ASSUME NEW p \in buffer, WriteChunk(p) PROVE OrderInv'
    <2>1. PICK n \in Nat \ {0}, next \in Items :
             /\ next.sub = p.sub /\ next.track = p.track /\ next.group = p.group
             /\ next.obj = p.obj /\ next.pos = p.pos
             /\ buffer' = buffer \ {p} \/ buffer' = (buffer \ {p}) \cup {next}
      BY <1>6, WriteEffect
    <2> DEFINE f == [q \in buffer |-> IF q = p THEN next ELSE q]
    <2>2. \A q \in buffer' : \E o \in buffer : q = f[o] /\ SameKeys(o, q)
      BY <2>1 DEF SameKeys
    <2> HIDE DEF f
    <2>3. UNCHANGED <<arrived, received, subscriberByTrack, pc, fwd>>
      BY <1>6 DEF WriteChunk, arrivals
    <2>4. FwdSubgroup' = FwdSubgroup /\ Waiting' \subseteq Waiting
      BY <2>3, WaitingKept
    <2> QED BY <2>2, <2>3, <2>4, OrderKept DEF Looping
  <1>7. CASE Tick
    <2> DEFINE f == [q \in buffer |-> Older(q)]
    <2>1. \A q \in buffer' : \E o \in buffer : q = f[o] /\ SameKeys(o, q)
      <3>1. buffer' = {Older(p) : p \in buffer}
        BY <1>7 DEF Tick
      <3> QED BY <3>1, OlderFacts DEF SameKeys, BufferShape
    <2> HIDE DEF f
    <2>2. UNCHANGED <<arrived, received>> /\ pc' = "idle"
      BY <1>7 DEF Tick, NewInstant, arrivals
    <2> QED BY <2>1, <2>2, OrderKept DEF Looping
  <1>8. ASSUME NEW s \in Subscribers, ForwardObject(s) PROVE OrderInv'
    <2> DEFINE new == FwdItem(s)
    <2>1. /\ buffer' = buffer \cup {new} /\ s \in subscriberSockets /\ Forwarding(s)
          /\ UNCHANGED <<arrived, received, subscriberByTrack, fwd>>
          /\ pc' \in {"end", "flushForward"}
      BY <1>8 DEF ForwardObject, FwdItem, arrivals
    <2>2. Looping /\ s \in Waiting /\ Waiting' \subseteq Waiting \ {s} /\ FwdSubgroup' = FwdSubgroup
      BY <2>1, WaitingOthers DEF FwdSubgroup
    <2>3. /\ arrived = fwd.pos + 1 /\ received[FwdSubgroup] = fwd.obj + 1
          /\ fwd.pos \in Nat /\ fwd.obj \in Nat
      BY <2>2, LoopFacts DEF OrderInv
    <2>4. /\ new.sub = s /\ new.pos = fwd.pos /\ new.obj = fwd.obj
          /\ Subgroup(new) = FwdSubgroup /\ Down(new) = <<s, FwdSubgroup>>
      BY FwdItemFacts
    <2> HIDE DEF new
    <2>5. \A p \in buffer : p.sub = s => p.pos < fwd.pos /\ (Subgroup(p) = FwdSubgroup => p.obj < fwd.obj)
      BY <2>2 DEF OrderInv, Queue
    <2>6. \A p \in buffer : /\ Down(p) = Down(new) <=> p.sub = s /\ Subgroup(p) = FwdSubgroup
                            /\ p.pos \in Nat
      BY <2>4, ItemFacts
    <2>7. ASSUME NEW q \in buffer' PROVE q.pos < arrived' /\ q.obj < received'[Subgroup(q)]
      <3>1. CASE q \in buffer
        BY <2>1, <3>1 DEF OrderInv
      <3>2. CASE q = new
        BY <2>1, <2>3, <2>4, <3>2
      <3> QED BY <2>1, <3>1, <3>2
    <2>8. ASSUME NEW q \in buffer', NEW r \in buffer'
          PROVE  /\ q.sub = r.sub /\ q.pos = r.pos => q = r
                 /\ Down(q) = Down(r) /\ q.pos < r.pos => q.obj < r.obj
      <3>1. CASE q \in buffer /\ r \in buffer
        BY <3>1 DEF OrderInv
      <3>2. CASE q \in buffer /\ r = new
        BY <2>3, <2>4, <2>5, <2>6, <3>2
      <3>3. CASE q = new /\ r \in buffer
        BY <2>3, <2>4, <2>5, <2>6, <3>3
      <3>4. CASE q = new /\ r = new
        BY <2>3, <2>4, <3>4
      <3> QED BY <2>1, <3>1, <3>2, <3>3, <3>4
    <2>9. ASSUME NEW x \in Waiting', NEW q \in buffer', q.sub = x
          PROVE  q.pos < fwd'.pos /\ (Subgroup(q) = FwdSubgroup' => q.obj < fwd'.obj)
      <3>1. q \in buffer /\ x \in Waiting
        BY <2>1, <2>2, <2>4, <2>9
      <3> QED BY <2>1, <2>2, <2>9, <3>1 DEF OrderInv, Queue
    <2> QED BY <2>1, <2>2, <2>3, <2>7, <2>8, <2>9 DEF OrderInv, Queue
  <1>9. ASSUME NEW t, NEW g, <<t, g>> \in Subgroups, NEW a, OnObjectFrame(t, g, a)
        PROVE  OrderInv'
    <2>1. /\ received' = [received EXCEPT ![<<t, g>>] = @ + 1]
          /\ arrived' = arrived + 1 /\ buffer' = buffer
          /\ fwd' = [track |-> t, group |-> g, obj |-> received[<<t, g>>],
                     pos |-> arrived, age |-> a, i |-> 1, n |-> Len(subscriberByTrack[t])]
      BY <1>9 DEF OnObjectFrame, queues
    <2>2. received \in [Subgroups -> Nat] /\ arrived \in Nat
      BY DEF ControlOK
    <2>3. /\ FwdSubgroup' = <<t, g>> /\ fwd'.obj = received[<<t, g>>] /\ fwd'.pos = arrived
          /\ received'[<<t, g>>] = received[<<t, g>>] + 1
      BY <1>9, <2>1, <2>2 DEF FwdSubgroup
    <2>4. \A p \in buffer : p.pos < arrived /\ p.obj < received[Subgroup(p)]
      BY DEF OrderInv
    <2>5. \A p \in buffer : p.pos < arrived' /\ p.obj < received'[Subgroup(p)]
      <3> SUFFICES ASSUME NEW p \in buffer PROVE p.pos < arrived' /\ p.obj < received'[Subgroup(p)]
        OBVIOUS
      <3>1. Subgroup(p) \in Subgroups /\ p.pos \in Nat /\ p.obj \in Nat
        BY ItemFacts
      <3>2. received'[Subgroup(p)] = received[Subgroup(p)]
            \/ received'[Subgroup(p)] = received[Subgroup(p)] + 1
        BY <2>1, <2>2, <3>1
      <3>3. received[Subgroup(p)] \in Nat
        BY <2>2, <3>1
      <3> QED BY <2>1, <2>2, <2>4, <3>1, <3>2, <3>3
    <2>6. /\ \A p, q \in buffer' : p.sub = q.sub /\ p.pos = q.pos => p = q
          /\ \A p, q \in buffer' : Down(p) = Down(q) /\ p.pos < q.pos => p.obj < q.obj
      BY <2>1 DEF OrderInv
    <2> QED BY <2>1, <2>3, <2>4, <2>5, <2>6 DEF OrderInv, Queue
  <1>10. CASE \E a \in {0, AgeCap(fwd.track)} : NextInPacket(a)
    BY <1>9, <1>10, LoopFacts DEF NextInPacket, FwdSubgroup
  <1>11. CASE \E g \in Subgroups : \E a \in {0, AgeCap(g[1])} : ObjectArrives(g[1], g[2], a)
    BY <1>9, <1>11 DEF ObjectArrives, Subgroups
  <1> QED BY <1>2, <1>3, <1>4, <1>5, <1>6, <1>7, <1>8, <1>10, <1>11
          DEF Next, Application, Peers, FlushStep

\* Each queue holds the objects of a subgroup in the order they arrived in, and the loop
\* that forwards an object adds it behind them.
LEMMA OrderInvariant == Spec => []OrderInv
  <1>1. Init => OrderInv
    BY DEF Init, OrderInv, Looping
  <1>2. ShapeInv /\ RegisteredInv /\ OrderInv /\ [Next]_vars => OrderInv'
    <2>1. OrderInv /\ UNCHANGED vars => OrderInv'
      BY DEF OrderInv, Looping, FwdSubgroup, Waiting, Places, Queue, vars, queues, arrivals
    <2> QED BY <2>1, OrderNext
  <1> QED BY <1>1, <1>2, ShapeInvariant, RegisteredInvariant, PTL DEF Spec

-----------------------------------------------------------------------------
(* The ledger: every object offered is accounted for.                      *)

\* The sum of the counters, as the lemmas about sums know it.
LEMMA SumOfCounts == \A f : SumFunction(f) = Quic!SumFunctionOnSet(f, DOMAIN f)
  BY DEF SumFunction, SumFunctionOnSet, FoldFunctionOnSet, MapThenFoldSet,
         Quic!SumFunctionOnSet, Quic!FoldFunctionOnSet, Quic!MapThenFoldSet

\* A sum of counters is a number.
LEMMA CountsType ==
  ASSUME NEW S, IsFiniteSet(S), NEW f \in [S -> Nat]
  PROVE  /\ Quic!IsFiniteSet(S) /\ SumFunction(f) = Quic!SumFunctionOnSet(f, S)
         /\ SumFunction(f) \in Nat
  <1>1. Quic!IsFiniteSet(S)
    BY DEF IsFiniteSet, Quic!IsFiniteSet
  <1> QED BY <1>1, SumOfCounts, Quic!SumNat

\* A sum grows by what one of its counters grows by.
LEMMA CountsAdded ==
  ASSUME NEW S, IsFiniteSet(S), NEW f \in [S -> Nat], NEW g \in [S -> Nat], NEW c \in S,
         NEW k \in Nat, g[c] = f[c] + k, \A x \in S \ {c} : f[x] = g[x]
  PROVE  SumFunction(g) = SumFunction(f) + k
  <1>1. \A x \in S : f[x] \in Int /\ g[x] \in Int
    OBVIOUS
  <1>2. Quic!SumFunctionOnSet(g, S) = Quic!SumFunctionOnSet(f, S) - f[c] + g[c]
    BY <1>1, CountsType, Quic!SumChange
  <1> QED BY <1>1, <1>2, CountsType

\* What the ledger charges, for one reason or the other.
Settlements == SumFunction(forward_count) + SumFunction(relayShedStale)
                 + SumFunction(relayShedOverflow) + lostAtClose

\* What the ledger adds up are numbers.
LEMMA LedgerTypes ==
  ASSUME BufferShape, CountersOK
  PROVE  /\ Settlements \in Nat /\ offered \in Nat /\ Cardinality(buffer) \in Nat
         /\ SumFunction(forward_count) \in Nat /\ SumFunction(relayShedStale) \in Nat
         /\ SumFunction(relayShedOverflow) \in Nat /\ lostAtClose \in Nat
  <1>1. /\ SumFunction(forward_count) \in Nat /\ SumFunction(relayShedStale) \in Nat
        /\ SumFunction(relayShedOverflow) \in Nat /\ lostAtClose \in Nat /\ offered \in Nat
    BY CountsType, RelayLimits DEF CountersOK
  <1>2. Cardinality(buffer) \in Nat
    BY FS_CardinalityType DEF BufferShape
  <1> QED BY <1>1, <1>2 DEF Settlements

\* One more for one reason, k of them.
LEMMA OneSettled ==
  ASSUME BufferShape, CountersOK, NEW k \in Nat,
         \/ /\ \E s \in Subscribers : forward_count' = [forward_count EXCEPT ![s] = @ + k]
            /\ UNCHANGED <<relayShedStale, relayShedOverflow, lostAtClose>>
         \/ /\ \E t \in Tracks : relayShedStale' = [relayShedStale EXCEPT ![t] = @ + k]
            /\ UNCHANGED <<forward_count, relayShedOverflow, lostAtClose>>
         \/ /\ \E t \in Tracks : relayShedOverflow' = [relayShedOverflow EXCEPT ![t] = @ + k]
            /\ UNCHANGED <<forward_count, relayShedStale, lostAtClose>>
         \/ /\ lostAtClose' = lostAtClose + k
            /\ UNCHANGED <<forward_count, relayShedStale, relayShedOverflow>>
  PROVE  Settlements' = Settlements + k
  <1>0. /\ SumFunction(forward_count) \in Nat /\ SumFunction(relayShedStale) \in Nat
        /\ SumFunction(relayShedOverflow) \in Nat /\ lostAtClose \in Nat
    BY LedgerTypes
  <1>1. CASE /\ \E s \in Subscribers : forward_count' = [forward_count EXCEPT ![s] = @ + k]
             /\ UNCHANGED <<relayShedStale, relayShedOverflow, lostAtClose>>
    <2>1. SumFunction(forward_count') = SumFunction(forward_count) + k
      <3>1. PICK c \in Subscribers : forward_count' = [forward_count EXCEPT ![c] = @ + k]
        BY <1>1
      <3>2. forward_count \in [Subscribers -> Nat] /\ IsFiniteSet(Subscribers)
        BY RelayLimits DEF CountersOK
      <3>3. /\ forward_count' \in [Subscribers -> Nat] /\ forward_count'[c] = forward_count[c] + k
            /\ \A x \in Subscribers \ {c} : forward_count[x] = forward_count'[x]
        BY <3>1, <3>2
      <3> QED BY <3>2, <3>3, CountsAdded
    <2> QED BY <1>0, <1>1, <2>1 DEF Settlements
  <1>2. CASE /\ \E t \in Tracks : relayShedStale' = [relayShedStale EXCEPT ![t] = @ + k]
             /\ UNCHANGED <<forward_count, relayShedOverflow, lostAtClose>>
    <2>1. SumFunction(relayShedStale') = SumFunction(relayShedStale) + k
      <3>1. PICK c \in Tracks : relayShedStale' = [relayShedStale EXCEPT ![c] = @ + k]
        BY <1>2
      <3>2. relayShedStale \in [Tracks -> Nat] /\ IsFiniteSet(Tracks)
        BY RelayLimits DEF CountersOK
      <3>3. /\ relayShedStale' \in [Tracks -> Nat] /\ relayShedStale'[c] = relayShedStale[c] + k
            /\ \A x \in Tracks \ {c} : relayShedStale[x] = relayShedStale'[x]
        BY <3>1, <3>2
      <3> QED BY <3>2, <3>3, CountsAdded
    <2> QED BY <1>0, <1>2, <2>1 DEF Settlements
  <1>3. CASE /\ \E t \in Tracks : relayShedOverflow' = [relayShedOverflow EXCEPT ![t] = @ + k]
             /\ UNCHANGED <<forward_count, relayShedStale, lostAtClose>>
    <2>1. SumFunction(relayShedOverflow') = SumFunction(relayShedOverflow) + k
      <3>1. PICK c \in Tracks : relayShedOverflow' = [relayShedOverflow EXCEPT ![c] = @ + k]
        BY <1>3
      <3>2. relayShedOverflow \in [Tracks -> Nat] /\ IsFiniteSet(Tracks)
        BY RelayLimits DEF CountersOK
      <3>3. /\ relayShedOverflow' \in [Tracks -> Nat] /\ relayShedOverflow'[c] = relayShedOverflow[c] + k
            /\ \A x \in Tracks \ {c} : relayShedOverflow[x] = relayShedOverflow'[x]
        BY <3>1, <3>2
      <3> QED BY <3>2, <3>3, CountsAdded
    <2> QED BY <1>0, <1>3, <2>1 DEF Settlements
  <1>4. CASE /\ lostAtClose' = lostAtClose + k
             /\ UNCHANGED <<forward_count, relayShedStale, relayShedOverflow>>
    <2> QED BY <1>0, <1>4 DEF Settlements
  <1> QED BY <1>1, <1>2, <1>3, <1>4

\* The subscriber an object is forwarded to was waiting.
LEMMA WaitingNow ==
  ASSUME ControlOK, LoopShape, NEW s \in subscriberSockets, Forwarding(s)
  PROVE  Looping /\ s \in Waiting
  BY ReachedFacts DEF Looping, Waiting, Places

\* Every step keeps the ledger balanced.
LEMMA AccountingNext ==
  ASSUME ShapeInv, OrderInv, Accounting, Next
  PROVE  Accounting'
  <1> USE DEF ShapeInv
  <1>0. /\ offered = Settlements + Cardinality(buffer) /\ pendingForwardCount = Cardinality(buffer)
        /\ Settlements \in Nat /\ offered \in Nat /\ Cardinality(buffer) \in Nat
    BY LedgerTypes DEF Accounting, Settlements
  <1>1. ASSUME offered' = Settlements' + Cardinality(buffer'),
               pendingForwardCount' = Cardinality(buffer')
        PROVE  Accounting'
    BY <1>1 DEF Accounting, Settlements
  <1> HIDE DEF ShapeInv
  <1>2. CASE \/ SkipSubscriber \/ EndDone \/ ForwardDone \/ EndFlush \/ CheckFires
             \/ \E s \in Subscribers : QuicFullOrRejected(s) \/ QuicDrain(s) \/ QuicHandleRequest(s)
             \/ \E s \in Subscribers, g \in Subgroups : QuicAck(s, g)
             \/ \E t \in Tracks : Announce(t)
             \/ \E s \in Subscribers, t \in Tracks : Subscribe(s, t)
             \/ \E a \in {0, AgeCap(fwd.track)} : NextInPacket(a)
             \/ \E g \in Subgroups : \E a \in {0, AgeCap(g[1])} : ObjectArrives(g[1], g[2], a)
             \/ \E p \in Publishers : ClosePublisher(p)
    <2>1. UNCHANGED <<buffer, pendingForwardCount, forward_count, relayShedStale,
                      relayShedOverflow, offered, lostAtClose>>
      BY <1>2 DEF SkipSubscriber, EndDone, ForwardDone, EndFlush, CheckFires, queues, charges,
         history, QuicFullOrRejected, QuicDrain, QuicHandleRequest, QuicAck, Announce, Subscribe,
         NextInPacket, ObjectArrives, OnObjectFrame, ClosePublisher
    <2> QED BY <2>1 DEF Accounting
  <1>3. ASSUME NEW t \in Tracks, EndTrackDownstream(t) \/ EndTrack(t) PROVE Accounting'
    <2>1. PICK S, status : EndSubscriberTrack(S, t, status)
      BY <1>3 DEF EndTrackDownstream, EndTrack
    <2> DEFINE k == Cardinality(Gone(S, t))
    <2>2. /\ buffer' = buffer \ Gone(S, t) /\ pendingForwardCount' = pendingForwardCount - k
          /\ relayShedOverflow' = [relayShedOverflow EXCEPT ![t] = @ + k]
          /\ UNCHANGED <<forward_count, relayShedStale, lostAtClose, offered>>
      BY <1>3, <2>1, EndEffect DEF ShapeInv, EndTrackDownstream, EndTrack, history
    <2>3. k \in Nat /\ Cardinality(buffer') = Cardinality(buffer) - k
      BY <2>2, GoneFacts DEF ShapeInv
    <2> HIDE DEF k
    <2>4. Settlements' = Settlements + k
      BY <2>2, <2>3, OneSettled DEF ShapeInv
    <2> QED BY <1>0, <1>1, <2>2, <2>3, <2>4
  <1>4. ASSUME NEW p \in buffer, DropWithSubgroup(p) \/ DropStale(p) PROVE Accounting'
    <2>1. /\ buffer' = buffer \ {p} /\ pendingForwardCount' = pendingForwardCount - 1
          /\ UNCHANGED <<forward_count, lostAtClose, offered>>
      BY <1>4 DEF DropWithSubgroup, DropStale, history
    <2>2. p.track \in Tracks /\ Down(p) \in DownSubgroups
      BY ItemFacts DEF ShapeInv
    <2>3. \E t \in Tracks :
            \/ /\ relayShedOverflow' = [relayShedOverflow EXCEPT ![t] = @ + 1]
               /\ relayShedStale' = relayShedStale
            \/ /\ relayShedStale' = [relayShedStale EXCEPT ![t] = @ + 1]
               /\ relayShedOverflow' = relayShedOverflow
      BY <1>4, <2>2, ChargeFacts DEF DropWithSubgroup, DropStale
    <2>4. Settlements' = Settlements + 1
      BY <2>1, <2>3, OneSettled DEF ShapeInv
    <2>5. Cardinality(buffer') = Cardinality(buffer) - 1
      BY <2>1, FS_RemoveElement DEF ShapeInv, BufferShape
    <2> QED BY <1>0, <1>1, <2>1, <2>4, <2>5
  <1>5. ASSUME NEW p \in buffer, WriteChunk(p) PROVE Accounting'
    <2>1. PICK n \in Nat \ {0}, next \in Items :
             /\ next.sub = p.sub /\ next.pos = p.pos
             /\ \/ /\ buffer' = buffer \ {p}
                   /\ pendingForwardCount' = pendingForwardCount - 1
                   /\ forward_count' = [forward_count EXCEPT ![at] = @ + 1]
                \/ /\ buffer' = (buffer \ {p}) \cup {next}
                   /\ UNCHANGED <<pendingForwardCount, forward_count>>
      BY <1>5, WriteEffect DEF ShapeInv
    <2>2. UNCHANGED <<relayShedStale, relayShedOverflow, lostAtClose, offered>>
      BY <1>5 DEF WriteChunk, charges, history
    <2>3. IsFiniteSet(buffer) /\ Cardinality(buffer \ {p}) = Cardinality(buffer) - 1
          /\ IsFiniteSet(buffer \ {p})
      BY FS_RemoveElement DEF ShapeInv, BufferShape
    <2>4. CASE /\ buffer' = buffer \ {p}
               /\ pendingForwardCount' = pendingForwardCount - 1
               /\ forward_count' = [forward_count EXCEPT ![at] = @ + 1]
      <3>1. at \in Subscribers
        BY <1>5 DEF WriteChunk, ShapeInv, LoopShape, LoopsOK
      <3>2. Settlements' = Settlements + 1
        BY <2>2, <2>4, <3>1, OneSettled DEF ShapeInv
      <3> QED BY <1>0, <1>1, <2>2, <2>3, <2>4, <3>2
    <2>5. CASE /\ buffer' = (buffer \ {p}) \cup {next}
               /\ UNCHANGED <<pendingForwardCount, forward_count>>
      <3>1. next \notin buffer \ {p}
        BY <2>1 DEF OrderInv
      <3>2. Cardinality((buffer \ {p}) \cup {next}) = Cardinality(buffer \ {p}) + 1
        BY <2>3, <3>1, FS_AddElement
      <3>4. Cardinality(buffer') = Cardinality(buffer)
        BY <1>0, <2>3, <2>5, <3>2
      <3>3. Settlements' = Settlements
        BY <2>2, <2>5 DEF Settlements
      <3> QED BY <1>0, <1>1, <2>2, <2>5, <3>4, <3>3
    <2> QED BY <2>1, <2>4, <2>5
  <1>6. ASSUME NEW s \in Subscribers, RefuseObject(s) PROVE Accounting'
    <2>1. /\ UNCHANGED <<buffer, pendingForwardCount, forward_count, lostAtClose>>
          /\ offered' = offered + 1
      BY <1>6 DEF RefuseObject, queues
    <2>2. ChargeToCause(<<s, FwdSubgroup>>) /\ <<s, FwdSubgroup>> \in DownSubgroups
      BY <1>6, LoopFacts DEF RefuseObject, FwdSubgroup, ShapeInv
    <2>3. Settlements' = Settlements + 1
      BY <2>1, <2>2, ChargeFacts, OneSettled DEF ShapeInv
    <2> QED BY <1>0, <1>1, <2>1, <2>3
  <1>7. ASSUME NEW s \in Subscribers, ForwardObject(s) PROVE Accounting'
    <2>1. /\ buffer' = buffer \cup {FwdItem(s)} /\ Forwarding(s)
          /\ pendingForwardCount' = pendingForwardCount + 1 /\ offered' = offered + 1
          /\ UNCHANGED <<forward_count, relayShedStale, relayShedOverflow, lostAtClose>>
      BY <1>7 DEF ForwardObject, FwdItem, charges
    <2>2. \A p \in buffer : p # FwdItem(s)
      <3>1. FwdItem(s).pos = fwd.pos /\ fwd.pos \in Nat /\ FwdItem(s).sub = s
        BY FwdItemFacts, LoopFacts DEF ShapeInv
      <3>2. s \in Waiting /\ Looping
        BY <1>7, WaitingNow DEF ForwardObject, ShapeInv
      <3> QED BY <3>1, <3>2 DEF OrderInv, Queue
    <2>3. Cardinality(buffer') = Cardinality(buffer) + 1
      BY <2>1, <2>2, FS_AddElement DEF ShapeInv, BufferShape
    <2>4. Settlements' = Settlements
      BY <2>1 DEF Settlements
    <2> QED BY <1>0, <1>1, <2>1, <2>3, <2>4
  <1>8. ASSUME NEW s \in Subscribers, CloseSubscriber(s) PROVE Accounting'
    <2> DEFINE k == Cardinality(Queue(s))
    <2>1. /\ buffer' = buffer \ Queue(s) /\ pendingForwardCount' = pendingForwardCount - k
          /\ lostAtClose' = lostAtClose + k
          /\ UNCHANGED <<forward_count, relayShedStale, relayShedOverflow, offered>>
      BY <1>8 DEF CloseSubscriber, Released, charges
    <2>2. k \in Nat /\ Cardinality(buffer') = Cardinality(buffer) - k
      <3>1. buffer \cap Queue(s) = Queue(s) /\ IsFiniteSet(buffer)
        BY DEF Queue, ShapeInv, BufferShape
      <3>2. IsFiniteSet(Queue(s))
        BY <3>1, FS_Subset DEF Queue
      <3>3. Cardinality(Queue(s)) \in Nat
        BY <3>2, FS_CardinalityType
      <3>4. Cardinality(buffer \ Queue(s)) = Cardinality(buffer) - Cardinality(Queue(s))
        BY <3>1, FS_Difference
      <3> QED BY <2>1, <3>3, <3>4
    <2> HIDE DEF k
    <2>3. Settlements' = Settlements + k
      BY <2>1, <2>2, OneSettled DEF ShapeInv
    <2> QED BY <1>0, <1>1, <2>1, <2>2, <2>3
  <1>9. CASE Tick
    <2>1. /\ buffer' = {Older(p) : p \in buffer}
          /\ UNCHANGED <<pendingForwardCount, forward_count, relayShedStale, relayShedOverflow,
                         offered, lostAtClose>>
      BY <1>9 DEF Tick, charges, history
    <2> DEFINE S == {Older(p) : p \in buffer}
               f == [p \in buffer |-> Older(p)]
    <2>2. f \in [buffer -> S] /\ \A x \in S : \E p \in buffer : f[p] = x
      OBVIOUS
    <2>3. \A p, q \in buffer : f[p] = f[q] => p = q
      BY OlderFacts DEF OrderInv, ShapeInv, BufferShape
    <2> HIDE DEF S, f
    <2>4. f \in Bijection(buffer, S)
      BY <2>2, <2>3, Fun_IsBij
    <2>5. Cardinality(S) = Cardinality(buffer)
      BY <2>4, FS_Bijection DEF ExistsBijection, ShapeInv, BufferShape
    <2>6. Settlements' = Settlements
      BY <2>1 DEF Settlements
    <2> QED BY <1>0, <1>1, <2>1, <2>5, <2>6 DEF S
  <1> QED BY <1>2, <1>3, <1>4, <1>5, <1>6, <1>7, <1>8, <1>9
          DEF Next, Application, Peers, FlushStep

\* The counters of finish() balance: each object that reached a subscriber's socket was
\* forwarded, charged to one cause, lost with its connection, or is still queued.
THEOREM LedgerBalances == Spec => []Accounting
  <1>1. Init => Accounting
    <2> SUFFICES ASSUME Init PROVE Accounting
      OBVIOUS
    <2>1. \A S : IsFiniteSet(S) => SumFunction([x \in S |-> 0]) = 0
      <3> SUFFICES ASSUME NEW S, IsFiniteSet(S) PROVE SumFunction([x \in S |-> 0]) = 0
        OBVIOUS
      <3> DEFINE f == [x \in S |-> 0]
      <3>1. Quic!IsFiniteSet(S) /\ DOMAIN f = S /\ \A x \in S : f[x] \in Nat /\ f[x] = 0
        BY DEF IsFiniteSet, Quic!IsFiniteSet
      <3> HIDE DEF f
      <3>2. SumFunction(f) = 0
        BY <3>1, SumOfCounts, Quic!SumZero
      <3> QED BY <3>2 DEF f
    <2>2. /\ SumFunction(forward_count) = 0 /\ SumFunction(relayShedStale) = 0
          /\ SumFunction(relayShedOverflow) = 0
      BY <2>1, RelayLimits DEF Init
    <2> QED BY <2>2, FS_EmptySet DEF Init, Accounting
  <1>2. ShapeInv /\ OrderInv /\ Accounting /\ [Next]_vars => Accounting'
    <2>1. Accounting /\ UNCHANGED vars => Accounting'
      BY DEF Accounting, vars, queues, charges, history
    <2> QED BY <2>1, AccountingNext
  <1> QED BY <1>1, <1>2, ShapeInvariant, OrderInvariant, PTL DEF Spec

\* Every variable has its type; that pendingForwardCount is a number takes the ledger.
THEOREM TypeCorrect == Spec => []TypeOK
  <1>1. ShapeInv /\ Accounting => TypeOK
    <2> SUFFICES ASSUME ShapeInv, Accounting PROVE TypeOK
      OBVIOUS
    <2>1. pendingForwardCount \in Nat
      BY LedgerTypes DEF Accounting, ShapeInv
    <2> QED BY <2>1 DEF TypeOK, QueuesOK, ShapeInv, BufferShape, StreamShape, LoopShape
  <1> QED BY <1>1, ShapeInvariant, LedgerBalances, PTL

-----------------------------------------------------------------------------
(* The connections: what a step asks of QUIC, and what QUIC does.          *)

\* What may happen to the connection of s in a step: the relay asks for resets and
\* control frames, writes a slice or takes an indication, QUIC handles a request, or
\* a new instant begins.
Asks(s)   == /\ Quic!Asked(conn[s], conn'[s]) /\ quicBytesThisEvent'[s] = quicBytesThisEvent[s]
             /\ blocked'[s] = blocked[s]
Begins(s) == /\ NewInstant /\ quicBytesThisEvent'[s] = 0 /\ blocked'[s] = blocked[s]
             /\ \/ Quic!Asked(conn[s], conn'[s])
                \/ \E g \in Subgroups : /\ conn[s].held[g] > 0
                                        /\ conn'[s] = Quic!Acknowledge(conn[s], g)
Renews(s) == /\ NewInstant /\ quicBytesThisEvent'[s] = 0 /\ blocked'[s] = FALSE
             /\ conn'[s] = Quic!FreshConnection
Takes(s)  == /\ pc = "idle" /\ conn[s].inds # <<>> /\ conn'[s] = Quic!TakeIndication(conn[s])
             /\ quicBytesThisEvent'[s] = quicBytesThisEvent[s]
             /\ blocked'[s] = (Head(conn[s].inds) # "drain"
                                 /\ (blocked[s] \/ Head(conn[s].inds) = "full"))
Handles(s) == /\ pc = "idle" /\ conn[s].requests # <<>>
              /\ conn'[s] = Quic!HandleRequest(conn[s])
              /\ quicBytesThisEvent'[s] = quicBytesThisEvent[s] /\ blocked'[s] = blocked[s]
Writes(s) == /\ Flushing /\ MayWrite /\ at = s /\ blocked'[s] = blocked[s]
             /\ \E n \in 0 .. ChunkBytes, g \in Subgroups :
                  /\ conn'[s] = Quic!SendData(conn[s], g, n)
                  /\ quicBytesThisEvent'[s] = quicBytesThisEvent[s] + n

\* These are all the things that happen to a connection.
LEMMA ConnSteps ==
  ASSUME ShapeInv, Next, NEW s \in Subscribers
  PROVE  Asks(s) \/ Begins(s) \/ Renews(s) \/ Takes(s) \/ Handles(s) \/ Writes(s)
  <1> USE DEF ShapeInv
  <1>0. /\ conn \in [Subscribers -> Quic!Connections] /\ conn[s] \in Quic!Connections
        /\ blocked \in [Subscribers -> BOOLEAN]
        /\ quicBytesThisEvent \in [Subscribers -> Nat]
    BY DEF TransportOK
  <1>1. Quic!Asked(conn[s], conn[s])
    <2>1. conn[s].requests \in Seq(Quic!Requests)
      BY <1>0 DEF Quic!Connections
    <2> QED BY <2>1, Quic!GrownSame DEF Quic!Asked
  <1> HIDE DEF ShapeInv
  <1>2. ASSUME conn'[s] = conn[s], blocked'[s] = blocked[s],
               quicBytesThisEvent'[s] = quicBytesThisEvent[s]
        PROVE  Asks(s)
    BY <1>1, <1>2 DEF Asks
  <1>3. ASSUME conn'[s] = conn[s], blocked'[s] = blocked[s], NewInstant
        PROVE  Begins(s)
    BY <1>1, <1>3 DEF Begins, NewInstant
  <1>4. CASE \/ SkipSubscriber \/ EndDone \/ ForwardDone \/ EndFlush \/ CheckFires
             \/ \E x \in Subscribers : RefuseObject(x) \/ ForwardObject(x)
             \/ \E a \in {0, AgeCap(fwd.track)} : NextInPacket(a)
             \/ \E p \in buffer : DropWithSubgroup(p)
    <2>1. UNCHANGED <<blocked, conn>> /\ quicBytesThisEvent' = quicBytesThisEvent
      BY <1>4 DEF SkipSubscriber, EndDone, ForwardDone, RefuseObject, ForwardObject, CheckFires,
         EndFlush, NextInPacket, OnObjectFrame, DropWithSubgroup
    <2> QED BY <1>2, <2>1
  <1>5. CASE \/ Tick
             \/ \E t \in Tracks : Announce(t)
             \/ \E x \in Subscribers, t \in Tracks : Subscribe(x, t)
             \/ \E g \in Subgroups : \E a \in {0, AgeCap(g[1])} : ObjectArrives(g[1], g[2], a)
             \/ \E p \in Publishers : ClosePublisher(p)
    <2>1. UNCHANGED <<blocked, conn>> /\ (SameInstant \/ NewInstant)
      BY <1>5 DEF Tick, Announce, Subscribe, ObjectArrives, OnObjectFrame, ClosePublisher
    <2> QED BY <1>2, <1>3, <2>1 DEF SameInstant
  <1>6. ASSUME NEW t \in Tracks, EndTrackDownstream(t) \/ EndTrack(t) PROVE Asks(s) \/ Begins(s)
    <2>1. Quic!Asked(conn[s], conn'[s])
      BY <1>6, EndEffect DEF EndTrackDownstream, EndTrack, ShapeInv
    <2>2. /\ blocked' = blocked
          /\ quicBytesThisEvent' = quicBytesThisEvent \/ NewInstant
      BY <1>6 DEF EndTrackDownstream, EndTrack, SameInstant
    <2> QED BY <2>1, <2>2 DEF Asks, Begins, NewInstant
  <1>7. ASSUME NEW p \in buffer, DropStale(p) PROVE Asks(s)
    <2> DEFINE S == {d[2] : d \in TornBy(p)}
    <2>1. S \in SUBSET Subgroups
      BY ItemFacts DEF TornBy, ShapeInv
    <2>2. conn' = [conn EXCEPT ![at] = Quic!ResetStreams(conn[at], S)]
          /\ UNCHANGED blocked /\ quicBytesThisEvent' = quicBytesThisEvent
      BY <1>7 DEF DropStale
    <2> HIDE DEF S
    <2>3. CASE s # at
      <3>1. conn'[s] = conn[s]
        BY <1>0, <2>2, <2>3
      <3> QED BY <1>2, <2>2, <3>1
    <2>4. CASE s = at
      <3>1. conn'[s] = Quic!ResetStreams(conn[s], S)
        BY <1>0, <2>2, <2>4
      <3>2. Quic!Asked(conn[s], conn'[s])
        BY <1>0, <2>1, <3>1, Quic!ResetAsked
      <3> QED BY <2>2, <3>2 DEF Asks
    <2> QED BY <2>3, <2>4
  <1>8. ASSUME NEW p \in buffer, WriteChunk(p) PROVE Asks(s) \/ Writes(s)
    <2>1. PICK n \in Nat :
            /\ n <= ChunkBytes
            /\ conn' = [conn EXCEPT ![at] = Quic!SendData(conn[at], Subgroup(p), n)]
            /\ quicBytesThisEvent' = [quicBytesThisEvent EXCEPT ![at] = @ + n]
      BY <1>8, WriteEffect DEF ShapeInv
    <2>2. UNCHANGED blocked /\ Flushing /\ MayWrite
      BY <1>8 DEF WriteChunk
    <2>3. CASE s # at
      <3>1. conn'[s] = conn[s] /\ quicBytesThisEvent'[s] = quicBytesThisEvent[s]
        BY <1>0, <2>1, <2>3
      <3> QED BY <1>2, <2>2, <3>1
    <2>4. CASE s = at
      <3>1. /\ conn'[s] = Quic!SendData(conn[s], Subgroup(p), n)
            /\ quicBytesThisEvent'[s] = quicBytesThisEvent[s] + n
        BY <1>0, <2>1, <2>4
      <3>2. n \in 0 .. ChunkBytes /\ Subgroup(p) \in Subgroups
        BY <2>1, ItemFacts, RelayAssumption DEF ShapeInv
      <3> QED BY <2>2, <2>4, <3>1, <3>2 DEF Writes
    <2> QED BY <2>3, <2>4
  <1>9. ASSUME NEW x \in Subscribers, QuicFullOrRejected(x) \/ QuicDrain(x) PROVE Asks(s) \/ Takes(s)
    <2>1. /\ conn' = [conn EXCEPT ![x] = Quic!TakeIndication(conn[x])]
          /\ quicBytesThisEvent' = quicBytesThisEvent /\ pc = "idle" /\ conn[x].inds # <<>>
          /\ \/ /\ Head(conn[x].inds) # "drain"
                /\ blocked' = [blocked EXCEPT ![x] = blocked[x] \/ Head(conn[x].inds) = "full"]
             \/ Head(conn[x].inds) = "drain" /\ blocked' = [blocked EXCEPT ![x] = FALSE]
      BY <1>9 DEF QuicFullOrRejected, QuicDrain, Unblocked
    <2>2. CASE s # x
      <3>1. conn'[s] = conn[s] /\ blocked'[s] = blocked[s]
        BY <1>0, <2>1, <2>2
      <3> QED BY <1>2, <2>1, <3>1
    <2>3. CASE s = x
      <3>1. /\ conn'[s] = Quic!TakeIndication(conn[s])
            /\ \/ /\ Head(conn[s].inds) # "drain"
                  /\ blocked'[s] = (blocked[s] \/ Head(conn[s].inds) = "full")
               \/ Head(conn[s].inds) = "drain" /\ blocked'[s] = FALSE
        BY <1>0, <2>1, <2>3
      <3>2. blocked'[s] = (Head(conn[s].inds) # "drain"
                             /\ (blocked[s] \/ Head(conn[s].inds) = "full"))
        BY <3>1
      <3> QED BY <2>1, <2>3, <3>1, <3>2 DEF Takes
    <2> QED BY <2>2, <2>3
  <1>10. ASSUME NEW x \in Subscribers, QuicHandleRequest(x) PROVE Asks(s) \/ Handles(s)
    <2>1. /\ conn' = [conn EXCEPT ![x] = Quic!HandleRequest(conn[x])] /\ UNCHANGED blocked
          /\ quicBytesThisEvent' = quicBytesThisEvent /\ pc = "idle" /\ conn[x].requests # <<>>
      BY <1>10 DEF QuicHandleRequest
    <2>2. CASE s # x
      <3>1. conn'[s] = conn[s]
        BY <1>0, <2>1, <2>2
      <3> QED BY <1>2, <2>1, <3>1
    <2>3. CASE s = x
      <3>1. conn'[s] = Quic!HandleRequest(conn[s])
        BY <1>0, <2>1, <2>3
      <3> QED BY <2>1, <2>3, <3>1 DEF Handles
    <2> QED BY <2>2, <2>3
  <1>11. ASSUME NEW x \in Subscribers, NEW g \in Subgroups, QuicAck(x, g) PROVE Begins(s)
    <2>1. /\ conn' = [conn EXCEPT ![x] = Quic!Acknowledge(conn[x], g)] /\ UNCHANGED blocked
          /\ NewInstant /\ conn[x].held[g] > 0
      BY <1>11 DEF QuicAck
    <2>2. CASE s # x
      <3>1. conn'[s] = conn[s]
        BY <1>0, <2>1, <2>2
      <3> QED BY <1>3, <2>1, <3>1
    <2>3. CASE s = x
      <3>1. conn'[s] = Quic!Acknowledge(conn[s], g)
        BY <1>0, <2>1, <2>3
      <3> QED BY <2>1, <2>3, <3>1 DEF Begins, NewInstant
    <2> QED BY <2>2, <2>3
  <1>12. ASSUME NEW x \in Subscribers, CloseSubscriber(x) PROVE Begins(s) \/ Renews(s)
    <2>1. /\ conn' = [conn EXCEPT ![x] = Quic!FreshConnection]
          /\ blocked' = [blocked EXCEPT ![x] = FALSE] /\ NewInstant
      BY <1>12 DEF CloseSubscriber
    <2>2. CASE s # x
      <3>1. conn'[s] = conn[s] /\ blocked'[s] = blocked[s]
        BY <1>0, <2>1, <2>2
      <3> QED BY <1>3, <2>1, <3>1
    <2>3. CASE s = x
      <3>1. conn'[s] = Quic!FreshConnection /\ blocked'[s] = FALSE
        BY <1>0, <2>1, <2>3
      <3> QED BY <2>1, <3>1 DEF Renews, NewInstant
    <2> QED BY <2>2, <2>3
  <1> QED BY <1>4, <1>5, <1>6, <1>7, <1>8, <1>9, <1>10, <1>11, <1>12
          DEF Next, Application, Peers, FlushStep

\* The types a step leaves.
LEMMA ConnTypes ==
  ASSUME ShapeInv, Next, NEW s \in Subscribers
  PROVE  /\ conn[s] \in Quic!Connections /\ conn'[s] \in Quic!Connections
         /\ quicBytesThisEvent[s] \in Nat /\ quicBytesThisEvent'[s] \in Nat
         /\ blocked[s] \in BOOLEAN /\ blocked'[s] \in BOOLEAN
         /\ SendQueueLimit + ChunkBytes \in Nat /\ ChunkBytes \in Nat
  BY TransportNext, RelayAssumption DEF ShapeInv, TransportOK

\* The invariant of the next state, connection by connection.
LEMMA PacingPrimed ==
  PacingInv' <=> \A s \in Subscribers :
                   Quic!Paced(conn'[s], quicBytesThisEvent'[s], SendQueueLimit + ChunkBytes)
  BY DEF PacingInv, Quic!Paced, Quic!OneStream, Quic!Load, Quic!Occupancy, Quic!DataBytes,
         Quic!DataAt

\* At a new instant everything has been handled.
LEMMA InstantFacts ==
  ASSUME NewInstant, NEW s \in Subscribers
  PROVE  conn[s].requests = <<>> /\ conn[s].inds = <<>> /\ pc = "idle"
  BY DEF NewInstant, Settled

\* Every step keeps the pacing.
LEMMA PacingNext ==
  ASSUME ShapeInv, PacingInv, Next
  PROVE  PacingInv'
  <1> DEFINE L == SendQueueLimit + ChunkBytes
  <1> SUFFICES ASSUME NEW s \in Subscribers
               PROVE  Quic!Paced(conn'[s], quicBytesThisEvent'[s], L)
    BY PacingPrimed
  <1> DEFINE c == conn[s]
             d == conn'[s]
             b == quicBytesThisEvent[s]
             b2 == quicBytesThisEvent'[s]
  <1>1. /\ c \in Quic!Connections /\ d \in Quic!Connections /\ b \in Nat /\ b2 \in Nat
        /\ L \in Nat /\ ChunkBytes \in Nat /\ Quic!QueueLimits
    BY ConnTypes, RelayLimits
  <1>2. Quic!Paced(c, b, L)
    BY DEF PacingInv
  <1>3. CASE Asks(s)
    <2>1. Quic!Asked(c, d) /\ b2 = b
      BY <1>3 DEF Asks
    <2> QED BY <1>1, <1>2, <2>1, Quic!PacedAsked DEF Quic!Asked
  <1>4. CASE Begins(s)
    <2>1. /\ b2 = 0 /\ c.requests = <<>>
          /\ \/ Quic!Asked(c, d)
             \/ \E g \in Subgroups : c.held[g] > 0 /\ d = Quic!Acknowledge(c, g)
      BY <1>4, InstantFacts DEF Begins
    <2> HIDE DEF L, b, b2, c, d
    <2>2. Quic!Paced(c, 0, L)
      BY ONLY <1>1, <1>2, <2>1, Quic!PacedInstant
    <2>3. CASE Quic!Asked(c, d)
      BY <1>1, <2>1, <2>2, <2>3, Quic!PacedAsked DEF Quic!Asked, d, b2, L
    <2>4. ASSUME NEW g \in Subgroups, c.held[g] > 0, d = Quic!Acknowledge(c, g)
          PROVE  Quic!Paced(d, 0, L)
      BY ONLY <1>1, <2>2, <2>4, Quic!PacedAcknowledged
    <2> QED BY <2>1, <2>3, <2>4 DEF d, b2
  <1>5. CASE Renews(s)
    <2>1. b2 = 0 /\ d = Quic!FreshConnection
      BY <1>5 DEF Renews
    <2>2. d \in Quic!Connections /\ Quic!Occupancy(d) = 0 /\ d.requests = <<>>
      BY <1>1, <2>1, Quic!FreshOccupancy DEF Quic!FreshConnection
    <2>3. 0 < L
      BY RelayAssumption
    <2> HIDE DEF L, d, b2
    <2>4. Quic!Paced(d, 0, L)
      BY ONLY <1>1, <2>2, <2>3, Quic!PacedInstant
    <2> QED BY <2>1, <2>4 DEF d, b2
  <1>6. CASE Takes(s)
    <2>1. d = Quic!TakeIndication(c) /\ b2 = b
      BY <1>6 DEF Takes
    <2> QED BY <1>1, <1>2, <2>1, Quic!PacedTaken
  <1>7. CASE Handles(s)
    <2>1. d = Quic!HandleRequest(c) /\ b2 = b /\ c.requests # <<>>
      BY <1>7 DEF Handles
    <2> HIDE DEF L, d, c, b, b2
    <2>2. Quic!Paced(d, b, L)
      BY ONLY <1>1, <1>2, <2>1, Quic!PacedHandled
    <2> QED BY <2>1, <2>2 DEF d, b2
  <1>8. CASE Writes(s)
    <2>1. PICK n \in 0 .. ChunkBytes, g \in Subgroups :
            d = Quic!SendData(c, g, n) /\ b2 = b + n
      BY <1>8 DEF Writes
    <2>2. Quic!Occupancy(c) + b < SendQueueLimit
      BY <1>8 DEF Writes, MayWrite
    <2> HIDE DEF d, c, b, b2
    <2>3. Quic!Paced(d, b + n, L)
      BY ONLY <1>1, <1>2, <2>1, <2>2, Quic!PacedSent DEF L
    <2> QED BY <2>1, <2>3 DEF d, b2
  <1> QED BY <1>3, <1>4, <1>5, <1>6, <1>7, <1>8, ConnSteps

\* No connection holds anything at first.
LEMMA PacingInit == Init => PacingInv
  <1> SUFFICES ASSUME Init, NEW s \in Subscribers
               PROVE  Quic!Paced(conn[s], quicBytesThisEvent[s], SendQueueLimit + ChunkBytes)
    BY DEF PacingInv
  <1> DEFINE c == Quic!FreshConnection
             L == SendQueueLimit + ChunkBytes
  <1>1. conn[s] = c /\ quicBytesThisEvent[s] = 0 /\ 0 < L
    BY RelayAssumption DEF Init
  <1>2. c \in Quic!Connections /\ Quic!Occupancy(c) = 0 /\ c.requests = <<>> /\ Quic!QueueLimits
    BY RelayLimits, Quic!FreshOccupancy DEF Quic!FreshConnection
  <1> HIDE DEF c, L
  <1>3. Quic!Paced(c, 0, L)
    BY ONLY <1>1, <1>2, Quic!PacedInstant
  <1> QED BY <1>1, <1>3 DEF L

\* What QUIC holds and what is on its way to it stay within the limit plus one chunk, and
\* the bytes on their way were written at this instant.
LEMMA PacingInvariant == Spec => []PacingInv
  <1>1. ShapeInv /\ PacingInv /\ [Next]_vars => PacingInv'
    <2>1. PacingInv /\ UNCHANGED vars => PacingInv'
      BY PacingPrimed DEF PacingInv, vars
    <2> QED BY <2>1, PacingNext
  <1> QED BY <1>1, PacingInit, ShapeInvariant, PTL DEF Spec

\* The bytes on their way, as the lemmas about QUIC count them.
LEMMA RequestedIsData == \A s : Requested(s) = Quic!DataBytes(conn[s].requests)
  BY SumOfCounts DEF Requested, Quic!DataBytes, Quic!DataAt

\* The pacing keeps its promise on every connection, however many objects one handler
\* forwards: QUIC never holds, or is handed, more than the limit and one chunk.
THEOREM OccupancyBounded == Spec => []OccupancyBound
  <1>1. PacingInv => OccupancyBound
    BY RequestedIsData DEF PacingInv, Quic!Paced, Quic!Load, OccupancyBound
  <1> QED BY <1>1, PacingInvariant, PTL

-----------------------------------------------------------------------------
(* Admission: QUIC accepts every slice.                                    *)

\* A flush after "drain" writes nothing to a connection that QUIC has closed again
\* behind the drain: by then it has written enough at this instant to see no room.
FlushOpen == pc = "flush" /\ ~blocked[at] /\ ~conn[at].accept =>
               SendQueueLimit < LowWaterMark + quicBytesThisEvent[at]

\* The invariant of the next state, connection by connection.
LEMMA AdmissionPrimed ==
  ASSUME \A s \in Subscribers :
           /\ Quic!Admits(conn'[s]) /\ Quic!Signals(conn'[s], quicBytesThisEvent'[s])
           /\ Quic!Blocks(conn'[s], blocked'[s]) /\ "data" \notin conn'[s].rejected
           /\ Looping' => conn'[s].inds = <<>>,
         FlushOpen'
  PROVE  AdmissionInv'
  <1>1. ASSUME NEW s \in Subscribers
        PROVE  /\ Quic!Admits(conn[s])' /\ Quic!Signals(conn[s], quicBytesThisEvent[s])'
               /\ Quic!Blocks(conn[s], blocked[s])'
    <2>1. Quic!Admits(conn'[s]) <=> Quic!Admits(conn[s])'
      BY DEF Quic!Admits, Quic!Load, Quic!Occupancy, Quic!DataBytes, Quic!DataAt, Quic!IsLastData
    <2>2. Quic!Signals(conn'[s], quicBytesThisEvent'[s]) <=> Quic!Signals(conn[s], quicBytesThisEvent[s])'
      BY DEF Quic!Signals, Quic!DrainComing, Quic!Load, Quic!Occupancy, Quic!DataBytes, Quic!DataAt
    <2>3. Quic!Blocks(conn'[s], blocked'[s]) <=> Quic!Blocks(conn[s], blocked[s])'
      BY DEF Quic!Blocks, Quic!FullComing, Quic!DrainComing
    <2> QED BY <2>1, <2>2, <2>3
  <1> QED BY <1>1 DEF AdmissionInv, FlushOpen

\* A running flush writes only to a connection that accepts.
LEMMA WritesAccepted ==
  ASSUME ShapeInv, PacingInv, AdmissionInv, NEW s \in Subscribers, Flushing, MayWrite, at = s
  PROVE  conn[s].accept /\ Quic!Load(conn[s]) < SendQueueLimit
  <1>1. /\ conn[s] \in Quic!Connections /\ quicBytesThisEvent[s] \in Nat
        /\ SendQueueLimit \in Nat /\ LowWaterMark \in Nat /\ Quic!QueueLimits
    BY RelayLimits DEF ShapeInv, TransportOK, Quic!QueueLimits
  <1>2. Quic!Occupancy(conn[s]) \in Nat /\ Quic!DataBytes(conn[s].requests) \in Nat
    BY <1>1, Quic!OccupancyNat, Quic!DataFacts DEF Quic!Connections
  <1>3. ~blocked[s] /\ Quic!Occupancy(conn[s]) + quicBytesThisEvent[s] < SendQueueLimit
    BY DEF MayWrite
  <1>4. Quic!Load(conn[s]) < SendQueueLimit
    <2>1. Quic!DataBytes(conn[s].requests) <= quicBytesThisEvent[s]
      BY DEF PacingInv, Quic!Paced
    <2> QED BY <1>1, <1>2, <1>3, <2>1 DEF Quic!Load
  <1>5. SUFFICES ASSUME ~conn[s].accept PROVE FALSE
    BY <1>4
  <1>6. Quic!FullComing(conn[s].inds) /\ Quic!Occupancy(conn[s]) >= LowWaterMark
    BY <1>3, <1>5 DEF AdmissionInv, Quic!Blocks, Quic!Admits
  <1>7. conn[s].inds # <<>>
    BY <1>6 DEF Quic!FullComing
  <1>8. pc = "flush"
    BY <1>7 DEF AdmissionInv, Flushing, Looping
  <1>9. SendQueueLimit < LowWaterMark + quicBytesThisEvent[s]
    BY <1>3, <1>5, <1>8 DEF AdmissionInv
  <1> QED BY <1>1, <1>2, <1>3, <1>6, <1>9

\* Every step keeps what is known of a connection.
LEMMA AdmissionConn ==
  ASSUME ShapeInv, PacingInv, AdmissionInv, Next, NEW s \in Subscribers
  PROVE  /\ Quic!Admits(conn'[s]) /\ Quic!Signals(conn'[s], quicBytesThisEvent'[s])
         /\ Quic!Blocks(conn'[s], blocked'[s]) /\ "data" \notin conn'[s].rejected
         /\ pc # "idle" => conn'[s].inds = conn[s].inds
  <1> DEFINE c == conn[s]
             d == conn'[s]
             b == quicBytesThisEvent[s]
             b2 == quicBytesThisEvent'[s]
             k == blocked[s]
             k2 == blocked'[s]
  <1>1. /\ c \in Quic!Connections /\ d \in Quic!Connections /\ b \in Nat /\ b2 \in Nat
        /\ k \in BOOLEAN /\ k2 \in BOOLEAN /\ Quic!QueueLimits /\ ChunkBytes \in Nat
    BY ConnTypes, RelayLimits
  <1>2. Quic!Admits(c) /\ Quic!Signals(c, b) /\ Quic!Blocks(c, k) /\ "data" \notin c.rejected
    BY DEF AdmissionInv
  <1>3. Quic!OneStream(c.requests) /\ Quic!DataBytes(c.requests) <= b
    BY DEF PacingInv, Quic!Paced
  <1>4. CASE Asks(s)
    <2>1. Quic!Asked(c, d) /\ b2 = b /\ k2 = k
      BY <1>4 DEF Asks
    <2> HIDE DEF c, d, b, b2, k, k2
    <2>2. Quic!Admits(d) /\ Quic!Signals(d, b) /\ Quic!Blocks(d, k)
      BY ONLY <1>1, <1>2, <2>1, Quic!AdmitsAsked
    <2>3. d.rejected = c.rejected /\ d.inds = c.inds
      BY <2>1 DEF Quic!Asked
    <2> QED BY <1>2, <2>1, <2>2, <2>3 DEF c, d, b, b2, k, k2
  <1>5. CASE Begins(s)
    <2>1. /\ b2 = 0 /\ c.requests = <<>> /\ c.inds = <<>> /\ k2 = k /\ pc = "idle"
          /\ \/ Quic!Asked(c, d)
             \/ \E g \in Subgroups : c.held[g] > 0 /\ d = Quic!Acknowledge(c, g)
      BY <1>5, InstantFacts DEF Begins
    <2> HIDE DEF c, d, b, b2, k, k2
    <2>2. Quic!Signals(c, 0)
      BY <2>1 DEF Quic!Signals, Quic!DrainComing
    <2>3. CASE Quic!Asked(c, d)
      <3>1. Quic!Admits(d) /\ Quic!Signals(d, 0) /\ Quic!Blocks(d, k)
        BY ONLY <1>1, <1>2, <2>2, <2>3, Quic!AdmitsAsked
      <3>2. d.rejected = c.rejected
        BY <2>3 DEF Quic!Asked
      <3> QED BY <1>2, <2>1, <3>1, <3>2 DEF d, b2, k2
    <2>4. ASSUME NEW g \in Subgroups, c.held[g] > 0, d = Quic!Acknowledge(c, g)
          PROVE  /\ Quic!Admits(d) /\ Quic!Signals(d, 0) /\ Quic!Blocks(d, k)
                 /\ d.rejected = c.rejected
      <3>1. 0 \in Nat
        OBVIOUS
      <3> QED BY ONLY <1>1, <1>2, <2>1, <2>2, <2>4, <3>1, Quic!AdmitsAcknowledged
    <2> QED BY <1>2, <2>1, <2>3, <2>4 DEF d, b2, k2
  <1>6. CASE Renews(s)
    <2>1. /\ d.requests = <<>> /\ d.inds = <<>> /\ d.accept = TRUE /\ d.rejected = {} /\ pc = "idle"
      BY <1>6, InstantFacts DEF Renews, Quic!FreshConnection
    <2>2. Quic!DataAt(<<>>) = {}
      BY DEF Quic!DataAt
    <2> HIDE DEF d
    <2>3. Quic!Admits(d) /\ Quic!Signals(d, b2) /\ Quic!Blocks(d, k2)
      BY <2>1, <2>2 DEF Quic!Admits, Quic!Signals, Quic!Blocks, Quic!IsLastData, Quic!DrainComing
    <2> QED BY <2>1, <2>3 DEF d, b2, k2
  <1>7. CASE Takes(s)
    <2>1. /\ d = Quic!TakeIndication(c) /\ b2 = b /\ c.inds # <<>> /\ pc = "idle"
          /\ k2 = (Head(c.inds) # "drain" /\ (k \/ Head(c.inds) = "full"))
      BY <1>7 DEF Takes
    <2> HIDE DEF c, d, b, b2, k, k2
    <2>2. /\ Quic!Admits(d) /\ Quic!Signals(d, b) /\ d.rejected = c.rejected
          /\ Head(c.inds) # "drain" => Quic!Blocks(d, k \/ Head(c.inds) = "full")
          /\ Head(c.inds) = "drain" => Quic!Blocks(d, FALSE)
      BY ONLY <1>1, <1>2, <2>1, Quic!AdmitsTaken
    <2>3. Quic!Blocks(d, k2)
      BY <1>1, <2>1, <2>2 DEF Quic!Blocks
    <2> QED BY <1>2, <2>1, <2>2, <2>3 DEF d, b2, k2
  <1>8. CASE Handles(s)
    <2>1. d = Quic!HandleRequest(c) /\ b2 = b /\ k2 = k /\ c.requests # <<>> /\ pc = "idle"
      BY <1>8 DEF Handles
    <2> HIDE DEF d, c, b, b2, k, k2
    <2>2. /\ Quic!Admits(d) /\ Quic!Signals(d, b) /\ Quic!Blocks(d, k)
          /\ d.rejected = c.rejected \/ d.rejected = c.rejected \cup {"control"}
      BY ONLY <1>1, <1>2, <1>3, <2>1, Quic!AdmitsHandled
    <2>3. "data" \notin d.rejected
      BY <1>2, <2>2
    <2> QED BY <2>1, <2>2, <2>3 DEF d, b2, k2
  <1>9. CASE Writes(s)
    <2>1. PICK n \in 0 .. ChunkBytes, g \in Subgroups :
            d = Quic!SendData(c, g, n) /\ b2 = b + n /\ k2 = k
      BY <1>9 DEF Writes
    <2>2. c.accept /\ Quic!Load(c) < SendQueueLimit
      BY <1>9, WritesAccepted DEF Writes
    <2>4. n \in Nat
      BY <1>1
    <2> HIDE DEF d, c, b, b2, k, k2
    <2>3. d.inds = c.inds
      BY ONLY <1>1, <2>1, <2>4, Quic!DataSent
    <2>5. Quic!Admits(d) /\ Quic!Signals(d, b + n) /\ Quic!Blocks(d, k) /\ d.rejected = c.rejected
      BY ONLY <1>1, <1>2, <2>1, <2>2, <2>4, Quic!AdmitsSent
    <2> QED BY <1>2, <2>1, <2>3, <2>5 DEF c, d, b2, k2
  <1> QED BY <1>4, <1>5, <1>6, <1>7, <1>8, <1>9, ConnSteps

\* An object is forwarded at the end of a handler, or in one that nothing interrupts.
LEMMA LoopBegins ==
  ASSUME Next, Looping'
  PROVE  Looping \/ (Settled /\ conn' = conn)
  <1>1. CASE \/ CheckFires \/ Tick
             \/ \E s \in Subscribers : QuicFullOrRejected(s) \/ QuicDrain(s) \/ QuicHandleRequest(s)
             \/ \E s \in Subscribers, g \in Subgroups : QuicAck(s, g)
             \/ \E t \in Tracks : Announce(t) \/ EndTrackDownstream(t)
             \/ \E s \in Subscribers, t \in Tracks : Subscribe(s, t)
             \/ \E p \in Publishers : ClosePublisher(p)
             \/ \E s \in Subscribers : CloseSubscriber(s)
    <2>1. pc' \in {"idle", "flush"}
      BY <1>1 DEF CheckFires, Tick, QuicFullOrRejected, QuicDrain, QuicHandleRequest,
         QuicAck, Announce, EndTrackDownstream, Subscribe, ClosePublisher, CloseSubscriber,
         NewInstant, SameInstant
    <2> QED BY <2>1 DEF Looping
  <1>2. CASE \/ SkipSubscriber \/ EndDone \/ ForwardDone
             \/ \E s \in Subscribers : RefuseObject(s) \/ ForwardObject(s)
             \/ \E t \in Tracks : EndTrack(t)
             \/ \E a \in {0, AgeCap(fwd.track)} : NextInPacket(a)
    BY <1>2 DEF SkipSubscriber, EndDone, ForwardDone, RefuseObject, ForwardObject, Forwarding,
       EndTrack, NextInPacket, Looping
  <1>3. CASE EndFlush \/ \E p \in buffer : DropWithSubgroup(p) \/ DropStale(p) \/ WriteChunk(p)
    BY <1>3 DEF EndFlush, DropWithSubgroup, DropStale, WriteChunk, Flushing, Looping
  <1>4. CASE \E g \in Subgroups : \E a \in {0, AgeCap(g[1])} : ObjectArrives(g[1], g[2], a)
    BY <1>4 DEF ObjectArrives, OnObjectFrame, SameInstant, NewInstant
  <1> QED BY <1>1, <1>2, <1>3, <1>4 DEF Next, Application, Peers, FlushStep

\* The flush that runs after "drain" was begun by "drain", or goes on.
LEMMA FlushGoesOn ==
  ASSUME ShapeInv, PacingInv, AdmissionInv, Next
  PROVE  FlushOpen'
  <1>1. CASE pc' # "flush"
    BY <1>1 DEF FlushOpen
  <1>2. ASSUME NEW s \in Subscribers, QuicDrain(s) PROVE FlushOpen'
    <2>1. /\ at' = s /\ conn' = [conn EXCEPT ![s] = Quic!TakeIndication(conn[s])]
          /\ quicBytesThisEvent' = quicBytesThisEvent
          /\ conn[s].inds # <<>> /\ Head(conn[s].inds) = "drain"
      BY <1>2 DEF QuicDrain
    <2> DEFINE c == conn[s]
               b == quicBytesThisEvent[s]
               k == blocked[s]
    <2>2. c \in Quic!Connections /\ b \in Nat /\ k \in BOOLEAN /\ c.inds # <<>>
      BY <2>1, ConnTypes
    <2>3. Quic!Admits(c) /\ Quic!Signals(c, b) /\ Quic!Blocks(c, k)
      BY DEF AdmissionInv
    <2>4. conn'[s] = Quic!TakeIndication(c)
      BY <2>1 DEF ShapeInv, TransportOK
    <2> HIDE DEF c, b, k
    <2>5. /\ Quic!TakeIndication(c).accept = c.accept
          /\ Head(c.inds) = "drain" => (~c.accept => SendQueueLimit < LowWaterMark + b)
      BY ONLY <2>2, <2>3, Quic!AdmitsTaken
    <2> QED BY <2>1, <2>4, <2>5 DEF FlushOpen, c, b
  <1>3. CASE \E p \in buffer : DropWithSubgroup(p) \/ DropStale(p) \/ WriteChunk(p)
    <2>1. UNCHANGED <<pc, at, blocked>> /\ Flushing
      BY <1>3 DEF DropWithSubgroup, DropStale, WriteChunk
    <2>2. at \in Subscribers
      BY <2>1 DEF ShapeInv, LoopShape, LoopsOK
    <2>3. pc # "idle"
      BY <2>1 DEF Flushing
    <2>4. /\ conn'[at].accept = conn[at].accept
          /\ quicBytesThisEvent'[at] >= quicBytesThisEvent[at]
      <3>1. Asks(at) \/ Writes(at)
        BY <2>2, <2>3, ConnSteps DEF Begins, Renews, Takes, Handles, NewInstant
      <3>2. CASE Asks(at)
        BY <2>2, <3>2, ConnTypes DEF Asks, Quic!Asked
      <3>3. CASE Writes(at)
        <4>1. PICK n \in 0 .. ChunkBytes, g \in Subgroups :
                /\ conn'[at] = Quic!SendData(conn[at], g, n)
                /\ quicBytesThisEvent'[at] = quicBytesThisEvent[at] + n
          BY <3>3 DEF Writes
        <4>2. conn[at] \in Quic!Connections /\ n \in Nat /\ quicBytesThisEvent[at] \in Nat
          BY <2>2, ConnTypes
        <4> DEFINE c == conn[at]
                   d == conn'[at]
        <4>3. c \in Quic!Connections /\ d = Quic!SendData(c, g, n)
          BY <4>1, <4>2
        <4> HIDE DEF c, d
        <4>4. d.accept = c.accept
          BY ONLY <4>2, <4>3, Quic!DataSent
        <4> QED BY <4>1, <4>2, <4>4 DEF c, d
      <3> QED BY <3>1, <3>2, <3>3
    <2>5. quicBytesThisEvent[at] \in Nat /\ quicBytesThisEvent'[at] \in Nat
          /\ SendQueueLimit \in Nat /\ LowWaterMark \in Nat
      BY <2>2, ConnTypes, RelayAssumption
    <2>6. FlushOpen
      BY DEF AdmissionInv, FlushOpen
    <2> QED BY <2>1, <2>4, <2>5, <2>6 DEF FlushOpen
  <1>4. CASE ~(\E s \in Subscribers : QuicDrain(s))
             /\ ~(\E p \in buffer : DropWithSubgroup(p) \/ DropStale(p) \/ WriteChunk(p))
    <2>1. pc' # "flush"
      BY <1>4 DEF Next, Application, Peers, FlushStep, SkipSubscriber, EndDone, ForwardDone,
         CheckFires, Tick, RefuseObject, QuicFullOrRejected, QuicHandleRequest, QuicAck,
         EndFlush, Announce, Subscribe, NextInPacket, ObjectArrives, OnObjectFrame, ClosePublisher,
         CloseSubscriber, ForwardObject, Forwarding, EndTrack, EndTrackDownstream, NewInstant, SameInstant
    <2> QED BY <1>1, <2>1
  <1> QED BY <1>2, <1>3, <1>4

\* Every step keeps the admission.
LEMMA AdmissionNext ==
  ASSUME ShapeInv, PacingInv, AdmissionInv, Next
  PROVE  AdmissionInv'
  <1>1. ASSUME NEW s \in Subscribers, Looping' PROVE conn'[s].inds = <<>>
    <2>1. CASE Looping
      BY <1>1, <2>1, AdmissionConn DEF AdmissionInv, Looping
    <2>2. CASE Settled /\ conn' = conn
      BY <2>2 DEF Settled
    <2> QED BY <1>1, <2>1, <2>2, LoopBegins
  <1> QED BY <1>1, AdmissionConn, FlushGoesOn, AdmissionPrimed

\* Every connection accepts at first.
LEMMA AdmissionInit == Init => AdmissionInv
  <1> SUFFICES ASSUME Init PROVE AdmissionInv
    OBVIOUS
  <1>1. pc = "idle"
    BY DEF Init
  <1>2. ASSUME NEW s \in Subscribers
        PROVE  /\ Quic!Admits(conn[s]) /\ Quic!Signals(conn[s], quicBytesThisEvent[s])
               /\ Quic!Blocks(conn[s], blocked[s]) /\ "data" \notin conn[s].rejected
    <2>1. /\ conn[s].requests = <<>> /\ conn[s].inds = <<>> /\ conn[s].accept = TRUE
          /\ conn[s].rejected = {}
      BY DEF Init, Quic!FreshConnection
    <2>2. Quic!DataAt(<<>>) = {}
      BY DEF Quic!DataAt
    <2> QED BY <2>1, <2>2
            DEF Quic!Admits, Quic!Signals, Quic!Blocks, Quic!IsLastData, Quic!DrainComing
  <1> QED BY <1>1, <1>2 DEF AdmissionInv, Looping

\* QUIC discards no slice of an object that the relay writes.
THEOREM NoDataRejected == Spec => []DataAccepted
  <1>1. ShapeInv /\ PacingInv /\ AdmissionInv /\ [Next]_vars => AdmissionInv'
    <2>1. ASSUME AdmissionInv, UNCHANGED vars PROVE AdmissionInv'
      <3>1. UNCHANGED <<conn, quicBytesThisEvent, blocked, pc, at>>
        BY <2>1 DEF vars
      <3> QED BY <2>1, <3>1, AdmissionPrimed DEF AdmissionInv, FlushOpen, Looping
    <2> QED BY <2>1, AdmissionNext
  <1>2. AdmissionInv => DataAccepted
    BY DEF AdmissionInv, DataAccepted
  <1> QED BY <1>1, <1>2, AdmissionInit, ShapeInvariant, PacingInvariant, PTL DEF Spec

-----------------------------------------------------------------------------
(* What is on the streams.                                                 *)

\* Nothing is written, and the queue changes object by object.
Carried(f) ==
  /\ wire' = wire
  /\ \A q \in buffer' : \E p \in buffer : /\ q = f[p] /\ SameKeys(p, q)
                                          /\ q.sentOffset = p.sentOffset

\* The stream an object is for does not change.
LEMMA KeysFacts ==
  \A p, q : SameKeys(p, q) => Subgroup(q) = Subgroup(p) /\ Down(q) = Down(p)
  BY DEF SameKeys, Subgroup, Down

\* A step that writes nothing keeps what is known of the streams.
LEMMA WireCarried ==
  ASSUME WireInv, StreamShape, ControlOK, ControlOK', NEW f, Carried(f),
         \A g \in Subgroups : received[g] <= received'[g],
         \A p \in buffer : \A q \in buffer' :
           q = f[p] /\ resetDownstream'[Down(p)] = "none" => resetDownstream[Down(p)] = "none",
         Looping' => /\ Looping /\ FwdSubgroup' = FwdSubgroup
                     /\ fwd'.obj = fwd.obj /\ Waiting' \subseteq Waiting
  PROVE  WireInv'
  <1>1. ASSUME NEW d \in DownSubgroups PROVE wire'[d].obj < received'[d[2]]
    <2>1. wire'[d].obj \in Int /\ wire'[d].obj < received[d[2]]
      BY DEF Carried, WireInv, StreamShape
    <2>2. received[d[2]] \in Nat /\ received'[d[2]] \in Nat /\ received[d[2]] <= received'[d[2]]
      BY DEF DownSubgroups, ControlOK
    <2> QED BY <2>1, <2>2
  <1>2. ASSUME Looping', NEW s \in Waiting' PROVE wire'[<<s, FwdSubgroup'>>].obj < fwd'.obj
    BY <1>2 DEF Carried, WireInv
  <1>3. ASSUME NEW q \in buffer', resetDownstream'[Down(q)] = "none"
        PROVE  IF q.sentOffset = 0 THEN wire'[Down(q)].obj < q.obj
               ELSE wire'[Down(q)] = [obj |-> q.obj, off |-> q.sentOffset]
    <2>1. PICK p \in buffer : q = f[p] /\ SameKeys(p, q) /\ q.sentOffset = p.sentOffset
      BY DEF Carried
    <2>2. Down(q) = Down(p) /\ q.obj = p.obj
      BY <2>1, KeysFacts DEF SameKeys
    <2>3. resetDownstream[Down(p)] = "none"
      BY <1>3, <2>1, <2>2
    <2> QED BY <2>1, <2>2, <2>3 DEF WireInv, Carried
  <1> QED BY <1>1, <1>2, <1>3 DEF WireInv

\* An object that has bytes on its stream is begun: it is the one the stream carries.
LEMMA FrameCarried ==
  ASSUME FrameIntegrity, WireInv, BufferShape, NEW f, Carried(f), openPeers' \subseteq openPeers,
         \A d \in DownSubgroups :
           d[1] \in openPeers' /\ resetDownstream'[d] = "none" =>
             /\ resetDownstream[d] = "none"
             /\ \A p \in buffer : Down(p) = d /\ p.sentOffset > 0 =>
                  /\ f[p] \in buffer' /\ SameKeys(p, f[p])
                  /\ f[p].sentOffset = p.sentOffset
  PROVE  FrameIntegrity'
  <1> SUFFICES ASSUME NEW d \in DownSubgroups, d[1] \in openPeers', resetDownstream'[d] = "none",
                      ~Complete(d)', ~Untouched(d)'
               PROVE  \E p \in buffer' :
                        /\ Down(p) = d
                        /\ p.obj = wire'[d].obj /\ p.sentOffset = wire'[d].off
                        /\ \A q \in buffer' \ {p} : Down(q) = d => q.obj > p.obj
    BY DEF FrameIntegrity, Down, Subgroup
  <1>1. ~Complete(d) /\ ~Untouched(d) /\ wire'[d] = wire[d]
        /\ d[1] \in openPeers /\ resetDownstream[d] = "none"
    BY DEF Complete, Untouched, Carried
  <1>2. PICK p \in buffer : /\ Down(p) = d
                            /\ p.obj = wire[d].obj /\ p.sentOffset = wire[d].off
                            /\ \A q \in buffer \ {p} : Down(q) = d => q.obj > p.obj
    BY <1>1 DEF FrameIntegrity
  <1>3. p.sentOffset > 0
    <2>1. p.sentOffset \in Nat /\ p.obj \in Nat
      BY ItemFacts
    <2>2. IF p.sentOffset = 0 THEN wire[d].obj < p.obj
          ELSE wire[d] = [obj |-> p.obj, off |-> p.sentOffset]
      BY <1>1, <1>2 DEF WireInv
    <2>3. ASSUME p.sentOffset = 0 PROVE FALSE
      BY <1>2, <2>1, <2>2, <2>3
    <2> QED BY <2>1, <2>3
  <1>4. f[p] \in buffer' /\ SameKeys(p, f[p]) /\ f[p].sentOffset = p.sentOffset
    BY <1>2, <1>3
  <1>5. Down(f[p]) = d /\ f[p].obj = p.obj
    BY <1>2, <1>4, KeysFacts DEF SameKeys
  <1>6. ASSUME NEW q \in buffer' \ {f[p]}, Down(q) = d PROVE q.obj > f[p].obj
    <2>1. PICK o \in buffer : q = f[o] /\ SameKeys(o, q)
      BY DEF Carried
    <2>2. o # p /\ Down(o) = d /\ q.obj = o.obj
      BY <1>6, <2>1, KeysFacts DEF SameKeys
    <2> QED BY <1>2, <1>5, <2>2
  <1> QED BY <1>1, <1>2, <1>4, <1>5, <1>6

\* The front of a queue is the oldest object of its subgroup.
LEMMA FrontFirst ==
  ASSUME BufferShape, OrderInv, NEW p \in buffer, IsFront(p), NEW q \in buffer, q # p,
         Down(q) = Down(p)
  PROVE  p.obj < q.obj
  <1>1. q.sub = p.sub /\ q.track = p.track
    BY ItemFacts
  <1>2. Before(p, q)
    BY <1>1 DEF IsFront, Queue
  <1>3. Priority[p.track] \in Nat
    BY ItemFacts, RelayAssumption
  <1>4. p.pos < q.pos
    BY <1>1, <1>2, <1>3 DEF Before
  <1> QED BY <1>4 DEF OrderInv

\* Nothing behind the front of a queue has begun.
LEMMA BehindFront ==
  ASSUME BufferShape, OrderInv, WireInv, NEW p \in buffer, IsFront(p),
         resetDownstream[Down(p)] = "none", NEW q \in buffer, q # p, Down(q) = Down(p)
  PROVE  p.obj < q.obj /\ q.sentOffset = 0
  <1>1. p.obj < q.obj /\ p.obj \in Nat /\ q.obj \in Nat
    BY FrontFirst, ItemFacts
  <1> DEFINE o == wire[Down(p)].obj
  <1>2. IF p.sentOffset = 0 THEN wire[Down(p)].obj < p.obj
        ELSE wire[Down(p)] = [obj |-> p.obj, off |-> p.sentOffset]
    BY DEF WireInv
  <1>3. o < p.obj \/ o = p.obj
    BY <1>2
  <1>4. IF q.sentOffset = 0 THEN wire[Down(p)].obj < q.obj
        ELSE wire[Down(p)] = [obj |-> q.obj, off |-> q.sentOffset]
    BY DEF WireInv
  <1>5. q.sentOffset # 0 => o = q.obj
    BY <1>4
  <1> HIDE DEF o
  <1> QED BY <1>1, <1>3, <1>5

\* A step that writes nothing, and queues nothing.
LEMMA WireStill ==
  ASSUME WireInv, StreamShape, ControlOK, ControlOK',
         UNCHANGED <<wire, received>>, buffer' \subseteq buffer,
         \A p \in buffer' :
           resetDownstream'[Down(p)] = "none" => resetDownstream[Down(p)] = "none",
         Looping' => /\ Looping /\ FwdSubgroup' = FwdSubgroup
                     /\ fwd'.obj = fwd.obj /\ Waiting' \subseteq Waiting
  PROVE  WireInv'
  <1> DEFINE f == [p \in buffer |-> p]
  <1>1. Carried(f)
    BY DEF Carried, SameKeys
  <1>2. \A p \in buffer : \A q \in buffer' :
          q = f[p] /\ resetDownstream'[Down(p)] = "none" => resetDownstream[Down(p)] = "none"
    OBVIOUS
  <1>3. \A g \in Subgroups : received[g] <= received'[g]
    BY DEF ControlOK
  <1> HIDE DEF f
  <1> QED BY <1>1, <1>2, <1>3, WireCarried

\* The object that is queued is newer than all its stream carries.
LEMMA WireForward ==
  ASSUME ShapeInv, RegisteredInv, OrderInv, WireInv, NEW s \in Subscribers, ForwardObject(s)
  PROVE  WireInv'
  <1> USE DEF ShapeInv
  <1> DEFINE new == FwdItem(s)
  <1>1. /\ buffer' = buffer \cup {new} /\ s \in subscriberSockets /\ Forwarding(s)
        /\ UNCHANGED <<wire, received, resetDownstream, subscriberByTrack, fwd>>
        /\ pc' \in {"end", "flushForward"}
    BY DEF ForwardObject, FwdItem, arrivals
  <1>2. Looping /\ s \in Waiting /\ Waiting' \subseteq Waiting \ {s} /\ FwdSubgroup' = FwdSubgroup
    BY <1>1, WaitingOthers DEF FwdSubgroup
  <1>3. /\ new.obj = fwd.obj /\ new.sentOffset = 0 /\ Down(new) = <<s, FwdSubgroup>>
    BY FwdItemFacts
  <1> HIDE DEF new
  <1>4. wire[Down(new)].obj < new.obj
    BY <1>2, <1>3 DEF WireInv
  <1>5. ASSUME NEW q \in buffer', resetDownstream'[Down(q)] = "none"
        PROVE  IF q.sentOffset = 0 THEN wire'[Down(q)].obj < q.obj
               ELSE wire'[Down(q)] = [obj |-> q.obj, off |-> q.sentOffset]
    <2>1. CASE q \in buffer
      BY <1>1, <1>5, <2>1 DEF WireInv
    <2>2. CASE q = new
      BY <1>1, <1>3, <1>4, <2>2
    <2> QED BY <1>1, <2>1, <2>2
  <1>6. \A d \in DownSubgroups : wire'[d].obj < received'[d[2]]
    BY <1>1 DEF WireInv
  <1>7. \A x \in Waiting' : wire'[<<x, FwdSubgroup'>>].obj < fwd'.obj
    BY <1>1, <1>2 DEF WireInv
  <1> QED BY <1>5, <1>6, <1>7 DEF WireInv

\* A slice leaves its object begun, and begins no other.
LEMMA WireWrite ==
  ASSUME ShapeInv, OrderInv, WireInv, NEW p \in buffer, WriteChunk(p)
  PROVE  WireInv'
  <1> USE DEF ShapeInv
  <1>1. PICK n \in Nat \ {0}, next \in Items :
           /\ next.sub = p.sub /\ next.track = p.track /\ next.group = p.group
           /\ next.obj = p.obj /\ next.sentOffset = p.sentOffset + n /\ Down(next) = Down(p)
           /\ buffer' = buffer \ {p} \/ buffer' = (buffer \ {p}) \cup {next}
           /\ wire' = [wire EXCEPT ![Down(p)] = [obj |-> p.obj, off |-> p.sentOffset + n]]
    BY WriteEffect
  <1>2. /\ UNCHANGED <<received, resetDownstream, subscriberByTrack, pc, fwd>>
        /\ IsFront(p) /\ resetDownstream[Down(p)] = "none"
    BY DEF WriteChunk, arrivals
  <1>3. /\ p.obj \in Nat /\ p.sentOffset \in Nat /\ Down(p) \in DownSubgroups
        /\ Down(p) = <<p.sub, Subgroup(p)>> /\ Down(p)[2] = Subgroup(p) /\ p \in Queue(p.sub)
    BY ItemFacts DEF Queue
  <1> DEFINE d == Down(p)
  <1>4. wire'[d] = [obj |-> p.obj, off |-> p.sentOffset + n]
        /\ \A e : e \in DownSubgroups /\ e # d => wire'[e] = wire[e]
    BY <1>1, <1>3 DEF StreamShape
  <1>5. wire'[d].obj = p.obj
    BY <1>4
  <1> HIDE DEF d
  <1>6. ASSUME NEW e \in DownSubgroups PROVE wire'[e].obj < received'[e[2]]
    <2>1. CASE e = d
      <3>1. p.obj < received[Subgroup(p)]
        BY DEF OrderInv
      <3> QED BY <1>2, <1>3, <1>5, <2>1, <3>1 DEF d
    <2>2. CASE e # d
      BY <1>2, <1>4, <2>2 DEF WireInv
    <2> QED BY <2>1, <2>2
  <1>7. ASSUME Looping', NEW x \in Waiting' PROVE wire'[<<x, FwdSubgroup'>>].obj < fwd'.obj
    <2>1. Looping /\ x \in Waiting /\ FwdSubgroup' = FwdSubgroup /\ fwd' = fwd
      BY <1>2, <1>7, WaitingKept DEF Looping
    <2>2. CASE <<x, FwdSubgroup>> = d
      <3>1. x = p.sub /\ Subgroup(p) = FwdSubgroup
        BY <1>3, <2>2 DEF d
      <3>2. p.obj < fwd.obj
        BY <1>3, <2>1, <3>1 DEF OrderInv
      <3> QED BY <1>5, <2>1, <2>2, <3>2
    <2>3. CASE <<x, FwdSubgroup>> # d
      <3>1. Waiting \subseteq Subscribers
        BY LoopFacts DEF Waiting, Places
      <3>2. <<x, FwdSubgroup>> \in DownSubgroups
        BY <2>1, <3>1, LoopFacts
      <3>3. wire[<<x, FwdSubgroup>>].obj < fwd.obj
        BY <2>1 DEF WireInv
      <3> QED BY <1>4, <2>1, <2>3, <3>2, <3>3
    <2> QED BY <2>2, <2>3
  <1>8. ASSUME NEW q \in buffer', resetDownstream'[Down(q)] = "none"
        PROVE  IF q.sentOffset = 0 THEN wire'[Down(q)].obj < q.obj
               ELSE wire'[Down(q)] = [obj |-> q.obj, off |-> q.sentOffset]
    <2>1. CASE q = next /\ q \notin buffer \ {p}
      <3>1. Down(q) = d /\ q.obj = p.obj /\ q.sentOffset = p.sentOffset + n
        BY <1>1, <2>1 DEF d
      <3>2. q.sentOffset # 0
        BY <1>1, <1>3, <3>1
      <3> QED BY <1>4, <3>1, <3>2
    <2>2. CASE q \in buffer \ {p}
      <3>1. CASE Down(q) = d
        <4>1. p.obj < q.obj /\ q.sentOffset = 0
          BY <1>2, <2>2, <3>1, BehindFront DEF d
        <4> QED BY <1>5, <3>1, <4>1
      <3>2. CASE Down(q) # d
        <4>1. Down(q) \in DownSubgroups
          BY <2>2, ItemFacts
        <4>2. wire'[Down(q)] = wire[Down(q)]
          BY <1>4, <3>2, <4>1
        <4> QED BY <1>2, <1>8, <2>2, <4>2 DEF WireInv
      <3> QED BY <3>1, <3>2
    <2> QED BY <1>1, <2>1, <2>2
  <1> QED BY <1>6, <1>7, <1>8 DEF WireInv

\* Every step keeps what is known of the streams.
LEMMA WireNext ==
  ASSUME ShapeInv, RegisteredInv, OrderInv, WireInv, Next
  PROVE  WireInv'
  <1> USE DEF ShapeInv
  <1>0. ControlOK'
    BY ControlNext
  <1>1. ASSUME UNCHANGED <<wire, received>>, buffer' \subseteq buffer,
               \A p \in buffer' :
                 resetDownstream'[Down(p)] = "none" => resetDownstream[Down(p)] = "none",
               Looping' => /\ Looping /\ FwdSubgroup' = FwdSubgroup
                           /\ fwd'.obj = fwd.obj /\ Waiting' \subseteq Waiting
        PROVE  WireInv'
    BY <1>0, <1>1, WireStill
  <1>2. CASE \/ CheckFires
             \/ \E s \in Subscribers : QuicFullOrRejected(s) \/ QuicDrain(s) \/ QuicHandleRequest(s)
             \/ \E s \in Subscribers, g \in Subgroups : QuicAck(s, g)
             \/ \E t \in Tracks : Announce(t)
             \/ \E s \in Subscribers, t \in Tracks : Subscribe(s, t)
             \/ \E p \in Publishers : ClosePublisher(p)
    <2>1. /\ UNCHANGED <<wire, received, buffer, resetDownstream>>
          /\ pc' \in {"idle", "flush"}
      BY <1>2 DEF CheckFires, queues, arrivals, QuicFullOrRejected, QuicDrain, QuicHandleRequest,
         QuicAck, Announce, Subscribe, ClosePublisher, NewInstant
    <2> QED BY <1>1, <2>1 DEF Looping
  <1>3. ASSUME NEW s \in Subscribers, CloseSubscriber(s) PROVE WireInv'
    <2>1. /\ UNCHANGED <<wire, received>> /\ buffer' = buffer \ Queue(s) /\ pc' = "idle"
          /\ resetDownstream' = [d \in DownSubgroups |->
                                   IF d[1] = s THEN "none" ELSE resetDownstream[d]]
      BY <1>3 DEF CloseSubscriber, arrivals, NewInstant
    <2>2. ASSUME NEW p \in buffer' PROVE resetDownstream'[Down(p)] = resetDownstream[Down(p)]
      BY <2>1, ItemFacts DEF Queue
    <2> QED BY <1>1, <2>1, <2>2 DEF Looping
  <1>4. CASE SkipSubscriber \/ EndFlush \/ \E s \in Subscribers : RefuseObject(s)
    <2>1. UNCHANGED <<wire, received, subscriberByTrack, buffer, resetDownstream>>
      BY <1>4 DEF SkipSubscriber, RefuseObject, EndFlush, queues, arrivals
    <2>2. CASE SkipSubscriber \/ \E s \in Subscribers : RefuseObject(s)
      <3>1. pc = "forward" /\ pc' = pc /\ fwd' = [fwd EXCEPT !.i = fwd.i + 1]
        BY <2>2 DEF SkipSubscriber, RefuseObject, Forwarding, NextSubscriber
      <3> QED BY <1>1, <2>1, <3>1, WaitingKept DEF Looping
    <2>3. CASE EndFlush
      <3>1. \/ pc = "flushForward" /\ fwd' = [fwd EXCEPT !.i = fwd.i + 1]
            \/ pc' = "idle"
        BY <2>3 DEF EndFlush, Flushing
      <3> QED BY <1>1, <2>1, <3>1, WaitingKept DEF Looping
    <2> QED BY <1>4, <2>2, <2>3
  <1>5. CASE EndDone \/ ForwardDone \/ \E p \in buffer : DropWithSubgroup(p) \/ DropStale(p)
    <2>1. UNCHANGED <<wire, received, subscriberByTrack>> /\ buffer' \subseteq buffer
      BY <1>5 DEF EndDone, ForwardDone, DropWithSubgroup, DropStale, queues, arrivals
    <2>2. \/ fwd' = fwd /\ pc = "end" /\ pc' = "flushForward"
          \/ fwd' = fwd /\ pc' = pc
          \/ pc' = "idle"
      BY <1>5 DEF EndDone, ForwardDone, DropWithSubgroup, DropStale
    <2>3. ASSUME NEW q \in buffer', resetDownstream'[Down(q)] = "none"
          PROVE  resetDownstream[Down(q)] = "none"
      <3>1. CASE EndDone \/ ForwardDone \/ \E p \in buffer : DropWithSubgroup(p)
        BY <2>3, <3>1 DEF EndDone, ForwardDone, DropWithSubgroup, queues
      <3>2. ASSUME NEW p \in buffer, DropStale(p) PROVE resetDownstream[Down(q)] = "none"
        <4>1. resetDownstream' = [d \in DownSubgroups |->
                                    IF d \in TornBy(p) THEN "TIMEOUT" ELSE resetDownstream[d]]
          BY <3>2 DEF DropStale
        <4>2. Down(q) \in DownSubgroups
          BY <2>1, ItemFacts
        <4> QED BY <2>3, <4>1, <4>2
      <3> QED BY <1>5, <3>1, <3>2
    <2> QED BY <1>1, <2>1, <2>2, <2>3, WaitingKept DEF Looping
  <1>6. ASSUME NEW S, NEW t \in Tracks, NEW status, EndSubscriberTrack(S, t, status)
        PROVE  /\ buffer' \subseteq buffer
               /\ \A p \in buffer' :
                    resetDownstream'[Down(p)] = "none" => resetDownstream[Down(p)] = "none"
               /\ subscriberByTrack' = [subscriberByTrack EXCEPT
                    ![t] = Erased(subscriberByTrack[t], Live(S))]
    <2>1. /\ buffer' \subseteq buffer
          /\ resetDownstream' = [d \in DownSubgroups |-> IF d \in Torn(S, t) THEN "OVERFLOW"
                                                        ELSE resetDownstream[d]]
          /\ subscriberByTrack' = [subscriberByTrack EXCEPT
               ![t] = Erased(subscriberByTrack[t], Live(S))]
      BY <1>6, EndEffect
    <2> QED BY <2>1, ItemFacts
  <1>7. ASSUME NEW t \in Tracks, EndTrackDownstream(t) PROVE WireInv'
    <2>1. /\ UNCHANGED <<wire, received>> /\ pc' = "idle"
          /\ EndSubscriberTrack(Range(subscriberByTrack[t]), t, "TRACK_ENDED")
      BY <1>7 DEF EndTrackDownstream, arrivals, SameInstant, NewInstant
    <2> QED BY <1>1, <1>6, <2>1 DEF Looping
  <1>8. ASSUME NEW t \in Tracks, EndTrack(t) PROVE WireInv'
    <2>1. EndSubscriberTrack({ending.who}, t, "TOO_FAR_BEHIND")
          /\ UNCHANGED <<wire, received, pc, fwd>> /\ pc = "end"
      BY <1>8 DEF EndTrack, arrivals
    <2>2. FwdSubgroup' = FwdSubgroup /\ Waiting' \subseteq Waiting
      BY <1>6, <2>1, WaitingErased
    <2> QED BY <1>1, <1>6, <2>1, <2>2 DEF Looping
  <1>9. CASE Tick
    <2> DEFINE f == [q \in buffer |-> Older(q)]
    <2>1. Carried(f)
      <3>1. buffer' = {Older(p) : p \in buffer} /\ wire' = wire
        BY <1>9 DEF Tick
      <3> QED BY <3>1, OlderFacts DEF Carried, SameKeys, BufferShape
    <2> HIDE DEF f
    <2>2. UNCHANGED <<received, resetDownstream>> /\ pc' = "idle"
      BY <1>9 DEF Tick, NewInstant, arrivals
    <2>3. \A g \in Subgroups : received[g] <= received'[g]
      BY <2>2 DEF ControlOK
    <2> QED BY <1>0, <2>1, <2>2, <2>3, WireCarried DEF Looping
  <1>10. ASSUME NEW t, NEW g, <<t, g>> \in Subgroups, NEW a, OnObjectFrame(t, g, a)
        PROVE  WireInv'
    <2>1. /\ received' = [received EXCEPT ![<<t, g>>] = @ + 1]
          /\ UNCHANGED <<buffer, wire, resetDownstream, subscriberByTrack>>
          /\ fwd' = [track |-> t, group |-> g, obj |-> received[<<t, g>>],
                     pos |-> arrived, age |-> a, i |-> 1, n |-> Len(subscriberByTrack[t])]
      BY <1>10 DEF OnObjectFrame, queues
    <2>2. FwdSubgroup' = <<t, g>> /\ fwd'.obj = received[<<t, g>>] /\ fwd'.track = t
      BY <2>1 DEF FwdSubgroup
    <2>3. ASSUME NEW d \in DownSubgroups PROVE wire'[d].obj < received'[d[2]]
      <3>1. d[2] \in Subgroups /\ received[d[2]] \in Nat /\ wire[d].obj \in Int
        BY DEF DownSubgroups, ControlOK, StreamShape
      <3>2. received'[d[2]] = received[d[2]] \/ received'[d[2]] = received[d[2]] + 1
        BY <2>1, <3>1 DEF ControlOK
      <3>3. wire[d].obj < received[d[2]]
        BY DEF WireInv
      <3> QED BY <2>1, <3>1, <3>2, <3>3
    <2>4. ASSUME NEW x \in Waiting' PROVE wire'[<<x, FwdSubgroup'>>].obj < fwd'.obj
      <3>1. subscriberByTrack'[t] \in Seq(Subscribers)
        BY <1>0, <1>10 DEF ControlOK, Subgroups
      <3>2. x \in Subscribers
        BY <2>2, <3>1 DEF Waiting, Places
      <3>3. <<x, <<t, g>>>> \in DownSubgroups
        BY <1>10, <3>2 DEF DownSubgroups
      <3>4. wire[<<x, <<t, g>>>>].obj < received[<<x, <<t, g>>>>[2]]
        BY <3>3 DEF WireInv
      <3> QED BY <2>1, <2>2, <3>4
    <2> QED BY <2>1, <2>3, <2>4 DEF WireInv
  <1>11. CASE \E a \in {0, AgeCap(fwd.track)} : NextInPacket(a)
    BY <1>10, <1>11, LoopFacts DEF NextInPacket, FwdSubgroup
  <1>12. CASE \E g \in Subgroups : \E a \in {0, AgeCap(g[1])} : ObjectArrives(g[1], g[2], a)
    BY <1>10, <1>12 DEF ObjectArrives, Subgroups
  <1>13. CASE \/ \E s \in Subscribers : ForwardObject(s)
              \/ \E p \in buffer : WriteChunk(p)
    BY <1>13, WireForward, WireWrite
  <1> QED BY <1>2, <1>3, <1>4, <1>5, <1>7, <1>8, <1>9, <1>11, <1>12, <1>13
          DEF Next, Application, Peers, FlushStep

\* A stream carries what its queue has begun, and nothing of what it has not.
LEMMA WireInvariant == Spec => []WireInv
  <1>1. Init => WireInv
    BY DEF Init, WireInv, Looping, DownSubgroups
  <1>2. ShapeInv /\ RegisteredInv /\ OrderInv /\ WireInv /\ [Next]_vars => WireInv'
    <2>1. WireInv /\ UNCHANGED vars => WireInv'
      BY DEF WireInv, Looping, FwdSubgroup, Waiting, Places, vars, queues, arrivals
    <2> QED BY <2>1, WireNext
  <1> QED BY <1>1, <1>2, ShapeInvariant, RegisteredInvariant, OrderInvariant, PTL DEF Spec

\* A step that writes nothing and queues nothing, and takes what is begun only with
\* its stream or with its connection.
LEMMA FrameStill ==
  ASSUME FrameIntegrity, WireInv, BufferShape,
         wire' = wire, buffer' \subseteq buffer, openPeers' \subseteq openPeers,
         \A d \in DownSubgroups :
           d[1] \in openPeers' /\ resetDownstream'[d] = "none" =>
             /\ resetDownstream[d] = "none"
             /\ \A p \in buffer : Down(p) = d /\ p.sentOffset > 0 => p \in buffer'
  PROVE  FrameIntegrity'
  <1> DEFINE f == [p \in buffer |-> p]
  <1>1. Carried(f)
    BY DEF Carried, SameKeys
  <1>2. \A p \in buffer : p \in buffer' =>
          f[p] \in buffer' /\ SameKeys(p, f[p]) /\ f[p].sentOffset = p.sentOffset
    BY DEF SameKeys
  <1> HIDE DEF f
  <1> QED BY <1>1, <1>2, FrameCarried

\* The object that is queued goes behind the one begun.
LEMMA FrameForward ==
  ASSUME ShapeInv, RegisteredInv, OrderInv, FrameIntegrity, NEW s \in Subscribers,
         ForwardObject(s)
  PROVE  FrameIntegrity'
  <1> USE DEF ShapeInv
  <1> DEFINE new == FwdItem(s)
  <1>1. /\ buffer' = buffer \cup {new} /\ s \in subscriberSockets /\ Forwarding(s)
        /\ UNCHANGED <<wire, resetDownstream, subscriberByTrack, fwd, openPeers>>
        /\ pc' \in {"end", "flushForward"}
    BY DEF ForwardObject, FwdItem, control
  <1>2. Looping /\ s \in Waiting
    BY <1>1, WaitingOthers
  <1>3. new.obj = fwd.obj /\ Down(new) = <<s, FwdSubgroup>>
    BY FwdItemFacts
  <1> HIDE DEF new
  <1>4. \A p \in buffer : Down(p) = Down(new) => p.obj < new.obj
    <2> SUFFICES ASSUME NEW p \in buffer, Down(p) = Down(new) PROVE p.obj < new.obj
      OBVIOUS
    <2>1. p.sub = s /\ Subgroup(p) = FwdSubgroup
      BY <1>3, ItemFacts
    <2> QED BY <1>2, <1>3, <2>1 DEF OrderInv, Queue
  <1>5. new.obj \in Nat /\ \A p \in buffer : p.obj \in Nat
    BY <1>3, LoopFacts, ItemFacts
  <1> SUFFICES ASSUME NEW d \in DownSubgroups, d[1] \in openPeers', resetDownstream'[d] = "none",
                      ~Complete(d)', ~Untouched(d)'
               PROVE  \E p \in buffer' :
                        /\ Down(p) = d
                        /\ p.obj = wire'[d].obj /\ p.sentOffset = wire'[d].off
                        /\ \A q \in buffer' \ {p} : Down(q) = d => q.obj > p.obj
    BY DEF FrameIntegrity, Down, Subgroup
  <1>6. ~Complete(d) /\ ~Untouched(d) /\ wire'[d] = wire[d]
        /\ d[1] \in openPeers /\ resetDownstream[d] = "none"
    BY <1>1 DEF Complete, Untouched
  <1>7. PICK p \in buffer : /\ Down(p) = d
                            /\ p.obj = wire[d].obj /\ p.sentOffset = wire[d].off
                            /\ \A q \in buffer \ {p} : Down(q) = d => q.obj > p.obj
    BY <1>6 DEF FrameIntegrity
  <1>8. \A q \in buffer' \ {p} : Down(q) = d => q.obj > p.obj
    BY <1>1, <1>4, <1>5, <1>7
  <1> QED BY <1>1, <1>6, <1>7, <1>8

\* A slice completes its object, or leaves it begun and first.
LEMMA FrameWrite ==
  ASSUME ShapeInv, OrderInv, FrameIntegrity, NEW p \in buffer, WriteChunk(p)
  PROVE  FrameIntegrity'
  <1> USE DEF ShapeInv
  <1>1. PICK n \in Nat \ {0}, next \in Items :
           /\ next.sub = p.sub /\ next.track = p.track /\ next.group = p.group
           /\ next.obj = p.obj /\ next.sentOffset = p.sentOffset + n /\ Down(next) = Down(p)
           /\ \/ p.sentOffset + n = ObjectBytes[p.track] /\ buffer' = buffer \ {p}
              \/ buffer' = (buffer \ {p}) \cup {next}
           /\ wire' = [wire EXCEPT ![Down(p)] = [obj |-> p.obj, off |-> p.sentOffset + n]]
    BY WriteEffect
  <1>2. /\ UNCHANGED <<resetDownstream, openPeers>>
        /\ IsFront(p)
    BY DEF WriteChunk, control
  <1> SUFFICES ASSUME NEW d \in DownSubgroups, d[1] \in openPeers', resetDownstream'[d] = "none",
                      ~Complete(d)', ~Untouched(d)'
               PROVE  \E q \in buffer' :
                        /\ Down(q) = d
                        /\ q.obj = wire'[d].obj /\ q.sentOffset = wire'[d].off
                        /\ \A r \in buffer' \ {q} : Down(r) = d => r.obj > q.obj
    BY DEF FrameIntegrity, Down, Subgroup
  <1>3. CASE d = Down(p)
    <2>1. wire'[d] = [obj |-> p.obj, off |-> p.sentOffset + n]
      BY <1>1, <1>3 DEF StreamShape
    <2>2. wire'[d].obj = p.obj /\ wire'[d].off = p.sentOffset + n
      BY <2>1
    <2>3. d[2][1] = p.track
      BY <1>3, ItemFacts
    <2>4. buffer' = (buffer \ {p}) \cup {next}
      BY <1>1, <2>2, <2>3 DEF Complete
    <2>5. \A r \in buffer' \ {next} : Down(r) = d => r.obj > next.obj
      BY <1>1, <1>2, <1>3, <2>4, FrontFirst, ItemFacts
    <2> QED BY <1>1, <1>3, <2>2, <2>4, <2>5
  <1>4. CASE d # Down(p)
    <2>1. wire'[d] = wire[d]
      BY <1>1, <1>4 DEF StreamShape
    <2>2. ~Complete(d) /\ ~Untouched(d) /\ d[1] \in openPeers /\ resetDownstream[d] = "none"
      BY <1>2, <2>1 DEF Complete, Untouched
    <2>3. PICK q \in buffer : /\ Down(q) = d
                              /\ q.obj = wire[d].obj /\ q.sentOffset = wire[d].off
                              /\ \A r \in buffer \ {q} : Down(r) = d => r.obj > q.obj
      BY <2>2 DEF FrameIntegrity
    <2>4. q \in buffer' /\ \A r \in buffer' \ {q} : Down(r) = d => r.obj > q.obj
      BY <1>1, <1>4, <2>3
    <2> QED BY <2>1, <2>3, <2>4
  <1> QED BY <1>3, <1>4

\* Every step keeps the frames whole.
LEMMA FrameNext ==
  ASSUME ShapeInv, RegisteredInv, OrderInv, WireInv, FrameIntegrity, Next
  PROVE  FrameIntegrity'
  <1> USE DEF ShapeInv
  <1>1. CASE \/ SkipSubscriber \/ EndDone \/ ForwardDone \/ EndFlush \/ CheckFires
             \/ \E s \in Subscribers : RefuseObject(s)
             \/ \E s \in Subscribers : QuicFullOrRejected(s) \/ QuicDrain(s) \/ QuicHandleRequest(s)
             \/ \E s \in Subscribers, g \in Subgroups : QuicAck(s, g)
             \/ \E t \in Tracks : Announce(t)
             \/ \E s \in Subscribers, t \in Tracks : Subscribe(s, t)
             \/ \E p \in Publishers : ClosePublisher(p)
             \/ \E a \in {0, AgeCap(fwd.track)} : NextInPacket(a)
             \/ \E g \in Subgroups : \E a \in {0, AgeCap(g[1])} : ObjectArrives(g[1], g[2], a)
    <2>1. UNCHANGED <<wire, buffer, resetDownstream>> /\ openPeers' \subseteq openPeers
      BY <1>1 DEF SkipSubscriber, EndDone, ForwardDone, EndFlush, CheckFires, RefuseObject,
         QuicFullOrRejected, QuicDrain, QuicHandleRequest, QuicAck, Announce, Subscribe,
         ClosePublisher, NextInPacket, ObjectArrives, OnObjectFrame, queues, control
    <2> QED BY <2>1, FrameStill
  <1>2. ASSUME NEW s \in Subscribers, CloseSubscriber(s) PROVE FrameIntegrity'
    <2>1. /\ wire' = wire /\ openPeers' = openPeers \ {s} /\ buffer' = buffer \ Queue(s)
          /\ resetDownstream' = [d \in DownSubgroups |->
                                   IF d[1] = s THEN "none" ELSE resetDownstream[d]]
      BY <1>2 DEF CloseSubscriber
    <2>2. ASSUME NEW d \in DownSubgroups, d[1] \in openPeers', resetDownstream'[d] = "none"
          PROVE  /\ resetDownstream[d] = "none"
                 /\ \A p \in buffer : Down(p) = d /\ p.sentOffset > 0 => p \in buffer'
      BY <2>1, <2>2, ItemFacts DEF Queue
    <2> QED BY <2>1, <2>2, FrameStill
  <1>3. ASSUME NEW p \in buffer, DropWithSubgroup(p) PROVE FrameIntegrity'
    <2>1. /\ UNCHANGED <<wire, resetDownstream, openPeers>> /\ buffer' = buffer \ {p}
          /\ resetDownstream[Down(p)] # "none"
      BY <1>3 DEF DropWithSubgroup, control
    <2> QED BY <2>1, FrameStill
  <1>4. ASSUME NEW p \in buffer, DropStale(p) PROVE FrameIntegrity'
    <2>1. /\ UNCHANGED <<wire, openPeers>> /\ buffer' = buffer \ {p}
          /\ resetDownstream' = [d \in DownSubgroups |->
                                   IF d \in TornBy(p) THEN "TIMEOUT" ELSE resetDownstream[d]]
      BY <1>4 DEF DropStale, control
    <2>2. ASSUME NEW d \in DownSubgroups, resetDownstream'[d] = "none"
          PROVE  /\ resetDownstream[d] = "none"
                 /\ \A q \in buffer : Down(q) = d /\ q.sentOffset > 0 => q \in buffer'
      BY <2>1, <2>2 DEF TornBy
    <2> QED BY <2>1, <2>2, FrameStill
  <1>5. ASSUME NEW S, NEW t \in Tracks, NEW status, EndSubscriberTrack(S, t, status),
               UNCHANGED <<wire, openPeers>>
        PROVE  FrameIntegrity'
    <2>1. /\ buffer' = buffer \ Gone(S, t)
          /\ resetDownstream' = [d \in DownSubgroups |-> IF d \in Torn(S, t) THEN "OVERFLOW"
                                                        ELSE resetDownstream[d]]
      BY <1>5, EndEffect
    <2>2. ASSUME NEW d \in DownSubgroups, resetDownstream'[d] = "none"
          PROVE  /\ resetDownstream[d] = "none"
                 /\ \A q \in buffer : Down(q) = d /\ q.sentOffset > 0 => q \in buffer'
      BY <2>1, <2>2 DEF Torn
    <2> QED BY <1>5, <2>1, <2>2, FrameStill
  <1>6. CASE \E t \in Tracks : EndTrackDownstream(t) \/ EndTrack(t)
    BY <1>5, <1>6 DEF EndTrackDownstream, EndTrack, control
  <1>7. CASE Tick
    <2> DEFINE f == [q \in buffer |-> Older(q)]
    <2>1. /\ buffer' = {Older(p) : p \in buffer}
          /\ UNCHANGED <<wire, openPeers, resetDownstream>>
      BY <1>7 DEF Tick, control
    <2>2. Carried(f)
      BY <2>1, OlderFacts DEF Carried, SameKeys, BufferShape
    <2>3. \A p \in buffer :
            f[p] \in buffer' /\ SameKeys(p, f[p]) /\ f[p].sentOffset = p.sentOffset
      BY <2>1, OlderFacts DEF SameKeys, BufferShape
    <2> HIDE DEF f
    <2> QED BY <2>1, <2>2, <2>3, FrameCarried
  <1>8. CASE \/ \E s \in Subscribers : ForwardObject(s)
             \/ \E p \in buffer : WriteChunk(p)
    BY <1>8, FrameForward, FrameWrite
  <1> QED BY <1>1, <1>2, <1>3, <1>4, <1>6, <1>7, <1>8 DEF Next, Application, Peers, FlushStep

\* A subscriber is left with no torn frame: an object written in part on a stream that
\* was not reset is still queued, at the offset reached and ahead of its successors.
THEOREM FramesIntact == Spec => []FrameIntegrity
  <1>1. Init => FrameIntegrity
    BY DEF Init, FrameIntegrity, Untouched
  <1>2. ShapeInv /\ RegisteredInv /\ OrderInv /\ WireInv /\ FrameIntegrity /\ [Next]_vars
        => FrameIntegrity'
    <2>1. FrameIntegrity /\ UNCHANGED vars => FrameIntegrity'
      BY DEF FrameIntegrity, Complete, Untouched, Down, Subgroup, vars, queues, control
    <2> QED BY <2>1, FrameNext
  <1> QED BY <1>1, <1>2, ShapeInvariant, RegisteredInvariant, OrderInvariant, WireInvariant, PTL DEF Spec

\* No object is combined with another or split: each slice continues the object its
\* stream carries, or begins a later one after a complete one, on a stream not reset.
THEOREM StreamsDisciplined == Spec => StreamDiscipline
  <1> DEFINE Step == \A d \in DownSubgroups : wire'[d] # wire[d] =>
                       /\ resetDownstream[d] = "none"
                       /\ \/ wire'[d].obj = wire[d].obj /\ wire'[d].off > wire[d].off
                          \/ /\ wire'[d].obj > wire[d].obj /\ wire'[d].off <= ChunkBytes
                             /\ Complete(d) \/ Untouched(d)
  <1>1. ShapeInv /\ RegisteredInv /\ OrderInv /\ WireInv /\ FrameIntegrity /\ [Next]_vars
        => [Step]_vars
    <2> SUFFICES ASSUME ShapeInv, RegisteredInv, OrderInv, WireInv, FrameIntegrity, [Next]_vars,
                        NEW d \in DownSubgroups, wire'[d] # wire[d]
                 PROVE  /\ resetDownstream[d] = "none"
                        /\ \/ wire'[d].obj = wire[d].obj /\ wire'[d].off > wire[d].off
                           \/ /\ wire'[d].obj > wire[d].obj /\ wire'[d].off <= ChunkBytes
                              /\ Complete(d) \/ Untouched(d)
      OBVIOUS
    <2> USE DEF ShapeInv
    <2>1. PICK p \in buffer : WriteChunk(p)
      BY WireKept
    <2>2. PICK n \in Nat \ {0} :
             /\ n <= ChunkBytes
             /\ wire' = [wire EXCEPT ![Down(p)] = [obj |-> p.obj, off |-> p.sentOffset + n]]
      BY <2>1, WriteEffect
    <2>3. d = Down(p) /\ wire'[d] = [obj |-> p.obj, off |-> p.sentOffset + n]
      BY <2>2 DEF StreamShape
    <2>4. /\ wire'[d].obj = p.obj /\ wire'[d].off = p.sentOffset + n
          /\ p.obj \in Nat /\ p.sentOffset \in Nat /\ d[1] = p.sub
      BY <2>3, ItemFacts
    <2>5. IsFront(p) /\ resetDownstream[d] = "none"
      BY <2>1, <2>3 DEF WriteChunk
    <2>6. IF p.sentOffset = 0 THEN wire[d].obj < p.obj
          ELSE wire[d] = [obj |-> p.obj, off |-> p.sentOffset]
      BY <2>3, <2>5 DEF WireInv
    <2>7. CASE p.sentOffset # 0
      <3>1. wire[d].obj = p.obj /\ wire[d].off = p.sentOffset
        BY <2>6, <2>7
      <3> QED BY <2>2, <2>4, <2>5, <3>1
    <2>8. CASE p.sentOffset = 0
      <3>1. wire'[d].obj > wire[d].obj /\ wire'[d].off <= ChunkBytes
        BY <2>2, <2>4, <2>6, <2>8, RelayAssumption DEF StreamShape
      <3>2. ASSUME ~Complete(d), ~Untouched(d) PROVE FALSE
        <4>1. d[1] \in openPeers
          BY <2>4 DEF RegisteredInv, ControlOK
        <4>2. PICK q \in buffer : Down(q) = d /\ q.obj = wire[d].obj
                                  /\ \A r \in buffer \ {q} : Down(r) = d => r.obj > q.obj
          BY <2>5, <3>2, <4>1 DEF FrameIntegrity
        <4>3. q.obj \in Nat /\ q.obj < p.obj
          BY <2>6, <2>8, <4>2, ItemFacts
        <4>4. q # p
          BY <2>4, <4>3
        <4>5. p.obj < q.obj
          BY <2>3, <2>5, <4>2, <4>4, FrontFirst
        <4> QED BY <2>4, <4>3, <4>5
      <3> QED BY <2>5, <3>1, <3>2
    <2> QED BY <2>7, <2>8
  <1> QED BY <1>1, ShapeInvariant, RegisteredInvariant, OrderInvariant, WireInvariant, FramesIntact, PTL
          DEF Spec, StreamDiscipline
=============================================================================
