------------------------- MODULE MoqPublisherProofs -------------------------
(* Theorems about MoqPublisher, for every set of tracks and every limit: its *)
(* objects, teardown, timeouts and streams; then its accounts, of objects    *)
(* and of bytes handed to QUIC.                                              *)
EXTENDS MoqPublisher, FiniteSetTheorems, FunctionTheorems, SequenceTheorems, TLAPS

-----------------------------------------------------------------------------
(* Type correctness.                                                       *)

\* The type invariant is inductive together with these facts: the sets that are
\* counted are finite, no object written in full is still in the buffer, and a
\* burst does not run past the last object.
TypeInv ==
  /\ TypeOK
  /\ IsFiniteSet(sendBuffer)
  /\ IsFiniteSet(outstanding)
  /\ \A p \in sendBuffer : p.sentOffset < ObjectBytes[p.track]
  /\ nextObjectId[burst.track] + burst.left <= MaxObjects

LEMMA SubgroupsFinite == IsFiniteSet(Subgroups)
  <1>1. IsFiniteSet(Tracks)
    BY TracksAssumption
  <1>2. IsFiniteSet(0 .. MaxObjects - 1)
    BY LimitsAssumption, FS_Interval
  <1> QED BY <1>1, <1>2, FS_Product DEF Subgroups

\* A set of subgroups, and a part of a finite set, can be counted.
LEMMA SubgroupsCount == \A S \in SUBSET Subgroups : Cardinality(S) \in Nat
  BY SubgroupsFinite, FS_Subset, FS_CardinalityType

LEMMA PartCount ==
  ASSUME NEW S, IsFiniteSet(S), NEW t
  PROVE  Cardinality(Of(t, S)) \in Nat
  BY FS_Subset, FS_CardinalityType DEF Of

LEMMA SubgroupType ==
  /\ \A p \in Pending : Subgroup(p) \in Subgroups
  /\ \A o \in OutstandingObj : Subgroup(o) \in Subgroups
  BY DEF Pending, OutstandingObj, Subgroup, Subgroups

\* Objects stay what they are when they age, and keep all but their age.
LEMMA OlderType ==
  /\ \A p \in Pending : Older(p) \in Pending
  /\ \A o \in OutstandingObj : Older(o) \in OutstandingObj
  BY DEF Older, Pending, OutstandingObj

LEMMA OlderFinite ==
  ASSUME NEW S, IsFiniteSet(S)
  PROVE  IsFiniteSet({Older(o) : o \in S})
  <1> DEFINE T == {Older(o) : o \in S}
             f == [o \in S |-> Older(o)]
  <1>1. f \in [S -> T] /\ \A x \in T : \E o \in S : f[o] = x
    OBVIOUS
  <1> HIDE DEF f, T
  <1>2. f \in Surjection(S, T)
    BY <1>1, Fun_IsSurj
  <1>3. IsFiniteSet(T)
    BY <1>2, FS_Surjection
  <1> QED BY <1>3 DEF T

\* Between two bursts no object is left to offer.
LEMMA IdleBurstType ==
  /\ IdleBurst \in [track : Tracks, group : 0 .. MaxObjects - 1, left : Nat]
  /\ IdleBurst.left = 0
  <1>1. (CHOOSE t \in Tracks : TRUE) \in Tracks
    BY TracksAssumption
  <1> QED BY <1>1, LimitsAssumption DEF IdleBurst

\* The initial state.
LEMMA TypeInit == Init => TypeInv
  <1> SUFFICES ASSUME Init PROVE TypeInv
    OBVIOUS
  <1>1. TimersOK
    <2>1. /\ timer \in [Tracks -> Int]
          /\ timerKind \in [Tracks -> {"PUB_ANNOUNCE", "SUB_SUCCESS"}]
          /\ subscribeOks \in [Tracks -> 0 .. MaxSubscribeOk]
      BY LimitsAssumption DEF Init, Off
    <2>2. checkTimer \in 0 .. CheckInterval
      BY LimitsAssumption DEF Init
    <2>3. connected \in BOOLEAN
      BY DEF Init
    <2> QED BY <2>1, <2>2, <2>3 DEF TimersOK
  <1>2. BurstOK
    <2>1. /\ nextObjectId \in [Tracks -> 0 .. MaxObjects]
          /\ nextPos \in [Levels -> Nat]
      BY LimitsAssumption DEF Init
    <2> QED BY <2>1, IdleBurstType DEF Init, BurstOK
  <1>3. ObjectsOK
    BY DEF Init, ObjectsOK
  <1>4. StreamsOK
    BY LimitsAssumption DEF Init, StreamsOK
  <1>5. CountersOK
    BY DEF Init, CountersOK
  <1>6. QuicOK
    <2>1. Quic!FreshConnection \in Quic!Connections
      BY DEF Quic!FreshConnection, Quic!Connections, Quic!Indications, Quic!Requests
    <2> QED BY <2>1 DEF Init, QuicOK
  <1>7. IsFiniteSet({})
    BY FS_EmptySet
  <1>8. nextObjectId[burst.track] + burst.left <= MaxObjects
    BY IdleBurstType, LimitsAssumption DEF Init
  <1> QED BY <1>1, <1>2, <1>3, <1>4, <1>5, <1>6, <1>7, <1>8 DEF Init, TypeInv, TypeOK

\* The steps that only change timers, the burst or what QUIC holds.
LEMMA TypeClocks ==
  ASSUME TypeInv,
         \/ SocketEstablished \/ QuicFullOrRejected \/ QuicDrain \/ EndFlush
         \/ QuicHandleRequest \/ EndGroup
         \/ \E t \in Tracks : AnnounceTrack(t) \/ SubscribeOk(t) \/ StartGroup(t)
         \/ \E s \in Subgroups : QuicAck(s)
  PROVE  TypeInv'
  <1> USE DEF TypeInv, TypeOK
  <1> DEFINE Other == /\ ObjectsOK' /\ StreamsOK' /\ CountersOK'
                      /\ IsFiniteSet(sendBuffer)' /\ IsFiniteSet(outstanding)'
                      /\ (\A p \in sendBuffer : p.sentOffset < ObjectBytes[p.track])'
  <1>0. ASSUME UNCHANGED <<sendBuffer, outstanding, streams, counters, wire>>
        PROVE  Other
    BY <1>0 DEF ObjectsOK, StreamsOK, CountersOK, streams, counters
  <1>1. CASE SocketEstablished
    BY <1>0, <1>1 DEF SocketEstablished, TimersOK, BurstOK, QuicOK
  <1>2. CASE QuicFullOrRejected
    BY <1>0, <1>2, Quic!TakeIndicationType
       DEF QuicFullOrRejected, clocks, TimersOK, BurstOK, QuicOK
  <1>3. CASE QuicDrain
    BY <1>0, <1>3, Quic!TakeIndicationType
       DEF QuicDrain, BytesAtFlush, clocks, TimersOK, BurstOK, QuicOK, NotYet
  <1>4. CASE EndFlush
    BY <1>0, <1>4 DEF EndFlush, clocks, TimersOK, BurstOK, QuicOK
  <1>5. CASE QuicHandleRequest
    BY <1>0, <1>5, Quic!HandleRequestType
       DEF QuicHandleRequest, clocks, TimersOK, BurstOK, QuicOK
  <1>6. CASE EndGroup
    <2>1. TimersOK' /\ QuicOK'
      <3>1. timer' \in [Tracks -> Int]
        <4>1. SendInterval[burst.track] \in Int /\ Off \in Int
          BY TracksAssumption DEF BurstOK, Off
        <4>2. \E v \in Int : timer' = [timer EXCEPT ![burst.track] = v]
          BY <1>6, <4>1 DEF EndGroup
        <4> QED BY <4>2 DEF TimersOK
      <3> QED BY <1>6, <3>1 DEF EndGroup, TimersOK, QuicOK
    <2>2. BurstOK'
      BY <1>6, IdleBurstType DEF EndGroup, BurstOK
    <2>3. nextObjectId'[burst'.track] + burst'.left <= MaxObjects
      <3>1. nextObjectId[IdleBurst.track] \in 0 .. MaxObjects
        BY IdleBurstType DEF BurstOK
      <3> QED BY <1>6, <3>1, IdleBurstType, LimitsAssumption DEF EndGroup
    <2> QED BY <1>0, <1>6, <2>1, <2>2, <2>3 DEF EndGroup
  <1>7. ASSUME NEW t \in Tracks, AnnounceTrack(t) PROVE TypeInv'
    BY <1>0, <1>7, Quic!RequestsType DEF AnnounceTrack, TimersOK, BurstOK, QuicOK, Off
  <1>8. ASSUME NEW t \in Tracks, SubscribeOk(t) PROVE TypeInv'
    <2>1. timer' \in [Tracks -> Int]
      BY <1>8 DEF SubscribeOk, TimersOK
    <2>2. subscribeOks' \in [Tracks -> 0 .. MaxSubscribeOk]
      BY <1>8, LimitsAssumption DEF SubscribeOk, TimersOK
    <2>3. timerKind' \in [Tracks -> {"PUB_ANNOUNCE", "SUB_SUCCESS"}]
      BY <1>8 DEF SubscribeOk, TimersOK
    <2>4. TimersOK'
      BY <1>8, <2>1, <2>2, <2>3 DEF SubscribeOk, TimersOK
    <2> QED BY <1>0, <1>8, <2>4 DEF SubscribeOk, NewInstant, BurstOK, QuicOK
  <1>9. ASSUME NEW t \in Tracks, StartGroup(t) PROVE TypeInv'
    <2>1. /\ TimersOK' /\ QuicOK'
      BY <1>9 DEF StartGroup, TimersOK, QuicOK, Off
    <2>2. /\ BurstOK'
          /\ nextObjectId'[burst'.track] + burst'.left <= MaxObjects
      <3>1. CASE UNCHANGED <<pc, burst>>
        BY <1>9, <3>1 DEF StartGroup, BurstOK
      <3>2. CASE ~UNCHANGED <<pc, burst>>
        <4>1. nextObjectId[t] + ObjectsPerGroup[t] <= MaxObjects
          BY <1>9, <3>2, LimitsAssumption, TracksAssumption DEF StartGroup, BurstOK
        <4>2. nextObjectId[t] \div ObjectsPerGroup[t] \in 0 .. MaxObjects - 1
          BY <4>1, LimitsAssumption, TracksAssumption DEF BurstOK
        <4>3. GroupBurst(t) \in [track : Tracks, group : 0 .. MaxObjects - 1, left : Nat]
          BY <4>2, TracksAssumption DEF GroupBurst
        <4> QED BY <1>9, <3>2, <4>1, <4>3 DEF StartGroup, BurstOK, GroupBurst
      <3> QED BY <3>1, <3>2
    <2> QED BY <1>0, <1>9, <2>1, <2>2 DEF StartGroup
  <1>10. ASSUME NEW s \in Subgroups, QuicAck(s) PROVE TypeInv'
    BY <1>0, <1>10, Quic!AcknowledgeType
       DEF QuicAck, NewInstant, clocks, TimersOK, BurstOK, QuicOK, NotYet
  <1> QED BY <1>1, <1>2, <1>3, <1>4, <1>5, <1>6, <1>7, <1>8, <1>9, <1>10

\* What the steps on the buffer leave alone.
LEMMA TypeControl ==
  ASSUME TypeInv, UNCHANGED <<clocks, nextObjectId, nextPos, subscriptionsEnded, pc, burst>>
  PROVE  /\ TimersOK' /\ BurstOK'
         /\ nextObjectId'[burst'.track] + burst'.left <= MaxObjects
  BY DEF TypeInv, TypeOK, clocks, TimersOK, BurstOK

\* A buffer that only loses objects.
LEMMA TypeShrink ==
  ASSUME TypeInv, sendBuffer' \subseteq sendBuffer
  PROVE  /\ sendBuffer' \subseteq Pending /\ IsFiniteSet(sendBuffer')
         /\ \A p \in sendBuffer' : p.sentOffset < ObjectBytes[p.track]
  BY FS_Subset DEF TypeInv, TypeOK, ObjectsOK

LEMMA TornByType ==
  \A p \in Pending : TornBy(p) \in SUBSET Subgroups
  BY SubgroupType DEF TornBy

\* resetSubgroupStream keeps the stream tables typed.
LEMMA ResetForTimeoutType ==
  ASSUME TypeInv, NEW S, ResetForTimeout(S), UNCHANGED wire
  PROVE  StreamsOK'
  BY DEF TypeInv, TypeOK, StreamsOK, ResetForTimeout

\* The steps of flushSendBuffer on the front object.
LEMMA TypeFlush ==
  ASSUME TypeInv, NEW p \in sendBuffer,
         DropWithSubgroup(p) \/ DropStale(p) \/ WriteChunk(p)
  PROVE  TypeInv'
  <1> USE DEF TypeInv, TypeOK
  <1>0. /\ p \in Pending /\ Subgroup(p) \in Subgroups /\ p.track \in Tracks
        /\ Subgroup(p)[1] = p.track
    BY SubgroupType DEF ObjectsOK, Pending, Subgroup
  <1>1. CASE DropWithSubgroup(p)
    <2>1. CountersOK'
      BY <1>0, <1>1 DEF DropWithSubgroup, ChargeToCause, CountersOK
    <2>2. StreamsOK' /\ QuicOK'
      BY <1>1 DEF DropWithSubgroup, StreamsOK, QuicOK, streams
    <2>3. sendBuffer' \subseteq sendBuffer /\ UNCHANGED outstanding
      BY <1>1 DEF DropWithSubgroup
    <2>4. UNCHANGED <<clocks, nextObjectId, nextPos, subscriptionsEnded, pc, burst>>
      BY <1>1 DEF DropWithSubgroup
    <2> QED BY <2>1, <2>2, <2>3, <2>4, TypeControl, TypeShrink DEF ObjectsOK
  <1>2. CASE DropStale(p)
    <2>1. CountersOK'
      <3>1. Cardinality(TornBy(p)) \in Nat
        BY <1>0, TornByType, SubgroupsCount
      <3> QED BY <1>0, <1>2, <3>1 DEF DropStale, CountersOK
    <2>2. StreamsOK'
      BY <1>2, ResetForTimeoutType DEF DropStale
    <2>3. QuicOK'
      BY <1>0, <1>2, TornByType, Quic!RequestsType DEF DropStale, QuicOK
    <2>4. sendBuffer' \subseteq sendBuffer /\ UNCHANGED outstanding
      BY <1>2 DEF DropStale
    <2>5. UNCHANGED <<clocks, nextObjectId, nextPos, subscriptionsEnded, pc, burst>>
      BY <1>2 DEF DropStale
    <2> QED BY <2>1, <2>2, <2>3, <2>4, <2>5, TypeControl, TypeShrink DEF ObjectsOK
  <1>3. CASE WriteChunk(p)
    <2> DEFINE rest == ObjectBytes[p.track] - p.sentOffset
               n    == IF rest < ChunkBytes THEN rest ELSE ChunkBytes
               o    == [track |-> p.track, group |-> p.group, obj |-> p.obj, age |-> p.age]
               next == [p EXCEPT !.sentOffset = @ + n]
    <2>1. n \in Nat \ {0} /\ rest \in Nat \ {0} /\ p.sentOffset + n \in Nat
          /\ (n # rest => p.sentOffset + n < ObjectBytes[p.track])
      BY <1>0, TracksAssumption, LimitsAssumption DEF Pending
    <2>2. o \in OutstandingObj
      BY <1>0 DEF Pending, OutstandingObj
    <2>3. next \in Pending /\ next.sentOffset = p.sentOffset + n /\ next.track = p.track
      BY <1>0, <2>1 DEF Pending
    <2>4. CountersOK'
      BY <1>0, <1>3 DEF WriteChunk, CountersOK
    <2>5. StreamsOK'
      BY <1>0, <1>3, <2>1 DEF WriteChunk, StreamsOK, streams, Pending
    <2>6. QuicOK'
      <3>1. conn' \in Quic!Connections
        BY <1>0, <1>3, <2>1, Quic!RequestsType DEF WriteChunk, QuicOK
      <3>2. quicBytesThisEvent' \in Nat
        <4>1. quicBytesThisEvent' = quicBytesThisEvent + n
          BY <1>3 DEF WriteChunk
        <4> HIDE DEF n
        <4> QED BY <2>1, <4>1 DEF QuicOK, NotYet
      <3> QED BY <1>3, <3>1, <3>2 DEF WriteChunk, QuicOK
    <2>7. /\ \/ sendBuffer' = sendBuffer \ {p}
             \/ /\ n # rest
                /\ sendBuffer' = (sendBuffer \ {p}) \cup {next}
          /\ outstanding' \in {outstanding, outstanding \cup {o}}
      BY <1>3 DEF WriteChunk
    <2> HIDE DEF n, rest, o, next
    <2>8. /\ sendBuffer' \subseteq Pending /\ IsFiniteSet(sendBuffer')
          /\ \A x \in sendBuffer' : x.sentOffset < ObjectBytes[x.track]
      <3>1. IsFiniteSet(sendBuffer \ {p}) /\ IsFiniteSet((sendBuffer \ {p}) \cup {next})
        BY FS_RemoveElement, FS_AddElement
      <3> QED BY <2>1, <2>3, <2>7, <3>1 DEF ObjectsOK
    <2>9. outstanding' \subseteq OutstandingObj /\ IsFiniteSet(outstanding')
      BY <2>2, <2>7, FS_AddElement DEF ObjectsOK
    <2>10. UNCHANGED <<clocks, nextObjectId, nextPos, subscriptionsEnded, pc, burst>>
      BY <1>3 DEF WriteChunk
    <2> QED BY <2>4, <2>5, <2>6, <2>8, <2>9, <2>10, TypeControl DEF ObjectsOK
  <1> QED BY <1>1, <1>2, <1>3

\* The burst: one object offered, with or without the teardown.
LEMMA TypeSendObject == ASSUME TypeInv, SendObject PROVE TypeInv'
  <1> USE DEF TypeInv, TypeOK
  <1> DEFINE t == burst.track
             p == [track |-> t, group |-> burst.group, obj |-> nextObjectId[t],
                   pos |-> nextPos[Priority[t]], sentOffset |-> 0, age |-> 0]
  <1>1. /\ t \in Tracks /\ Priority[t] \in Levels /\ Priority[t] \in Nat
        /\ nextObjectId[t] \in 0 .. MaxObjects - 1
    <2>1. t \in Tracks /\ nextObjectId[t] \in 0 .. MaxObjects /\ burst.left \in Nat
      BY DEF BurstOK
    <2>2. burst.left > 0
      BY DEF SendObject
    <2>3. Priority[t] \in Levels /\ Priority[t] \in Nat
      BY <2>1, TracksAssumption DEF Levels
    <2> QED BY <2>1, <2>2, <2>3, LimitsAssumption
  <1>2. p \in Pending /\ p.sentOffset < ObjectBytes[p.track]
    BY <1>1, TracksAssumption DEF BurstOK, Pending
  <1>3. Subgroup(p) \in Subgroups /\ Subgroup(p)[1] = t
    BY <1>2, SubgroupType DEF Subgroup
  <1>4. /\ nextObjectId' \in [Tracks -> 0 .. MaxObjects]
        /\ burst' \in [track : Tracks, group : 0 .. MaxObjects - 1, left : Nat]
        /\ nextObjectId'[burst'.track] + burst'.left <= MaxObjects
    BY <1>1, LimitsAssumption DEF SendObject, BurstOK
  <1> DEFINE refused == subscriptionsEnded \/ resetSubgroups[Subgroup(p)] # "none"
  <1>5. ASSUME refused, Refuse(Subgroup(p)) PROVE TypeInv'
    <2>1. UNCHANGED <<sendBuffer, streams, subgroupResets, outstanding, conn, timer,
                      subscriptionsEnded, pc, quicBytesThisEvent, nextPos>>
      BY <1>5 DEF Refuse
    <2>2. UNCHANGED <<connected, timerKind, checkTimer, subscribeOks, quicBlocked,
                      objectsSent, resetAfterSend, wire>>
      BY DEF SendObject
    <2>3. CountersOK'
      BY <1>3, <1>5, <2>1, <2>2 DEF Refuse, ChargeToCause, CountersOK
    <2>4. TimersOK' /\ StreamsOK' /\ QuicOK' /\ ObjectsOK' /\ BurstOK'
      BY <1>4, <2>1, <2>2 DEF TimersOK, StreamsOK, QuicOK, ObjectsOK, BurstOK, streams
    <2> QED BY <1>4, <2>1, <2>3, <2>4
  <1>6. ASSUME ~refused, Enqueue(p) \/ TerminateSubscriptions(p),
               nextPos' = [nextPos EXCEPT ![Priority[t]] = @ + 1],
               pc' = "flushObject", quicBytesThisEvent' = BytesAtFlush,
               UNCHANGED quicShedStale
        PROVE  TypeInv'
    <2>1. UNCHANGED <<connected, timerKind, checkTimer, subscribeOks, quicBlocked,
                      objectsSent, resetAfterSend, wire>>
      BY DEF SendObject
    <2>2. nextPos' \in [Levels -> Nat]
      BY <1>1, <1>6 DEF BurstOK
    <2>3. quicBytesThisEvent' \in Nat \cup {NotYet}
      BY <1>6 DEF BytesAtFlush, QuicOK
    <2>4. CASE Enqueue(p)
      <3>1. /\ sendBuffer' = sendBuffer \cup {p}
            /\ subgroupStreams' = subgroupStreams \cup {Subgroup(p)}
            /\ UNCHANGED <<resetSubgroups, subgroupResets, quicShedOverflow,
                           outstanding, conn, timer, subscriptionsEnded>>
        BY <2>4 DEF Enqueue
      <3> HIDE DEF p
      <3>2. ObjectsOK' /\ IsFiniteSet(sendBuffer')
            /\ \A x \in sendBuffer' : x.sentOffset < ObjectBytes[x.track]
        BY <1>2, <3>1, FS_AddElement DEF ObjectsOK
      <3>3. StreamsOK'
        BY <1>3, <2>1, <3>1 DEF StreamsOK
      <3>4. CountersOK' /\ TimersOK' /\ QuicOK' /\ BurstOK'
        BY <1>4, <1>6, <2>1, <2>2, <2>3, <3>1 DEF CountersOK, TimersOK, QuicOK, BurstOK
      <3> QED BY <1>4, <3>1, <3>2, <3>3, <3>4
    <2>5. CASE TerminateSubscriptions(p)
      <3> DEFINE open     == subgroupStreams \cup {Subgroup(p)}
                 buffered == sendBuffer \cup {p}
      <3>1. open \in SUBSET Subgroups /\ Cardinality(open) \in Nat
        BY <1>3, SubgroupsCount DEF StreamsOK
      <3>2. \A u \in Tracks : Cardinality(Of(u, buffered)) \in Nat
        <4>1. IsFiniteSet(buffered)
          BY FS_AddElement
        <4> HIDE DEF buffered
        <4> QED BY <4>1, PartCount
      <3>3. sendBuffer' = {} /\ outstanding' = {} /\ subscriptionsEnded' = TRUE
        BY <2>5 DEF TerminateSubscriptions
      <3>4. CountersOK'
        <4>1. subgroupResets' = subgroupResets + Cardinality(open)
          BY <2>5 DEF TerminateSubscriptions
        <4>2. quicShedOverflow' = [u \in Tracks |->
                 quicShedOverflow[u] + Cardinality(Of(u, buffered))]
          BY <2>5 DEF TerminateSubscriptions, Discarded
        <4> HIDE DEF open, buffered
        <4> QED BY <1>6, <2>1, <3>1, <3>2, <4>1, <4>2 DEF CountersOK
      <3>5. StreamsOK'
        BY <2>1, <2>5 DEF TerminateSubscriptions, StreamsOK
      <3>6. conn' \in Quic!Connections
        BY <2>5, <3>1, Quic!RequestsType DEF TerminateSubscriptions, TeardownFrames, QuicOK
      <3>7. timer' \in [Tracks -> Int]
        BY <2>5 DEF TerminateSubscriptions, Off
      <3>8. TimersOK' /\ QuicOK' /\ BurstOK'
        BY <1>4, <1>6, <2>1, <2>2, <2>3, <3>3, <3>6, <3>7 DEF TimersOK, QuicOK, BurstOK
      <3> QED BY <1>4, <3>3, <3>4, <3>5, <3>8, FS_EmptySet DEF ObjectsOK
    <2> QED BY <1>6, <2>4, <2>5
  <1> QED BY <1>5, <1>6 DEF SendObject

\* The delivery-timeout timer.
LEMMA TypeTimeoutCheck == ASSUME TypeInv, TimeoutCheck PROVE TypeInv'
  <1> USE DEF TypeInv, TypeOK
  <1> DEFINE expired == ExpiredSubgroups
             swept   == SweptObjects
             cut     == {p \in swept : TornBy(p) # {}}
             torn    == UNION {TornBy(p) : p \in swept}
  <1>1. swept \subseteq sendBuffer /\ cut \subseteq sendBuffer
    BY DEF SweptObjects
  <1>2. expired \in SUBSET Subgroups
    BY SubgroupType DEF ExpiredSubgroups, ObjectsOK
  <1>3. torn \in SUBSET Subgroups
    BY <1>1, TornByType DEF ObjectsOK
  <1>4. /\ Cardinality(cut) \in Nat /\ Cardinality(expired) \in Nat
        /\ \A t \in Tracks : Cardinality({s \in expired : s[1] = t}) \in Nat
    BY <1>1, <1>2, SubgroupsCount, FS_Subset, FS_CardinalityType
  <1>5. \A t \in Tracks : Cardinality(Of(t, swept)) \in Nat
    BY <1>1, PartCount, FS_Subset
  <1>6. CountersOK'
    <2>1. /\ resetAfterSend' = [t \in Tracks |-> resetAfterSend[t]
                                  + Cardinality({s \in expired : s[1] = t})]
          /\ quicShedStale' = [t \in Tracks |->
                                 quicShedStale[t] + Cardinality(Of(t, swept))]
          /\ subgroupResets' = subgroupResets + Cardinality(expired) + Cardinality(cut)
          /\ UNCHANGED <<objectsSent, quicShedOverflow>>
      BY DEF TimeoutCheck
    <2> HIDE DEF expired, swept, cut
    <2> QED BY <1>4, <1>5, <2>1 DEF CountersOK
  <1>7. StreamsOK'
    BY ResetForTimeoutType DEF TimeoutCheck
  <1>8. conn' \in Quic!Connections
    <2>1. Quic!ResetStreams(conn, expired) \in Quic!Connections
      BY <1>2, Quic!RequestsType DEF QuicOK
    <2>2. conn' = Quic!ResetStreams(Quic!ResetStreams(conn, expired), torn)
      BY DEF TimeoutCheck
    <2> HIDE DEF expired, torn
    <2> QED BY <1>3, <2>1, <2>2, Quic!RequestsType
  <1>9. QuicOK'
    BY <1>8 DEF TimeoutCheck, BytesAtFlush, QuicOK
  <1>10. checkTimer' \in 0 .. CheckInterval
    BY LimitsAssumption DEF TimeoutCheck
  <1>11. TimersOK'
    BY <1>10 DEF TimeoutCheck, TimersOK
  <1>12. BurstOK' /\ nextObjectId'[burst'.track] + burst'.left <= MaxObjects
    BY DEF TimeoutCheck, BurstOK
  <1>13. sendBuffer' \subseteq sendBuffer /\ outstanding' \subseteq outstanding
    BY DEF TimeoutCheck, StillOutstanding
  <1>14. ObjectsOK' /\ IsFiniteSet(outstanding')
    BY <1>13, FS_Subset DEF ObjectsOK
  <1> QED BY <1>6, <1>7, <1>9, <1>11, <1>12, <1>13, <1>14, TypeShrink

\* The clock.
LEMMA TypeTick == ASSUME TypeInv, Tick PROVE TypeInv'
  <1> USE DEF TypeInv, TypeOK
  <1>1. /\ sendBuffer' = {Older(p) : p \in sendBuffer}
        /\ outstanding' = {Older(o) : o \in outstanding}
    BY DEF Tick
  <1>2. ObjectsOK' /\ IsFiniteSet(sendBuffer') /\ IsFiniteSet(outstanding')
    <2>1. ObjectsOK'
      BY <1>1, OlderType DEF ObjectsOK
    <2> QED BY <1>1, <2>1, OlderFinite
  <1>3. \A p \in Pending : Older(p).sentOffset = p.sentOffset /\ Older(p).track = p.track
    BY DEF Older, Pending
  <1>4. \A p \in sendBuffer' : p.sentOffset < ObjectBytes[p.track]
    BY <1>1, <1>3 DEF ObjectsOK
  <1>5. timer' \in [Tracks -> Int]
    BY DEF Tick, TimersOK, Off
  <1>6. checkTimer' \in 0 .. CheckInterval
    BY LimitsAssumption DEF Tick, TimersOK
  <1>7. TimersOK' /\ BurstOK' /\ StreamsOK' /\ CountersOK' /\ QuicOK'
    BY <1>5, <1>6 DEF Tick, NewInstant, TimersOK, BurstOK, StreamsOK, CountersOK, QuicOK,
                     streams, counters
  <1> QED BY <1>2, <1>4, <1>7 DEF Tick

\* Stuttering, and every step of the specification.
LEMMA TypeNext == TypeInv /\ [Next]_vars => TypeInv'
  <1> SUFFICES ASSUME TypeInv, [Next]_vars PROVE TypeInv'
    OBVIOUS
  <1>1. CASE UNCHANGED vars
    BY <1>1 DEF TypeInv, TypeOK, TimersOK, BurstOK, ObjectsOK, StreamsOK, CountersOK,
                QuicOK, vars, clocks, streams, counters
  <1>2. CASE Next
    BY <1>2, TypeClocks, TypeFlush, TypeSendObject, TypeTimeoutCheck, TypeTick
       DEF Next, Application, FlushStep
  <1> QED BY <1>1, <1>2

LEMMA TypeInvariant == Spec => []TypeInv
  BY TypeInit, TypeNext, PTL DEF Spec

\* Type correctness: every variable keeps its type, whatever the tracks, the
\* limits and the order in which the network and the timers act.
THEOREM TypeCorrect == Spec => []TypeOK
  <1>1. TypeInv => TypeOK
    BY DEF TypeInv
  <1> QED BY <1>1, TypeInvariant, PTL

-----------------------------------------------------------------------------
(* The teardown.                                                           *)

\* What is in the buffer, or has been written, is on an open stream or on one
\* that was reset; so closing the open streams closes everything.
CarriedInv ==
  /\ \A p \in sendBuffer :
       Subgroup(p) \in subgroupStreams \/ resetSubgroups[Subgroup(p)] # "none"
  /\ \A s \in Subgroups :
       ~Untouched(s) => s \in subgroupStreams \/ resetSubgroups[s] # "none"

\* TeardownClean needs that, and that nothing is left to expire.
TeardownInv == CarriedInv /\ TeardownClean /\ (subscriptionsEnded => outstanding = {})

\* No stream is opened or closed by S, and nothing is written.
LEMMA TeardownSame ==
  ASSUME TypeInv, TeardownInv,
         UNCHANGED <<sendBuffer, outstanding, streams, subscriptionsEnded, wire>>,
         \/ conn'.requests = conn.requests
         \/ conn.requests # <<>> /\ conn'.requests = Tail(conn.requests)
         \/ conn' = Quic!SendControl(conn)
  PROVE  TeardownInv'
  <1>1. CarriedInv' /\ (subscriptionsEnded => outstanding = {})'
    BY DEF TeardownInv, CarriedInv, Untouched, streams
  <1>2. ASSUME subscriptionsEnded, conn'.requests # <<>>
        PROVE  conn'.requests[Len(conn'.requests)].op = "control"
    <2>1. conn.requests \in Seq(Quic!Requests)
      BY DEF TypeInv, TypeOK, QuicOK, Quic!Connections
    <2>2. conn.requests # <<>> => conn.requests[Len(conn.requests)].op = "control"
      BY <1>2 DEF TeardownInv, TeardownClean
    <2>3. CASE conn'.requests = conn.requests
      BY <1>2, <2>2, <2>3
    <2>4. CASE conn.requests # <<>> /\ conn'.requests = Tail(conn.requests)
      BY <1>2, <2>1, <2>2, <2>4
    <2>5. CASE conn' = Quic!SendControl(conn)
      <3>1. conn'.requests = Append(conn.requests, [op |-> "control", on |-> {}, len |-> 0])
        BY <2>5 DEF Quic!SendControl, TypeInv, TypeOK, QuicOK, Quic!Connections
      <3> QED BY <2>1, <3>1
    <2> QED BY <2>3, <2>4, <2>5
  <1>3. TeardownClean'
    BY <1>2 DEF TeardownInv, TeardownClean, Untouched, streams
  <1> QED BY <1>1, <1>3 DEF TeardownInv

\* QUIC's steps take at most the oldest request.
LEMMA RequestsTaken ==
  ASSUME NEW c \in Quic!Connections
  PROVE  /\ \A h : Quic!WithHeld(c, h).requests = c.requests
         /\ \A s : Quic!Acknowledge(c, s).requests = c.requests
         /\ Quic!TakeIndication(c).requests = c.requests
         /\ Quic!HandleRequest(c).requests = Tail(c.requests)
  <1>1. \A h, d : d \in Quic!Connections => Quic!WithHeld(d, h).requests = d.requests
    BY DEF Quic!WithHeld, Quic!Connections
  <1>2. Quic!TakeIndication(c).requests = c.requests
    BY DEF Quic!TakeIndication, Quic!Connections
  <1>3. \A s : Quic!Acknowledge(c, s).requests = c.requests
    BY <1>1 DEF Quic!Acknowledge
  <1>4. Quic!HandleRequest(c).requests = Tail(c.requests)
    <2> DEFINE rest == [c EXCEPT !.requests = Tail(@)]
    <2>1. rest.requests = Tail(c.requests)
      BY DEF Quic!Connections
    <2>2. \A h : Quic!WithHeld(rest, h).requests = rest.requests
      BY DEF Quic!WithHeld, Quic!Connections
    <2> QED BY <2>1, <2>2 DEF Quic!HandleRequest, Quic!Connections
  <1> QED BY <1>1, <1>2, <1>3, <1>4

\* The front object leaves the buffer, or a part of it goes to QUIC.
LEMMA TeardownFlush ==
  ASSUME TypeInv, TeardownInv, NEW p \in sendBuffer,
         DropWithSubgroup(p) \/ DropStale(p) \/ WriteChunk(p)
  PROVE  TeardownInv'
  <1> USE DEF TeardownInv
  <1>1. ~subscriptionsEnded /\ subscriptionsEnded' = subscriptionsEnded
    BY DEF TeardownClean, DropWithSubgroup, DropStale, WriteChunk
  <1>2. p \in Pending /\ Subgroup(p) \in Subgroups
    BY SubgroupType DEF TypeInv, TypeOK, ObjectsOK
  <1>3. CASE DropWithSubgroup(p)
    BY <1>1, <1>3 DEF DropWithSubgroup, CarriedInv, TeardownClean, Untouched, streams
  <1>4. CASE DropStale(p)
    <2>1. \A s \in Subgroups :
            s \in subgroupStreams \/ resetSubgroups[s] # "none"
            => s \in subgroupStreams' \/ resetSubgroups'[s] # "none"
      BY <1>4 DEF DropStale, ResetForTimeout
    <2>2. sendBuffer' \subseteq sendBuffer /\ wire' = wire
      BY <1>4 DEF DropStale
    <2>3. \A q \in sendBuffer : Subgroup(q) \in Subgroups
      BY SubgroupType DEF TypeInv, TypeOK, ObjectsOK
    <2> QED BY <1>1, <2>1, <2>2, <2>3 DEF CarriedInv, TeardownClean, Untouched
  <1>5. CASE WriteChunk(p)
    <2>1. \A q \in sendBuffer' : \E r \in sendBuffer : Subgroup(q) = Subgroup(r)
      <3> DEFINE rest == ObjectBytes[p.track] - p.sentOffset
                 n    == IF rest < ChunkBytes THEN rest ELSE ChunkBytes
                 next == [p EXCEPT !.sentOffset = @ + n]
      <3>1. sendBuffer' \subseteq (sendBuffer \ {p}) \cup {next}
        BY <1>5 DEF WriteChunk
      <3>2. Subgroup(next) = Subgroup(p)
        BY <1>2 DEF Subgroup, Pending
      <3> HIDE DEF next
      <3> QED BY <3>1, <3>2
    <2>2. \A s \in Subgroups : s # Subgroup(p) => wire'[s] = wire[s]
      BY <1>5 DEF WriteChunk, TypeInv, TypeOK, StreamsOK
    <2>3. UNCHANGED <<subgroupStreams, resetSubgroups>>
      BY <1>5 DEF WriteChunk, streams
    <2> QED BY <1>1, <1>2, <2>1, <2>2, <2>3 DEF CarriedInv, TeardownClean, Untouched
  <1> QED BY <1>3, <1>4, <1>5

\* The step that ends the subscriptions, and the burst around it.
LEMMA TeardownSendObject ==
  ASSUME TypeInv, TeardownInv, SendObject PROVE TeardownInv'
  <1> USE DEF TeardownInv
  <1> DEFINE t == burst.track
             p == [track |-> t, group |-> burst.group, obj |-> nextObjectId[t],
                   pos |-> nextPos[Priority[t]], sentOffset |-> 0, age |-> 0]
  <1>0. wire' = wire
    BY DEF SendObject
  <1>1. CASE Refuse(Subgroup(p))
    <2>1. UNCHANGED <<sendBuffer, outstanding, streams, subscriptionsEnded, conn>>
      BY <1>1 DEF Refuse
    <2> QED BY <1>0, <2>1, TeardownSame
  <1>2. CASE ~subscriptionsEnded /\ Enqueue(p)
    <2>1. /\ sendBuffer' = sendBuffer \cup {p}
          /\ subgroupStreams' = subgroupStreams \cup {Subgroup(p)}
          /\ UNCHANGED <<resetSubgroups, subscriptionsEnded>>
      BY <1>2 DEF Enqueue
    <2> HIDE DEF p
    <2> QED BY <1>0, <1>2, <2>1 DEF CarriedInv, TeardownClean, Untouched
  <1>3. CASE TerminateSubscriptions(p)
    <2> DEFINE open == subgroupStreams \cup {Subgroup(p)}
    <2>1. /\ sendBuffer' = {} /\ outstanding' = {} /\ subgroupStreams' = {}
          /\ resetSubgroups' = [s \in Subgroups |->
                                  IF s \in open THEN "OVERFLOW" ELSE resetSubgroups[s]]
          /\ conn' = Quic!SendControl(Quic!ResetStreams(conn, open))
      BY <1>3 DEF TerminateSubscriptions, TeardownFrames
    <2>2. \A s \in Subgroups : ~Untouched(s)' => resetSubgroups'[s] # "none"
      BY <1>0, <2>1 DEF CarriedInv, Untouched
    <2>3. conn'.requests[Len(conn'.requests)].op = "control"
      <3>1. Quic!ResetStreams(conn, open).requests \in Seq(Quic!Requests)
        <4>1. Subgroup(p) \in Subgroups
          <5>1. p.track = t /\ p.group = burst.group
            OBVIOUS
          <5> HIDE DEF p
          <5> QED BY <5>1 DEF TypeInv, TypeOK, BurstOK, Subgroup, Subgroups
        <4>2. open \in SUBSET Subgroups
          BY <4>1 DEF TypeInv, TypeOK, StreamsOK
        <4> HIDE DEF open
        <4> QED BY <4>2, Quic!RequestsType DEF TypeInv, TypeOK, QuicOK, Quic!Connections
      <3> DEFINE d == Quic!ResetStreams(conn, open)
      <3>2. \E q : q.op = "control" /\ conn' = [d EXCEPT !.requests = Append(@, q)]
        BY <2>1 DEF Quic!SendControl
      <3>3. d = conn \/ \E q : d = [conn EXCEPT !.requests = q]
        BY DEF Quic!ResetStreams
      <3>4. \A q : [d EXCEPT !.requests = q].requests = q
        BY <3>3 DEF TypeInv, TypeOK, QuicOK, Quic!Connections
      <3> HIDE DEF d
      <3>5. \E q : q.op = "control" /\ conn'.requests = Append(d.requests, q)
        BY <3>2, <3>4
      <3> QED BY <3>1, <3>5 DEF d
    <2> QED BY <2>1, <2>2, <2>3 DEF CarriedInv, TeardownClean
  <1> QED BY <1>1, <1>2, <1>3 DEF SendObject

\* The timer: after the teardown there is nothing to expire and nothing to sweep.
LEMMA TeardownTimeoutCheck ==
  ASSUME TypeInv, TeardownInv, TimeoutCheck PROVE TeardownInv'
  <1> USE DEF TeardownInv
  <1> DEFINE expired == ExpiredSubgroups
             torn    == UNION {TornBy(p) : p \in SweptObjects}
  <1>1. CASE subscriptionsEnded
    <2>1. expired = {} /\ torn = {} /\ SweptObjects = {} /\ StillOutstanding = {}
      BY <1>1 DEF ExpiredSubgroups, SweptObjects, StillOutstanding
    <2>2. conn' = Quic!ResetStreams(Quic!ResetStreams(conn, expired), torn)
      BY DEF TimeoutCheck
    <2>3. conn' = conn
      BY <2>1, <2>2 DEF Quic!ResetStreams
    <2>4. /\ sendBuffer' = sendBuffer /\ outstanding' = {} /\ wire' = wire
          /\ subscriptionsEnded' = subscriptionsEnded
      BY <2>1 DEF TimeoutCheck
    <2>5. ResetForTimeout({})
      <3>1. ResetForTimeout(expired \cup torn) /\ expired \cup torn = {}
        BY <2>1 DEF TimeoutCheck
      <3> QED BY <3>1
    <2>6. UNCHANGED streams
      BY <2>5 DEF ResetForTimeout, streams, TypeInv, TypeOK, StreamsOK
    <2> QED BY <1>1, <2>3, <2>4, <2>6, TeardownSame
  <1>2. CASE ~subscriptionsEnded
    <2>1. \A s \in Subgroups :
            s \in subgroupStreams \/ resetSubgroups[s] # "none"
            => s \in subgroupStreams' \/ resetSubgroups'[s] # "none"
      BY DEF TimeoutCheck, ResetForTimeout
    <2>2. /\ sendBuffer' \subseteq sendBuffer /\ wire' = wire
          /\ subscriptionsEnded' = subscriptionsEnded
      BY DEF TimeoutCheck
    <2>3. \A q \in sendBuffer : Subgroup(q) \in Subgroups
      BY SubgroupType DEF TypeInv, TypeOK, ObjectsOK
    <2> QED BY <1>2, <2>1, <2>2, <2>3 DEF CarriedInv, TeardownClean, Untouched
  <1> QED BY <1>1, <1>2

LEMMA TeardownTick ==
  ASSUME TypeInv, TeardownInv, Tick PROVE TeardownInv'
  <1> USE DEF TeardownInv
  <1>1. /\ sendBuffer' = {Older(p) : p \in sendBuffer}
        /\ outstanding' = {Older(o) : o \in outstanding}
        /\ UNCHANGED <<subscriptionsEnded, subgroupStreams, resetSubgroups, wire, conn>>
    BY DEF Tick, streams
  <1>2. \A p \in sendBuffer : Subgroup(Older(p)) = Subgroup(p)
    BY DEF Older, Subgroup, TypeInv, TypeOK, ObjectsOK, Pending
  <1>3. CarriedInv'
    BY <1>1, <1>2 DEF CarriedInv, Untouched
  <1>4. TeardownClean' /\ (subscriptionsEnded => outstanding = {})'
    BY <1>1 DEF TeardownClean, Untouched
  <1> QED BY <1>3, <1>4

LEMMA TeardownInit == Init => TeardownInv
  BY DEF Init, TeardownInv, CarriedInv, TeardownClean, Untouched

LEMMA TeardownNext == TypeInv /\ TeardownInv /\ [Next]_vars => TeardownInv'
  <1> SUFFICES ASSUME TypeInv, TeardownInv, [Next]_vars PROVE TeardownInv'
    OBVIOUS
  <1> DEFINE Same == UNCHANGED <<sendBuffer, outstanding, streams, subscriptionsEnded, wire>>
  <1>0. conn \in Quic!Connections
    BY DEF TypeInv, TypeOK, QuicOK
  <1>1. CASE UNCHANGED vars
    BY <1>1, TeardownSame DEF vars, streams
  <1>2. CASE SocketEstablished \/ EndGroup \/ EndFlush
    BY <1>2, TeardownSame DEF SocketEstablished, EndGroup, EndFlush, streams
  <1>3. CASE QuicFullOrRejected \/ QuicDrain
    <2>1. conn'.requests = conn.requests
      BY <1>0, <1>3, RequestsTaken DEF QuicFullOrRejected, QuicDrain
    <2>2. Same
      BY <1>3 DEF QuicFullOrRejected, QuicDrain
    <2> QED BY <2>1, <2>2, TeardownSame
  <1>4. CASE QuicHandleRequest
    <2>1. conn.requests # <<>> /\ conn'.requests = Tail(conn.requests)
      BY <1>0, <1>4, RequestsTaken DEF QuicHandleRequest
    <2>2. Same
      BY <1>4 DEF QuicHandleRequest
    <2> QED BY <2>1, <2>2, TeardownSame
  <1>5. ASSUME NEW s \in Subgroups, QuicAck(s) PROVE TeardownInv'
    <2>1. conn'.requests = conn.requests
      BY <1>0, <1>5, RequestsTaken DEF QuicAck
    <2>2. Same
      BY <1>5 DEF QuicAck
    <2> QED BY <2>1, <2>2, TeardownSame
  <1>6. ASSUME NEW t \in Tracks, AnnounceTrack(t) \/ SubscribeOk(t) \/ StartGroup(t)
        PROVE  TeardownInv'
    <2>1. Same /\ (conn' = conn \/ conn' = Quic!SendControl(conn))
      BY <1>6 DEF AnnounceTrack, SubscribeOk, StartGroup
    <2> QED BY <2>1, TeardownSame
  <1>7. CASE SendObject \/ FlushStep \/ TimeoutCheck \/ Tick
    BY <1>2, <1>7, TeardownSendObject, TeardownFlush, TeardownTimeoutCheck, TeardownTick
       DEF FlushStep
  <1> QED BY <1>1, <1>2, <1>3, <1>4, <1>5, <1>6, <1>7 DEF Next, Application

LEMMA TeardownInvariant == Spec => []TeardownInv
  BY TypeInvariant, TeardownInit, TeardownNext, PTL DEF Spec

\* Section 9.12 as terminateSubscriptions implements it: once PUBLISH_DONE is sent
\* every stream ever written is closed, the buffer is empty, and no request made
\* to QUIC follows the PUBLISH_DONE.
THEOREM TeardownCorrect == Spec => []TeardownClean
  <1>1. TeardownInv => TeardownClean
    BY DEF TeardownInv
  <1> QED BY <1>1, TeardownInvariant, PTL

-----------------------------------------------------------------------------
(* The delivery timeout.                                                   *)

\* AgeBound is inductive once the teardown is known to leave nothing behind: the
\* sweep does not run after it.
LEMMA AgeInit == Init => AgeBound
  BY DEF Init, AgeBound

\* Nothing new, and the check timer unchanged.
LEMMA AgeSame ==
  ASSUME AgeBound, checkTimer' = checkTimer,
         sendBuffer' \subseteq sendBuffer, outstanding' \subseteq outstanding
  PROVE  AgeBound'
  BY DEF AgeBound

LEMMA AgeWriteChunk ==
  ASSUME TypeInv, AgeBound, NEW p \in sendBuffer, WriteChunk(p) PROVE AgeBound'
  <1> DEFINE rest == ObjectBytes[p.track] - p.sentOffset
             n    == IF rest < ChunkBytes THEN rest ELSE ChunkBytes
             o    == [track |-> p.track, group |-> p.group, obj |-> p.obj, age |-> p.age]
             next == [p EXCEPT !.sentOffset = @ + n]
  <1>1. p \in Pending
    BY DEF TypeInv, TypeOK, ObjectsOK
  <1>2. /\ o.track = p.track /\ o.age = p.age
        /\ next.track = p.track /\ next.age = p.age
    BY <1>1 DEF Pending
  <1>3. /\ sendBuffer' \subseteq sendBuffer \cup {next}
        /\ outstanding' \subseteq outstanding \cup {o}
        /\ checkTimer' = checkTimer
    BY DEF WriteChunk, clocks
  <1> HIDE DEF o, next
  <1> QED BY <1>2, <1>3 DEF AgeBound

LEMMA AgeSendObject ==
  ASSUME TypeInv, AgeBound, SendObject PROVE AgeBound'
  <1> DEFINE t == burst.track
             p == [track |-> t, group |-> burst.group, obj |-> nextObjectId[t],
                   pos |-> nextPos[Priority[t]], sentOffset |-> 0, age |-> 0]
  <1>1. checkTimer' = checkTimer /\ outstanding' \subseteq outstanding
        /\ sendBuffer' \subseteq sendBuffer \cup {p}
    BY DEF SendObject, Refuse, Enqueue, TerminateSubscriptions
  <1>2. t \in Tracks /\ p.track = t /\ p.age = 0
    BY DEF TypeInv, TypeOK, BurstOK
  <1> HIDE DEF p, t
  <1>3. CheckInterval - checkTimer >= 0 /\ DeliveryTimeout[t] \in Nat
    BY <1>2, TracksAssumption, LimitsAssumption DEF TypeInv, TypeOK, TimersOK
  <1>4. checkTimer \in Int /\ CheckInterval \in Int
    BY LimitsAssumption DEF TypeInv, TypeOK, TimersOK
  <1> QED BY <1>1, <1>2, <1>3, <1>4 DEF AgeBound

\* The check: what survives it is within its timeout, whatever QUIC reports.
LEMMA AgeTimeoutCheck ==
  ASSUME TypeInv, TeardownInv, TimeoutCheck PROVE AgeBound'
  <1>1. checkTimer' = CheckInterval
    BY DEF TimeoutCheck
  <1>2. ASSUME NEW o \in sendBuffer' PROVE o \in sendBuffer /\ ~Stale(o)
    BY <1>2 DEF TimeoutCheck, SweptObjects, TeardownInv, TeardownClean
  <1>3. ASSUME NEW o \in outstanding' PROVE o \in outstanding /\ ~Stale(o)
    BY <1>3 DEF TimeoutCheck, StillOutstanding, ExpiredSubgroups
  <1>4. \A o \in sendBuffer \cup outstanding :
          DeliveryTimeout[o.track] \in Nat /\ o.age \in Nat
    BY TracksAssumption DEF TypeInv, TypeOK, ObjectsOK, Pending, OutstandingObj
  <1> QED BY <1>1, <1>2, <1>3, <1>4, LimitsAssumption DEF AgeBound, Stale

\* A tick ages every object by one and brings the check one nearer.
LEMMA AgeTick ==
  ASSUME TypeInv, AgeBound, Tick PROVE AgeBound'
  <1>1. /\ sendBuffer' = {Older(p) : p \in sendBuffer}
        /\ outstanding' = {Older(o) : o \in outstanding}
        /\ checkTimer' = checkTimer - 1
    BY DEF Tick
  <1>2. \A o \in sendBuffer \cup outstanding :
          /\ Older(o).track = o.track /\ Older(o).age <= o.age + 1
          /\ Older(o).age \in Nat /\ o.age \in Nat /\ DeliveryTimeout[o.track] \in Nat
    BY TracksAssumption DEF Older, TypeInv, TypeOK, ObjectsOK, Pending, OutstandingObj
  <1>3. checkTimer \in Int /\ CheckInterval \in Int
    BY LimitsAssumption DEF TypeInv, TypeOK, TimersOK
  <1> QED BY <1>1, <1>2, <1>3 DEF AgeBound

LEMMA AgeNext == TypeInv /\ TeardownInv /\ AgeBound /\ [Next]_vars => AgeBound'
  <1> SUFFICES ASSUME TypeInv, TeardownInv, AgeBound, [Next]_vars PROVE AgeBound'
    OBVIOUS
  <1>1. CASE UNCHANGED vars
    BY <1>1, AgeSame DEF vars, clocks
  <1>2. CASE \/ SocketEstablished \/ EndGroup \/ EndFlush \/ QuicFullOrRejected
             \/ QuicDrain \/ QuicHandleRequest
             \/ \E t \in Tracks : AnnounceTrack(t) \/ SubscribeOk(t) \/ StartGroup(t)
             \/ \E s \in Subgroups : QuicAck(s)
    <2>1. UNCHANGED <<checkTimer, sendBuffer, outstanding>>
      BY <1>2 DEF SocketEstablished, EndGroup, EndFlush, QuicFullOrRejected, QuicDrain,
                  QuicHandleRequest, AnnounceTrack, SubscribeOk, StartGroup, QuicAck, clocks
    <2> QED BY <2>1, AgeSame
  <1>3. ASSUME NEW p \in sendBuffer, DropWithSubgroup(p) \/ DropStale(p)
        PROVE  AgeBound'
    BY <1>3, AgeSame DEF DropWithSubgroup, DropStale, clocks
  <1>4. ASSUME NEW p \in sendBuffer, WriteChunk(p) PROVE AgeBound'
    BY <1>4, AgeWriteChunk
  <1>5. CASE SendObject \/ TimeoutCheck \/ Tick
    BY <1>5, AgeSendObject, AgeTimeoutCheck, AgeTick
  <1> QED BY <1>1, <1>2, <1>3, <1>4, <1>5 DEF Next, Application, FlushStep

\* Whatever QUIC accepts, reports or acknowledges, no object waits in the buffer,
\* or counts as outstanding, longer than its delivery timeout plus one check
\* interval.
THEOREM AgeBounded == Spec => []AgeBound
  BY TypeInvariant, TeardownInvariant, AgeInit, AgeNext, PTL DEF Spec

-----------------------------------------------------------------------------
(* Tracks without a delivery timeout.                                      *)

\* An object of a reliable track is never stale.
LEMMA ReliableNeverStale ==
  \A o : DeliveryTimeout[o.track] = 0 => ~Stale(o)
  BY DEF Stale

LEMMA ReliableInit == Init => ReliableLossless
  BY DEF Init, ReliableLossless

\* Steps that charge no object and reset no stream.
LEMMA ReliableSame ==
  ASSUME ReliableLossless, subscriptionsEnded' = subscriptionsEnded,
         UNCHANGED <<quicShedStale, quicShedOverflow, resetAfterSend, resetSubgroups>>
  PROVE  ReliableLossless'
  BY DEF ReliableLossless

LEMMA ReliableFlush ==
  ASSUME TypeInv, ReliableLossless, NEW p \in sendBuffer,
         DropWithSubgroup(p) \/ DropStale(p)
  PROVE  ReliableLossless'
  <1>1. /\ p \in Pending /\ Subgroup(p) \in Subgroups /\ Subgroup(p)[1] = p.track
        /\ p.track \in Tracks
    BY SubgroupType DEF TypeInv, TypeOK, ObjectsOK, Subgroup, Pending
  <1>2. /\ quicShedStale \in [Tracks -> Nat] /\ quicShedOverflow \in [Tracks -> Nat]
        /\ resetSubgroups \in [Subgroups -> {"none", "TIMEOUT", "OVERFLOW"}]
    BY DEF TypeInv, TypeOK, CountersOK, StreamsOK
  <1>3. UNCHANGED <<subscriptionsEnded, resetAfterSend>>
    BY DEF DropWithSubgroup, DropStale
  <1> SUFFICES ASSUME NEW t \in Tracks, DeliveryTimeout[t] = 0
               PROVE  /\ quicShedStale'[t] = 0
                      /\ \A s \in Subgroups : s[1] = t => resetSubgroups'[s] # "TIMEOUT"
                      /\ ~subscriptionsEnded =>
                           /\ quicShedOverflow'[t] = 0
                           /\ \A s \in Subgroups : s[1] = t => resetSubgroups'[s] = "none"
    BY <1>3 DEF ReliableLossless
  <1>4. CASE DropWithSubgroup(p)
    <2>1. UNCHANGED resetSubgroups
      BY <1>4 DEF DropWithSubgroup, streams
    <2>2. CASE p.track # t
      BY <1>1, <1>2, <1>4, <2>1, <2>2 DEF DropWithSubgroup, ChargeToCause, ReliableLossless
    <2>3. CASE p.track = t
      <3>1. resetSubgroups[Subgroup(p)] = "OVERFLOW" /\ subscriptionsEnded
        BY <1>1, <1>2, <1>4, <2>3 DEF DropWithSubgroup, ReliableLossless
      <3> QED BY <1>1, <1>2, <1>4, <2>1, <2>3, <3>1
              DEF DropWithSubgroup, ChargeToCause, ReliableLossless
    <2> QED BY <2>2, <2>3
  <1>5. CASE DropStale(p)
    <2>1. p.track # t
      BY <1>5, ReliableNeverStale DEF DropStale
    <2>2. \A s \in Subgroups : s[1] = t => s \notin TornBy(p)
      BY <1>1, <2>1 DEF TornBy
    <2> QED BY <1>1, <1>2, <1>5, <2>1, <2>2 DEF DropStale, ResetForTimeout, ReliableLossless
  <1> QED BY <1>4, <1>5

LEMMA ReliableSendObject ==
  ASSUME TypeInv, ReliableLossless, SendObject PROVE ReliableLossless'
  <1> DEFINE t == burst.track
             p == [track |-> t, group |-> burst.group, obj |-> nextObjectId[t],
                   pos |-> nextPos[Priority[t]], sentOffset |-> 0, age |-> 0]
  <1>1. /\ Subgroup(p) \in Subgroups /\ Subgroup(p)[1] = t /\ t \in Tracks
        /\ UNCHANGED resetAfterSend
    BY DEF TypeInv, TypeOK, BurstOK, Subgroup, Subgroups, SendObject
  <1>2. CASE /\ subscriptionsEnded \/ resetSubgroups[Subgroup(p)] # "none"
             /\ Refuse(Subgroup(p))
    <2>1. UNCHANGED <<resetSubgroups, subscriptionsEnded>>
      BY <1>2 DEF Refuse, streams
    <2>2. CASE subscriptionsEnded
      BY <1>1, <1>2, <2>1, <2>2, ReliableSame DEF Refuse
    <2>3. CASE ~subscriptionsEnded
      <3>1. DeliveryTimeout[t] # 0 /\ ChargeToCause(Subgroup(p))
        BY <1>1, <1>2, <2>3 DEF ReliableLossless, Refuse
      <3> HIDE DEF p
      <3> QED BY <1>1, <2>1, <2>3, <3>1
              DEF ReliableLossless, ChargeToCause, TypeInv, TypeOK, CountersOK
    <2> QED BY <2>2, <2>3
  <1>3. CASE Enqueue(p) /\ UNCHANGED quicShedStale
    <2>1. UNCHANGED <<resetSubgroups, quicShedOverflow, quicShedStale, subscriptionsEnded>>
      BY <1>3 DEF Enqueue
    <2> QED BY <1>1, <2>1, ReliableSame
  <1>4. CASE TerminateSubscriptions(p) /\ UNCHANGED quicShedStale
    <2>1. /\ subscriptionsEnded' = TRUE
          /\ resetSubgroups' = [s \in Subgroups |->
               IF s \in subgroupStreams \cup {Subgroup(p)} THEN "OVERFLOW"
               ELSE resetSubgroups[s]]
      BY <1>4 DEF TerminateSubscriptions
    <2> QED BY <1>1, <1>4, <2>1 DEF ReliableLossless
  <1> QED BY <1>2, <1>3, <1>4 DEF SendObject

LEMMA ReliableTimeoutCheck ==
  ASSUME TypeInv, ReliableLossless, TimeoutCheck PROVE ReliableLossless'
  <1> DEFINE expired == ExpiredSubgroups
             torn    == UNION {TornBy(p) : p \in SweptObjects}
  <1> SUFFICES ASSUME NEW t \in Tracks, DeliveryTimeout[t] = 0
               PROVE  /\ quicShedStale'[t] = 0 /\ resetAfterSend'[t] = 0
                      /\ quicShedOverflow'[t] = quicShedOverflow[t]
                      /\ \A s \in Subgroups : s[1] = t => resetSubgroups'[s] = resetSubgroups[s]
    <2>1. subscriptionsEnded' = subscriptionsEnded
      BY DEF TimeoutCheck
    <2> QED BY <2>1 DEF ReliableLossless
  <1>1. quicShedStale[t] = 0 /\ resetAfterSend[t] = 0
    BY DEF ReliableLossless
  <1>2. \A o : Subgroup(o)[1] = o.track
    BY DEF Subgroup
  <1>3. \A s : s[1] = t => s \notin expired \cup torn
    BY <1>2, ReliableNeverStale DEF ExpiredSubgroups, SweptObjects, TornBy
  <1>4. Of(t, SweptObjects) = {} /\ {s \in expired : s[1] = t} = {}
    BY <1>3, ReliableNeverStale DEF Of, SweptObjects
  <1>5. /\ quicShedStale'[t] = quicShedStale[t] + Cardinality(Of(t, SweptObjects))
        /\ resetAfterSend'[t] = resetAfterSend[t] + Cardinality({s \in expired : s[1] = t})
    BY DEF TimeoutCheck
  <1>6. quicShedStale'[t] = 0 /\ resetAfterSend'[t] = 0
    BY <1>1, <1>4, <1>5, FS_EmptySet
  <1>7. quicShedOverflow'[t] = quicShedOverflow[t]
    BY DEF TimeoutCheck
  <1>8. resetSubgroups' = [s \in Subgroups |->
           IF s \in expired \cup torn THEN "TIMEOUT" ELSE resetSubgroups[s]]
    BY DEF TimeoutCheck, ResetForTimeout
  <1> QED BY <1>3, <1>6, <1>7, <1>8

LEMMA ReliableNext == TypeInv /\ ReliableLossless /\ [Next]_vars => ReliableLossless'
  <1> SUFFICES ASSUME TypeInv, ReliableLossless, [Next]_vars PROVE ReliableLossless'
    OBVIOUS
  <1>1. CASE UNCHANGED vars
    BY <1>1, ReliableSame DEF vars, streams, counters
  <1>2. CASE \/ SocketEstablished \/ EndGroup \/ EndFlush \/ QuicFullOrRejected
             \/ QuicDrain \/ QuicHandleRequest \/ Tick
             \/ \E t \in Tracks : AnnounceTrack(t) \/ SubscribeOk(t) \/ StartGroup(t)
             \/ \E s \in Subgroups : QuicAck(s)
             \/ \E p \in sendBuffer : WriteChunk(p)
    <2>1. /\ UNCHANGED <<quicShedStale, quicShedOverflow, resetAfterSend, resetSubgroups>>
          /\ subscriptionsEnded' = subscriptionsEnded
      BY <1>2 DEF SocketEstablished, EndGroup, EndFlush, QuicFullOrRejected, QuicDrain,
                  QuicHandleRequest, AnnounceTrack, SubscribeOk, StartGroup, QuicAck, Tick,
                  WriteChunk, streams, counters
    <2> QED BY <2>1, ReliableSame
  <1>3. ASSUME NEW p \in sendBuffer, DropWithSubgroup(p) \/ DropStale(p)
        PROVE  ReliableLossless'
    BY <1>3, ReliableFlush
  <1>4. CASE SendObject \/ TimeoutCheck
    BY <1>4, ReliableSendObject, ReliableTimeoutCheck
  <1> QED BY <1>1, <1>2, <1>3, <1>4 DEF Next, Application, FlushStep

\* Partial reliability is opt-in: a track with no delivery timeout never loses an object
\* or a stream to a timeout, however the other tracks are shed; and as long as the
\* subscriptions last it loses no object at all and none of its streams is reset.
THEOREM ReliableTracksLossless == Spec => []ReliableLossless
  BY TypeInvariant, ReliableInit, ReliableNext, PTL DEF Spec

-----------------------------------------------------------------------------
(* The objects in flight: their groups, ages and order.                    *)

\* The loop of sendTrackData is running, for the group BurstSubgroup.
Emitting == pc \in {"send", "flushObject"}
BurstSubgroup == <<burst.track, burst.group>>

Live == sendBuffer \cup outstanding

\* The groups of t that have been emitted in full.
GroupsDone(t) == nextObjectId[t] \div ObjectsPerGroup[t]

\* A group is emitted by one burst: between bursts a track stands at the start of
\* a group, and what is live belongs to a group that is done or to the burst.
GroupsInv ==
  /\ \A t \in Tracks :
       IF Emitting /\ t = burst.track
       THEN nextObjectId[t] + burst.left = (burst.group + 1) * ObjectsPerGroup[t]
       ELSE nextObjectId[t] = GroupsDone(t) * ObjectsPerGroup[t]
  /\ \A o \in Live : \/ o.group < GroupsDone(o.track)
                     \/ Emitting /\ Subgroup(o) = BurstSubgroup

\* So the objects of a subgroup, emitted at one instant, have one age.
AgesInv ==
  /\ \A o, q \in Live : Subgroup(o) = Subgroup(q) => o.age = q.age
  /\ Emitting => \A o \in Live : Subgroup(o) = BurstSubgroup => o.age = 0

SameLevel(p, q) == Priority[p.track] = Priority[q.track]

\* Positions are unique within a level, and follow the objects of a track.
OrderInv ==
  /\ \A p \in sendBuffer : /\ p.pos < nextPos[Priority[p.track]]
                           /\ p.obj < nextObjectId[p.track]
  /\ \A p, q \in sendBuffer : p # q /\ SameLevel(p, q) => p.pos # q.pos
  /\ \A p, q \in sendBuffer : p.track = q.track /\ p.pos < q.pos => p.obj < q.obj

\* The objects of a subgroup stand together in their level.
BlocksInv ==
  /\ \A p, q, r \in sendBuffer :
       /\ Subgroup(p) = Subgroup(q) /\ SameLevel(p, r)
       /\ p.pos < r.pos /\ r.pos < q.pos
       => Subgroup(r) = Subgroup(p)
  /\ Emitting => \A p, r \in sendBuffer :
                   Subgroup(p) = BurstSubgroup /\ SameLevel(p, r) /\ p.pos < r.pos
                   => Subgroup(r) = BurstSubgroup

ObjectsInv == GroupsInv /\ AgesInv /\ OrderInv /\ BlocksInv

\* What TypeInv says of an object.
LEMMA ObjectFacts ==
  ASSUME TypeInv
  PROVE  /\ \A p \in sendBuffer :
              /\ p \in Pending /\ p.track \in Tracks /\ p.group \in Nat /\ p.obj \in Nat
              /\ p.pos \in Nat /\ p.sentOffset \in Nat /\ p.age \in Nat
              /\ Priority[p.track] \in Nat /\ Priority[p.track] \in Levels
              /\ Subgroup(p) \in Subgroups
         /\ \A o \in outstanding :
              /\ o \in OutstandingObj /\ o.track \in Tracks /\ o.group \in Nat
              /\ o.obj \in Nat /\ o.age \in Nat /\ Subgroup(o) \in Subgroups
         /\ burst.track \in Tracks /\ burst.group \in Nat /\ burst.left \in Nat
         /\ BurstSubgroup \in Subgroups
         /\ \A t \in Tracks : /\ nextObjectId[t] \in Nat /\ ObjectsPerGroup[t] \in Nat \ {0}
                              /\ Priority[t] \in Levels /\ nextPos[Priority[t]] \in Nat
  BY SubgroupType, TracksAssumption, LimitsAssumption
     DEF TypeInv, TypeOK, ObjectsOK, BurstOK, Pending, OutstandingObj, Levels,
         BurstSubgroup, Subgroups

LEMMA SubgroupFields ==
  \A p, q : Subgroup(p) = Subgroup(q) <=> p.track = q.track /\ p.group = q.group
  BY DEF Subgroup

\* Divisions that come out even.
LEMMA DivExact ==
  ASSUME NEW g \in Nat, NEW k \in Nat \ {0} PROVE (g * k) \div k = g
  OBVIOUS

LEMMA DivMonotone ==
  ASSUME NEW m \in Nat, NEW n \in Nat, m <= n, NEW k \in Nat \ {0}
  PROVE  m \div k <= n \div k /\ m \div k \in Nat
  OBVIOUS

\* Objects that keep their track and group.
LEMMA GroupsKept ==
  ASSUME TypeInv, GroupsInv, Emitting' <=> Emitting, UNCHANGED <<nextObjectId, burst>>,
         \A o \in Live' : \E q \in Live : o.track = q.track /\ o.group = q.group
  PROVE  GroupsInv'
  BY SubgroupFields DEF GroupsInv, GroupsDone, BurstSubgroup, Subgroup

\* Objects that keep their age, and those of a subgroup their common one.
LEMMA AgesKept ==
  ASSUME TypeInv, AgesInv, Emitting' <=> Emitting, UNCHANGED burst,
         \A o \in Live' : \E q \in Live : o.track = q.track /\ o.group = q.group /\ o.age = q.age
  PROVE  AgesInv'
  BY DEF AgesInv, BurstSubgroup, Subgroup

\* Objects that keep their place; was[q] is q before the step.
LEMMA OrderKept ==
  ASSUME TypeInv, OrderInv, BlocksInv, UNCHANGED <<nextObjectId, nextPos, burst>>,
         Emitting' <=> Emitting, NEW was,
         \A q \in sendBuffer' :
           /\ was[q] \in sendBuffer
           /\ was[q].track = q.track /\ was[q].group = q.group
           /\ was[q].obj = q.obj /\ was[q].pos = q.pos,
         \A p, q \in sendBuffer' : was[p] = was[q] => p = q
  PROVE  OrderInv' /\ BlocksInv'
  <1>1. OrderInv'
    BY DEF OrderInv, SameLevel
  <1>2. BlocksInv'
    BY DEF BlocksInv, SameLevel, Subgroup, BurstSubgroup
  <1> QED BY <1>1, <1>2

\* Steps that add no object and leave the burst alone.
LEMMA ObjectsShrink ==
  ASSUME TypeInv, ObjectsInv, UNCHANGED <<nextObjectId, nextPos, burst>>,
         Emitting' <=> Emitting, sendBuffer' \subseteq sendBuffer,
         outstanding' \subseteq outstanding
  PROVE  ObjectsInv'
  <1>1. \A o \in Live' : o \in Live
    BY DEF Live
  <1>2. GroupsInv' /\ AgesInv'
    BY <1>1, GroupsKept, AgesKept DEF ObjectsInv
  <1>3. OrderInv' /\ BlocksInv'
    BY DEF ObjectsInv, OrderInv, BlocksInv, SameLevel, BurstSubgroup
  <1> QED BY <1>2, <1>3 DEF ObjectsInv

\* A slice written changes nothing of the object but its offset; an object written
\* in full moves from the buffer to those outstanding.
LEMMA WriteEffect ==
  ASSUME TypeInv, NEW p \in sendBuffer, WriteChunk(p)
  PROVE  \E n \in Nat \ {0}, next \in Pending :
           /\ n <= ChunkBytes
           /\ next = [p EXCEPT !.sentOffset = p.sentOffset + n]
           /\ next \in Pending /\ next.sentOffset = p.sentOffset + n
           /\ next.track = p.track /\ next.group = p.group /\ next.obj = p.obj
           /\ next.pos = p.pos /\ next.age = p.age
           /\ \/ /\ p.sentOffset + n < ObjectBytes[p.track]
                 /\ sendBuffer' = (sendBuffer \ {p}) \cup {next}
                 /\ UNCHANGED <<outstanding, objectsSent>>
              \/ /\ p.sentOffset + n = ObjectBytes[p.track]
                 /\ sendBuffer' = sendBuffer \ {p}
                 /\ objectsSent' = [objectsSent EXCEPT ![p.track] = @ + 1]
                 /\ \A o \in outstanding' \ outstanding :
                      o.track = p.track /\ o.group = p.group /\ o.age = p.age
           /\ wire' = [wire EXCEPT ![Subgroup(p)] = [obj |-> p.obj, off |-> p.sentOffset + n]]
           /\ quicBytesThisEvent' = quicBytesThisEvent + n
           /\ conn' = Quic!SendData(conn, Subgroup(p), n)
  <1> DEFINE rest == ObjectBytes[p.track] - p.sentOffset
             n    == IF rest < ChunkBytes THEN rest ELSE ChunkBytes
             next == [p EXCEPT !.sentOffset = p.sentOffset + n]
             o    == [track |-> p.track, group |-> p.group, obj |-> p.obj, age |-> p.age]
  <1>1. /\ p \in Pending /\ p.sentOffset \in Nat /\ p.track \in Tracks
        /\ p.sentOffset < ObjectBytes[p.track] /\ ObjectBytes[p.track] \in Nat
    BY TracksAssumption DEF TypeInv, TypeOK, ObjectsOK, Pending
  <1>2. n \in Nat \ {0} /\ n <= ChunkBytes /\ p.sentOffset + n <= ObjectBytes[p.track]
        /\ (n = rest <=> p.sentOffset + n = ObjectBytes[p.track])
    BY <1>1, LimitsAssumption
  <1>3. /\ wire' = [wire EXCEPT ![Subgroup(p)] = [obj |-> p.obj, off |-> p.sentOffset + n]]
        /\ quicBytesThisEvent' = quicBytesThisEvent + n
        /\ conn' = Quic!SendData(conn, Subgroup(p), n)
    BY DEF WriteChunk
  <1>4. IF n = rest
        THEN /\ sendBuffer' = sendBuffer \ {p}
             /\ objectsSent' = [objectsSent EXCEPT ![p.track] = @ + 1]
             /\ outstanding' \subseteq outstanding \cup {o}
        ELSE /\ sendBuffer' = (sendBuffer \ {p}) \cup {next}
             /\ UNCHANGED <<outstanding, objectsSent>>
    BY DEF WriteChunk
  <1>5. o.track = p.track /\ o.group = p.group /\ o.age = p.age
    OBVIOUS
  <1> HIDE DEF n, rest, o
  <1>6. /\ next \in Pending /\ next.sentOffset = p.sentOffset + n
        /\ next.track = p.track /\ next.group = p.group /\ next.obj = p.obj
        /\ next.pos = p.pos /\ next.age = p.age
    BY <1>1, <1>2 DEF Pending
  <1> HIDE DEF next
  <1>7. n # rest => p.sentOffset + n < ObjectBytes[p.track]
    BY <1>1, <1>2
  <1> QED BY <1>2, <1>3, <1>4, <1>5, <1>6, <1>7 DEF next

LEMMA ObjectsWrite ==
  ASSUME TypeInv, ObjectsInv, NEW p \in sendBuffer, WriteChunk(p)
  PROVE  ObjectsInv'
  <1>0. PICK n \in Nat \ {0}, next \in Pending :
           /\ next.track = p.track /\ next.group = p.group /\ next.obj = p.obj
           /\ next.pos = p.pos /\ next.age = p.age /\ next.sentOffset = p.sentOffset + n
           /\ sendBuffer' \subseteq (sendBuffer \ {p}) \cup {next}
           /\ \A o \in outstanding' \ outstanding :
                o.track = p.track /\ o.group = p.group /\ o.age = p.age
    BY WriteEffect
  <1>1. UNCHANGED <<nextObjectId, nextPos, burst>> /\ (Emitting' <=> Emitting)
    BY DEF WriteChunk, Emitting
  <1>2. \A o \in Live' : \E q \in Live : o.track = q.track /\ o.group = q.group /\ o.age = q.age
    BY <1>0 DEF Live
  <1>3. GroupsInv' /\ AgesInv'
    BY <1>1, <1>2, GroupsKept, AgesKept DEF ObjectsInv
  <1> DEFINE was == [q \in sendBuffer' |-> IF q = next THEN p ELSE q]
  <1>4. \A q \in sendBuffer' :
           /\ was[q] \in sendBuffer
           /\ was[q].track = q.track /\ was[q].group = q.group
           /\ was[q].obj = q.obj /\ was[q].pos = q.pos
    BY <1>0
  <1>5. \A q, r \in sendBuffer' : was[q] = was[r] => q = r
    BY <1>0
  <1> HIDE DEF was
  <1>6. OrderInv' /\ BlocksInv'
    BY <1>1, <1>4, <1>5, OrderKept DEF ObjectsInv
  <1> QED BY <1>3, <1>6 DEF ObjectsInv

\* Time passes for all alike.
LEMMA OlderFields ==
  ASSUME TypeInv
  PROVE  /\ \A o \in Live : /\ Older(o).track = o.track /\ Older(o).group = o.group
                            /\ Older(o).obj = o.obj
         /\ \A p \in sendBuffer : /\ Older(p).pos = p.pos
                                  /\ Older(p).sentOffset = p.sentOffset
         /\ \A o, q \in Live : o.track = q.track /\ o.age = q.age => Older(o).age = Older(q).age
  BY DEF TypeInv, TypeOK, ObjectsOK, Pending, OutstandingObj, Older, Live

LEMMA ObjectsTick ==
  ASSUME TypeInv, ObjectsInv, Tick PROVE ObjectsInv'
  <1>1. /\ sendBuffer' = {Older(p) : p \in sendBuffer}
        /\ outstanding' = {Older(o) : o \in outstanding}
        /\ UNCHANGED <<nextObjectId, nextPos, burst>> /\ ~Emitting /\ ~Emitting'
    BY DEF Tick, NewInstant, Emitting
  <1>2. \A o \in Live' : \E q \in Live : o = Older(q)
    BY <1>1 DEF Live
  <1>3. GroupsInv'
    BY <1>1, <1>2, OlderFields, GroupsKept DEF ObjectsInv
  <1>4. AgesInv'
    <2> SUFFICES ASSUME NEW o \in Live', NEW q \in Live', Subgroup(o) = Subgroup(q)
                 PROVE  o.age = q.age
      BY <1>1 DEF AgesInv
    <2>1. PICK a \in Live, b \in Live : o = Older(a) /\ q = Older(b)
      BY <1>2
    <2>2. a.track = b.track /\ a.group = b.group
      BY <2>1, OlderFields, SubgroupFields
    <2>3. a.age = b.age
      BY <2>2, SubgroupFields DEF ObjectsInv, AgesInv
    <2> QED BY <2>1, <2>2, <2>3, OlderFields
  <1> DEFINE was == [q \in sendBuffer' |-> CHOOSE p \in sendBuffer : q = Older(p)]
  <1>5. \A q \in sendBuffer' : was[q] \in sendBuffer /\ q = Older(was[q])
    BY <1>1
  <1> HIDE DEF was
  <1>6. \A p \in sendBuffer : p \in Live
    BY DEF Live
  <1>7. \A q \in sendBuffer' :
           /\ was[q].track = q.track /\ was[q].group = q.group
           /\ was[q].obj = q.obj /\ was[q].pos = q.pos
    BY <1>5, <1>6, OlderFields
  <1>8. OrderInv' /\ BlocksInv'
    BY <1>1, <1>5, <1>7, OrderKept DEF ObjectsInv
  <1> QED BY <1>3, <1>4, <1>8 DEF ObjectsInv

\* A burst begins with a group of which nothing is live.
LEMMA ObjectsStartGroup ==
  ASSUME TypeInv, ObjectsInv, NEW t \in Tracks, StartGroup(t) PROVE ObjectsInv'
  <1>1. /\ UNCHANGED <<nextObjectId, nextPos, sendBuffer, outstanding>> /\ ~Emitting
    BY DEF StartGroup, TimerMayFire, Emitting
  <1>2. CASE UNCHANGED <<pc, burst>>
    BY <1>1, <1>2, ObjectsShrink DEF Emitting
  <1>3. CASE ~UNCHANGED <<pc, burst>>
    <2>1. pc' = "send" /\ burst' = GroupBurst(t) /\ Emitting'
      BY <1>3 DEF StartGroup, Emitting
    <2>2. /\ burst'.track = t /\ burst'.group = GroupsDone(t)
          /\ burst'.left = ObjectsPerGroup[t] /\ BurstSubgroup' = <<t, GroupsDone(t)>>
      BY <2>1 DEF GroupBurst, GroupsDone, BurstSubgroup
    <2>3. GroupsDone(t) \in Nat /\ ObjectsPerGroup[t] \in Nat \ {0}
      BY DivMonotone, ObjectFacts DEF GroupsDone
    <2>4. nextObjectId[t] + ObjectsPerGroup[t] = (GroupsDone(t) + 1) * ObjectsPerGroup[t]
      <3>1. nextObjectId[t] = GroupsDone(t) * ObjectsPerGroup[t]
        BY <1>1 DEF ObjectsInv, GroupsInv
      <3> QED BY <2>3, <3>1
    <2>5. \A o \in Live : o.group < GroupsDone(o.track)
      BY <1>1 DEF ObjectsInv, GroupsInv
    <2>6. \A o \in Live : Subgroup(o) # BurstSubgroup'
      <3> SUFFICES ASSUME NEW o \in Live, o.track = t, o.group = GroupsDone(t) PROVE FALSE
        BY <2>2 DEF Subgroup
      <3> QED BY <2>3, <2>5
    <2>7. Live' = Live /\ \A u : GroupsDone(u)' = GroupsDone(u)
      BY <1>1 DEF Live, GroupsDone
    <2>8. GroupsInv'
      BY <1>1, <2>1, <2>2, <2>4, <2>5, <2>7 DEF ObjectsInv, GroupsInv
    <2>9. AgesInv'
      BY <1>1, <2>6, <2>7 DEF ObjectsInv, AgesInv
    <2>10. OrderInv'
      BY <1>1 DEF ObjectsInv, OrderInv, SameLevel
    <2>11. BlocksInv'
      BY <1>1, <2>6 DEF ObjectsInv, BlocksInv, SameLevel, Live
    <2> QED BY <2>8, <2>9, <2>10, <2>11 DEF ObjectsInv
  <1> QED BY <1>2, <1>3

\* And ends with the group done.
LEMMA ObjectsEndGroup ==
  ASSUME TypeInv, ObjectsInv, EndGroup PROVE ObjectsInv'
  <1>1. /\ UNCHANGED <<nextObjectId, nextPos, sendBuffer, outstanding>>
        /\ Emitting /\ ~Emitting' /\ burst.left = 0
    BY DEF EndGroup, Emitting
  <1> DEFINE t == burst.track
  <1>2. /\ t \in Tracks /\ burst.group \in Nat /\ ObjectsPerGroup[t] \in Nat \ {0}
        /\ nextObjectId[t] \in Nat
    BY ObjectFacts
  <1>3. nextObjectId[t] = (burst.group + 1) * ObjectsPerGroup[t]
    BY <1>1, <1>2 DEF ObjectsInv, GroupsInv
  <1>4. GroupsDone(t) = burst.group + 1
    BY <1>2, <1>3, DivExact DEF GroupsDone
  <1>5. Live' = Live /\ \A u : GroupsDone(u)' = GroupsDone(u)
    BY <1>1 DEF Live, GroupsDone
  <1>6. GroupsInv'
    <2>1. \A u \in Tracks : nextObjectId[u] = GroupsDone(u) * ObjectsPerGroup[u]
      BY <1>3, <1>4 DEF ObjectsInv, GroupsInv
    <2>2. \A o \in Live : o.group < GroupsDone(o.track)
      <3> SUFFICES ASSUME NEW o \in Live, Subgroup(o) = BurstSubgroup
                   PROVE  o.group < GroupsDone(o.track)
        BY DEF ObjectsInv, GroupsInv
      <3> QED BY <1>2, <1>4 DEF Subgroup, BurstSubgroup
    <2> QED BY <1>1, <1>5, <2>1, <2>2 DEF GroupsInv
  <1>7. AgesInv' /\ OrderInv' /\ BlocksInv'
    BY <1>1, <1>5 DEF ObjectsInv, AgesInv, OrderInv, BlocksInv, SameLevel
  <1> QED BY <1>6, <1>7 DEF ObjectsInv

\* The object a burst offers next, and the three things that may become of it.
Offered == [track |-> burst.track, group |-> burst.group,
            obj |-> nextObjectId[burst.track],
            pos |-> nextPos[Priority[burst.track]], sentOffset |-> 0, age |-> 0]

Refused    == /\ subscriptionsEnded \/ resetSubgroups[BurstSubgroup] # "none"
              /\ Refuse(BurstSubgroup)
Flushed    == /\ ~subscriptionsEnded /\ resetSubgroups[BurstSubgroup] = "none"
              /\ nextPos' = [nextPos EXCEPT ![Priority[burst.track]] = @ + 1]
              /\ pc' = "flushObject" /\ quicBytesThisEvent' = BytesAtFlush
              /\ UNCHANGED quicShedStale
Enqueued   == Flushed /\ Enqueue(Offered)
Terminated == Flushed /\ TerminateSubscriptions(Offered)

LEMMA SendEffect ==
  ASSUME TypeInv, SendObject
  PROVE  /\ pc = "send" /\ burst.left > 0
         /\ burst'.track = burst.track /\ burst'.group = burst.group
         /\ burst'.left = burst.left - 1
         /\ nextObjectId' = [nextObjectId EXCEPT ![burst.track] = @ + 1]
         /\ Refused \/ Enqueued \/ Terminated
         /\ UNCHANGED <<connected, timerKind, checkTimer, subscribeOks, quicBlocked,
                        objectsSent, resetAfterSend, wire>>
  <1>1. Subgroup(Offered) = BurstSubgroup
    BY DEF Offered, BurstSubgroup, Subgroup
  <1>2. /\ burst'.track = burst.track /\ burst'.group = burst.group
        /\ burst'.left = burst.left - 1
    BY DEF SendObject, TypeInv, TypeOK, BurstOK
  <1>3. Refused \/ Enqueued \/ Terminated
    <2>1. \/ /\ subscriptionsEnded \/ resetSubgroups[Subgroup(Offered)] # "none"
             /\ Refuse(Subgroup(Offered))
          \/ /\ ~subscriptionsEnded /\ resetSubgroups[Subgroup(Offered)] = "none"
             /\ Enqueue(Offered) \/ TerminateSubscriptions(Offered)
             /\ nextPos' = [nextPos EXCEPT ![Priority[burst.track]] = @ + 1]
             /\ pc' = "flushObject" /\ quicBytesThisEvent' = BytesAtFlush
             /\ UNCHANGED quicShedStale
      BY DEF SendObject, Offered
    <2> QED BY <1>1, <2>1 DEF Refused, Enqueued, Terminated, Flushed
  <1> QED BY <1>2, <1>3 DEF SendObject

LEMMA OfferedFacts ==
  ASSUME TypeInv
  PROVE  /\ Offered.track = burst.track /\ Offered.group = burst.group
         /\ Offered.obj = nextObjectId[burst.track]
         /\ Offered.pos = nextPos[Priority[burst.track]]
         /\ Offered.sentOffset = 0 /\ Offered.age = 0
         /\ Subgroup(Offered) = BurstSubgroup
  BY DEF Offered, Subgroup, BurstSubgroup

LEMMA ObjectsSend ==
  ASSUME TypeInv, ObjectsInv, SendObject PROVE ObjectsInv'
  <1> DEFINE t == burst.track
  <1>1. /\ burst'.track = t /\ burst'.group = burst.group /\ burst'.left = burst.left - 1
        /\ nextObjectId' = [nextObjectId EXCEPT ![t] = @ + 1]
        /\ BurstSubgroup' = BurstSubgroup /\ Emitting /\ Emitting'
    BY SendEffect DEF BurstSubgroup, Emitting, Refused, Refuse, Enqueued, Terminated, Flushed
  <1>2. /\ t \in Tracks /\ burst.left \in Nat
        /\ \A u \in Tracks : /\ nextObjectId[u] \in Nat /\ ObjectsPerGroup[u] \in Nat \ {0}
                             /\ nextObjectId'[u] = IF u = t THEN nextObjectId[u] + 1
                                                   ELSE nextObjectId[u]
    BY <1>1, ObjectFacts DEF TypeInv, TypeOK, BurstOK
  <1>3. \A u \in Tracks : /\ GroupsDone(u)' \in Nat /\ GroupsDone(u) \in Nat
                          /\ GroupsDone(u) <= GroupsDone(u)'
                          /\ u # t => GroupsDone(u)' = GroupsDone(u)
    BY <1>2, DivMonotone DEF GroupsDone
  <1>4. /\ sendBuffer' \subseteq sendBuffer \cup {Offered}
        /\ outstanding' \subseteq outstanding
    BY SendEffect DEF Refused, Refuse, Enqueued, Terminated, Enqueue, TerminateSubscriptions
  <1>5. \A o \in Live' : o \in Live \/ o = Offered
    BY <1>4 DEF Live
  <1>6. GroupsInv'
    <2>1. \A u \in Tracks :
            IF u = t THEN nextObjectId'[u] + burst'.left = (burst.group + 1) * ObjectsPerGroup[u]
            ELSE nextObjectId'[u] = GroupsDone(u)' * ObjectsPerGroup[u]
      <3>1. \A u \in Tracks :
              IF u = t THEN nextObjectId[u] + burst.left = (burst.group + 1) * ObjectsPerGroup[u]
              ELSE nextObjectId[u] = GroupsDone(u) * ObjectsPerGroup[u]
        BY <1>1 DEF ObjectsInv, GroupsInv
      <3> DEFINE all(u) == (burst.group + 1) * ObjectsPerGroup[u]
      <3>2. \A u \in Tracks : u = t => nextObjectId'[u] + burst'.left = all(u)
        <4>1. nextObjectId[t] + burst.left = all(t)
          BY <1>2, <3>1
        <4> HIDE DEF all
        <4> QED BY <1>1, <1>2, <4>1
      <3> QED BY <1>2, <1>3, <3>1, <3>2
    <2>2. ASSUME NEW o \in Live'
          PROVE  o.group < GroupsDone(o.track)' \/ Subgroup(o) = BurstSubgroup'
      <3>1. CASE o \in Live
        <4>1. o.track \in Tracks /\ o.group \in Nat
          BY <3>1, ObjectFacts DEF Live
        <4>2. o.group < GroupsDone(o.track) \/ Subgroup(o) = BurstSubgroup
          BY <1>1, <3>1 DEF ObjectsInv, GroupsInv
        <4> QED BY <1>1, <1>3, <4>1, <4>2
      <3>2. CASE o = Offered
        BY <1>1, <3>2, OfferedFacts
      <3> QED BY <1>5, <3>1, <3>2
    <2> QED BY <1>1, <2>1, <2>2 DEF GroupsInv
  <1>7. AgesInv'
    BY <1>1, <1>5, OfferedFacts DEF ObjectsInv, AgesInv
  <1>8. OrderInv' /\ BlocksInv'
    <2>1. CASE sendBuffer' \subseteq sendBuffer /\ UNCHANGED nextPos
      <3>1. \A p \in sendBuffer : p.obj < nextObjectId'[p.track]
        BY <1>2, ObjectFacts DEF ObjectsInv, OrderInv
      <3> QED BY <1>1, <2>1, <3>1 DEF ObjectsInv, OrderInv, BlocksInv, SameLevel
    <2>2. CASE /\ sendBuffer' \subseteq sendBuffer \cup {Offered}
               /\ nextPos' = [nextPos EXCEPT ![Priority[t]] = @ + 1]
      <3>1. \A p \in sendBuffer : p.obj < nextObjectId'[p.track]
        BY <1>2, ObjectFacts DEF ObjectsInv, OrderInv
      <3>2. \A u \in Tracks : /\ nextPos'[Priority[u]] \in Nat
                              /\ nextPos[Priority[u]] <= nextPos'[Priority[u]]
        BY <2>2, ObjectFacts DEF TypeInv, TypeOK, BurstOK
      <3>3. nextPos'[Priority[t]] = nextPos[Priority[t]] + 1
        BY <1>2, <2>2, ObjectFacts DEF TypeInv, TypeOK, BurstOK
      <3>4. \A p \in sendBuffer : /\ p.pos < nextPos'[Priority[p.track]]
                                  /\ SameLevel(p, Offered) => p.pos < Offered.pos
        BY <3>2, ObjectFacts, OfferedFacts DEF ObjectsInv, OrderInv, SameLevel
      <3>5. /\ Offered.pos < nextPos'[Priority[Offered.track]]
            /\ Offered.obj < nextObjectId'[Offered.track]
        BY <1>2, <3>3, ObjectFacts, OfferedFacts
      <3>6. \A p \in sendBuffer : p.track = t => p.obj < Offered.obj
        BY OfferedFacts DEF ObjectsInv, OrderInv
      <3>7. OrderInv'
        <4>1. \A p \in sendBuffer' : /\ p.pos < nextPos'[Priority[p.track]]
                                     /\ p.obj < nextObjectId'[p.track]
          BY <2>2, <3>1, <3>4, <3>5
        <4>2. \A p, q \in sendBuffer' : p # q /\ SameLevel(p, q) => p.pos # q.pos
          <5>1. \A p \in sendBuffer : SameLevel(p, Offered) \/ SameLevel(Offered, p)
                                      => p.pos # Offered.pos
            BY <3>4, ObjectFacts, OfferedFacts DEF SameLevel
          <5> QED BY <2>2, <5>1 DEF ObjectsInv, OrderInv, SameLevel
        <4>3. \A p, q \in sendBuffer' : p.track = q.track /\ p.pos < q.pos => p.obj < q.obj
          <5>1. \A p \in sendBuffer : p.track = t => ~(Offered.pos < p.pos)
            BY <3>4, ObjectFacts, OfferedFacts DEF SameLevel
          <5>2. Offered.pos \in Nat /\ Offered.track = t
            BY <1>2, ObjectFacts, OfferedFacts
          <5> QED BY <2>2, <3>6, <5>1, <5>2 DEF ObjectsInv, OrderInv
        <4> QED BY <4>1, <4>2, <4>3 DEF OrderInv, SameLevel
      <3>8. BlocksInv'
        <4>1. \A p \in sendBuffer, q \in sendBuffer' : Subgroup(p) = BurstSubgroup
                /\ SameLevel(p, q) /\ p.pos < q.pos => Subgroup(q) = BurstSubgroup
          BY <1>1, <2>2, OfferedFacts DEF ObjectsInv, BlocksInv
        <4>2. \A q \in sendBuffer' : SameLevel(Offered, q) => ~(Offered.pos < q.pos)
          <5>1. Offered.pos \in Nat
            BY <1>2, ObjectFacts, OfferedFacts
          <5> QED BY <2>2, <3>4, <5>1, ObjectFacts DEF SameLevel
        <4>3. \A p, r \in sendBuffer' : Subgroup(p) = BurstSubgroup /\ SameLevel(p, r)
                                        /\ p.pos < r.pos => Subgroup(r) = BurstSubgroup
          BY <2>2, <4>1, <4>2
        <4>4. ASSUME NEW p \in sendBuffer', NEW q \in sendBuffer', NEW r \in sendBuffer',
                     Subgroup(p) = Subgroup(q), SameLevel(p, r), p.pos < r.pos, r.pos < q.pos
              PROVE  Subgroup(r) = Subgroup(p)
          <5>1. CASE Subgroup(p) = BurstSubgroup
            BY <4>3, <4>4, <5>1
          <5>2. CASE Subgroup(p) # BurstSubgroup
            <6>1. p \in sendBuffer /\ q \in sendBuffer
              BY <2>2, <4>4, <5>2, OfferedFacts
            <6>2. CASE r \in sendBuffer
              BY <4>4, <6>1, <6>2 DEF ObjectsInv, BlocksInv
            <6>3. CASE r = Offered
              <7>1. SameLevel(Offered, q)
                BY <4>4, <6>3, SubgroupFields DEF SameLevel
              <7> QED BY <4>2, <4>4, <6>3, <7>1
            <6> QED BY <2>2, <6>2, <6>3
          <5> QED BY <5>1, <5>2
        <4> QED BY <1>1, <4>3, <4>4 DEF BlocksInv, SameLevel
      <3> QED BY <3>7, <3>8
    <2> QED BY <2>1, <2>2, SendEffect
            DEF Refused, Refuse, Enqueued, Terminated, Flushed, Enqueue, TerminateSubscriptions
  <1> QED BY <1>6, <1>7, <1>8 DEF ObjectsInv

\* Every step.
LEMMA ObjectsInit == Init => ObjectsInv
  <1> SUFFICES ASSUME Init PROVE ObjectsInv
    OBVIOUS
  <1>1. ~Emitting /\ Live = {} /\ sendBuffer = {}
    BY DEF Init, Emitting, Live
  <1>2. \A t \in Tracks : nextObjectId[t] = GroupsDone(t) * ObjectsPerGroup[t]
    <2> TAKE t \in Tracks
    <2>1. nextObjectId[t] = 0 /\ ObjectsPerGroup[t] \in Nat \ {0}
      BY TracksAssumption DEF Init
    <2> QED BY <2>1 DEF GroupsDone
  <1> QED BY <1>1, <1>2 DEF ObjectsInv, GroupsInv, AgesInv, OrderInv, BlocksInv

LEMMA ObjectsNext == TypeInv /\ ObjectsInv /\ [Next]_vars => ObjectsInv'
  <1> SUFFICES ASSUME TypeInv, ObjectsInv, [Next]_vars PROVE ObjectsInv'
    OBVIOUS
  <1>1. CASE \/ UNCHANGED vars
             \/ SocketEstablished \/ EndFlush \/ QuicFullOrRejected \/ QuicDrain
             \/ QuicHandleRequest \/ TimeoutCheck
             \/ \E t \in Tracks : AnnounceTrack(t) \/ SubscribeOk(t)
             \/ \E s \in Subgroups : QuicAck(s)
             \/ \E p \in sendBuffer : DropWithSubgroup(p) \/ DropStale(p)
    <2>1. /\ UNCHANGED <<nextObjectId, nextPos, burst>>
          /\ sendBuffer' \subseteq sendBuffer /\ outstanding' \subseteq outstanding
      BY <1>1 DEF vars, SocketEstablished, EndFlush, QuicFullOrRejected, QuicDrain,
                  QuicHandleRequest, TimeoutCheck, StillOutstanding, AnnounceTrack,
                  SubscribeOk, QuicAck, DropWithSubgroup, DropStale
    <2>2. Emitting' <=> Emitting
      BY <1>1 DEF vars, SocketEstablished, EndFlush, QuicFullOrRejected, QuicDrain,
                  QuicHandleRequest, TimeoutCheck, TimerMayFire, AnnounceTrack, NewInstant,
                  SubscribeOk, QuicAck, DropWithSubgroup, DropStale, Emitting, Flushing
    <2> QED BY <2>1, <2>2, ObjectsShrink
  <1>2. ASSUME NEW t \in Tracks, StartGroup(t) PROVE ObjectsInv'
    BY <1>2, ObjectsStartGroup
  <1>3. ASSUME NEW p \in sendBuffer, WriteChunk(p) PROVE ObjectsInv'
    BY <1>3, ObjectsWrite
  <1>4. CASE SendObject \/ EndGroup \/ Tick
    BY <1>4, ObjectsSend, ObjectsEndGroup, ObjectsTick
  <1> QED BY <1>1, <1>2, <1>3, <1>4 DEF Next, Application, FlushStep

LEMMA ObjectsInvariant == Spec => []ObjectsInv
  BY TypeInvariant, ObjectsInit, ObjectsNext, PTL DEF Spec

-----------------------------------------------------------------------------
(* Objects whose stream was reset.                                         *)

Orphan(p) == resetSubgroups[Subgroup(p)] # "none"

\* They exist only while the flush loop can still drop them, and are ahead of all
\* others, so that it does so before it writes anything.
OrphansInv ==
  /\ (\E p \in sendBuffer : Orphan(p)) => Flushing /\ MayWrite
  /\ \A p, q \in sendBuffer : Orphan(p) /\ ~Orphan(q) => Before(p, q)

\* Of two objects one is before the other, unless they are one.
LEMMA BeforeTotal ==
  ASSUME TypeInv, ObjectsInv, NEW p \in sendBuffer, NEW q \in sendBuffer
  PROVE  /\ p # q => Before(p, q) \/ Before(q, p)
         /\ ~(Before(p, q) /\ Before(q, p))
  BY ObjectFacts DEF ObjectsInv, OrderInv, SameLevel, Before

\* What is behind the front object, and in its subgroup.
LEMMA FrontFacts ==
  ASSUME TypeInv, ObjectsInv, NEW p \in sendBuffer, IsFront(p),
         NEW q \in sendBuffer \ {p}
  PROVE  /\ Before(p, q) /\ ~Before(q, p)
         /\ Subgroup(p) = Subgroup(q) => p.obj < q.obj
  <1>1. Before(p, q) /\ ~Before(q, p)
    BY BeforeTotal DEF IsFront
  <1>2. ASSUME Subgroup(p) = Subgroup(q) PROVE p.obj < q.obj
    <2>1. p.track = q.track /\ p.pos < q.pos
      BY <1>1, <1>2, ObjectFacts, SubgroupFields DEF Before
    <2> QED BY <2>1 DEF ObjectsInv, OrderInv
  <1> QED BY <1>1, <1>2

\* The front object's subgroup stands before all the rest.
LEMMA FrontBlock ==
  ASSUME TypeInv, ObjectsInv, NEW p \in sendBuffer, IsFront(p),
         NEW q \in sendBuffer, NEW r \in sendBuffer,
         Subgroup(q) = Subgroup(p), Subgroup(r) # Subgroup(p)
  PROVE  Before(q, r)
  <1>1. q # r /\ r # p
    OBVIOUS
  <1>2. ASSUME Before(r, q) PROVE FALSE
    <2>1. Before(p, r)
      BY <1>1, FrontFacts
    <2>2. Priority[p.track] = Priority[q.track]
      BY SubgroupFields
    <2>3. SameLevel(p, r) /\ p.pos < r.pos /\ r.pos < q.pos
      BY <1>2, <2>1, <2>2, ObjectFacts DEF Before, SameLevel
    <2> QED BY <2>3 DEF ObjectsInv, BlocksInv
  <1> QED BY <1>1, <1>2, BeforeTotal

\* The flush loop's condition does not change when a stream is reset.
LEMMA MayWriteKept ==
  ASSUME TypeInv, UNCHANGED <<quicBlocked, quicBytesThisEvent>>,
         conn'.held = conn.held
  PROVE  MayWrite' <=> MayWrite
  BY DEF MayWrite, Quic!Occupancy

LEMMA ResetKeepsHeld ==
  ASSUME NEW c \in Quic!Connections, NEW S
  PROVE  /\ Quic!ResetStreams(c, S).held = c.held
         /\ Quic!ResetStreams(c, S).accept = c.accept
         /\ Quic!ResetStreams(c, S).inds = c.inds
         /\ Quic!ResetStreams(c, S).rejected = c.rejected
  BY DEF Quic!ResetStreams, Quic!Connections

LEMMA OrphansFlush ==
  ASSUME TypeInv, ObjectsInv, OrphansInv, NEW p \in sendBuffer,
         DropWithSubgroup(p) \/ DropStale(p) \/ WriteChunk(p)
  PROVE  OrphansInv'
  <1>0. Flushing /\ MayWrite /\ IsFront(p)
    BY DEF DropWithSubgroup, DropStale, WriteChunk
  <1>1. CASE DropWithSubgroup(p)
    <2>1. /\ UNCHANGED <<quicBlocked, quicBytesThisEvent, conn, resetSubgroups, pc>>
          /\ sendBuffer' \subseteq sendBuffer
      BY <1>1 DEF DropWithSubgroup, streams
    <2>2. MayWrite' /\ Flushing'
      BY <1>0, <2>1, MayWriteKept DEF Flushing
    <2> QED BY <2>1, <2>2 DEF OrphansInv, Orphan, Before
  <1>2. CASE DropStale(p)
    <2>1. /\ UNCHANGED <<quicBlocked, quicBytesThisEvent, pc>>
          /\ sendBuffer' = sendBuffer \ {p}
          /\ conn' = Quic!ResetStreams(conn, TornBy(p))
          /\ ~Orphan(p)
          /\ resetSubgroups' = [s \in Subgroups |->
                                  IF s \in TornBy(p) THEN "TIMEOUT" ELSE resetSubgroups[s]]
      BY <1>2 DEF DropStale, ResetForTimeout, Orphan
    <2>2. MayWrite' /\ Flushing'
      <3>1. conn'.held = conn.held
        BY <2>1, ResetKeepsHeld DEF TypeInv, TypeOK, QuicOK
      <3> QED BY <1>0, <2>1, <3>1, MayWriteKept DEF Flushing
    <2>3. \A q \in sendBuffer : ~Orphan(q)
      BY <1>0, <2>1, FrontFacts DEF OrphansInv
    <2>4. \A q \in sendBuffer' : Orphan(q)' => Subgroup(q) = Subgroup(p)
      BY <2>1, <2>3, ObjectFacts DEF Orphan, TornBy
    <2>5. \A q, r \in sendBuffer' : Orphan(q)' /\ ~Orphan(r)' => Before(q, r)
      <3> SUFFICES ASSUME NEW q \in sendBuffer', NEW r \in sendBuffer', Orphan(q)', ~Orphan(r)'
                   PROVE  Before(q, r)
        OBVIOUS
      <3>1. Subgroup(q) = Subgroup(p) /\ Subgroup(r) # Subgroup(p)
        BY <2>4 DEF Orphan
      <3> QED BY <1>0, <2>1, <3>1, FrontBlock
    <2> QED BY <2>2, <2>5 DEF OrphansInv, Before
  <1>3. CASE WriteChunk(p)
    <2>1. PICK n \in Nat \ {0}, next \in Pending :
            /\ next.track = p.track /\ next.group = p.group
            /\ sendBuffer' \subseteq (sendBuffer \ {p}) \cup {next}
      BY <1>3, WriteEffect
    <2>2. ~Orphan(p) /\ UNCHANGED resetSubgroups
      BY <1>3 DEF WriteChunk, Orphan, streams
    <2>3. \A q \in sendBuffer : ~Orphan(q)
      BY <1>0, <2>2, FrontFacts DEF OrphansInv
    <2>4. \A q \in sendBuffer' : ~Orphan(q)'
      BY <2>1, <2>2, <2>3, SubgroupFields DEF Orphan
    <2> QED BY <2>4 DEF OrphansInv
  <1> QED BY <1>1, <1>2, <1>3

\* The check drops with an expired object all others of its subgroup: they have
\* its age.
LEMMA OrphansTimeoutCheck ==
  ASSUME TypeInv, ObjectsInv, TeardownInv, OrphansInv, TimeoutCheck PROVE OrphansInv'
  <1> DEFINE torn == UNION {TornBy(p) : p \in SweptObjects}
  <1>1. /\ sendBuffer' = sendBuffer \ SweptObjects
        /\ resetSubgroups' = [s \in Subgroups |->
             IF s \in ExpiredSubgroups \cup torn THEN "TIMEOUT" ELSE resetSubgroups[s]]
    BY DEF TimeoutCheck, ResetForTimeout
  <1>2. \A q \in sendBuffer : ~Orphan(q)
    BY DEF OrphansInv, TimeoutCheck, TimerMayFire, Flushing
  <1>3. ASSUME NEW q \in sendBuffer', Orphan(q)' PROVE FALSE
    <2>1. q \in sendBuffer /\ q \notin SweptObjects /\ ~subscriptionsEnded
      BY <1>1 DEF TeardownInv, TeardownClean
    <2>2. ~Stale(q)
      BY <2>1 DEF SweptObjects
    <2>3. Subgroup(q) \in ExpiredSubgroups \cup torn
      BY <1>1, <1>2, <1>3, <2>1, ObjectFacts DEF Orphan
    <2>4. PICK o \in Live : Subgroup(o) = Subgroup(q) /\ Stale(o)
      <3>1. CASE Subgroup(q) \in ExpiredSubgroups
        BY <3>1 DEF ExpiredSubgroups, Live
      <3>2. CASE Subgroup(q) \in torn
        <4>1. PICK p \in SweptObjects : Subgroup(q) \in TornBy(p)
          BY <3>2
        <4> QED BY <4>1 DEF TornBy, SweptObjects, Live
      <3> QED BY <2>3, <3>1, <3>2
    <2>5. o.age = q.age /\ o.track = q.track
      BY <2>1, <2>4, SubgroupFields DEF ObjectsInv, AgesInv, Live
    <2> QED BY <2>2, <2>4, <2>5 DEF Stale
  <1> QED BY <1>3 DEF OrphansInv

\* The other steps add no orphan, and start where there is none.
LEMMA OrphansNone ==
  ASSUME \A q \in sendBuffer' : ~Orphan(q)' PROVE OrphansInv'
  BY DEF OrphansInv

LEMMA OrphansInit == Init => OrphansInv
  BY DEF Init, OrphansInv

LEMMA OrphansNext ==
  TypeInv /\ ObjectsInv /\ TeardownInv /\ OrphansInv /\ [Next]_vars => OrphansInv'
  <1> SUFFICES ASSUME TypeInv, ObjectsInv, TeardownInv, OrphansInv, [Next]_vars
               PROVE  OrphansInv'
    OBVIOUS
  <1>1. CASE UNCHANGED vars
    BY <1>1, MayWriteKept DEF vars, streams, OrphansInv, Orphan, Before, Flushing
  <1>2. CASE \/ SocketEstablished \/ EndGroup \/ QuicFullOrRejected \/ QuicDrain
             \/ QuicHandleRequest
             \/ \E t \in Tracks : AnnounceTrack(t) \/ SubscribeOk(t) \/ StartGroup(t)
             \/ \E s \in Subgroups : QuicAck(s)
    <2>1. ~Flushing /\ UNCHANGED <<sendBuffer, resetSubgroups>>
      BY <1>2 DEF SocketEstablished, EndGroup, QuicFullOrRejected, QuicDrain,
                  QuicHandleRequest, AnnounceTrack, SubscribeOk, StartGroup, QuicAck,
                  TimerMayFire, NewInstant, Flushing, streams
    <2> QED BY <2>1 DEF OrphansInv, Orphan
  <1>3. CASE EndFlush
    <2>1. UNCHANGED <<sendBuffer, resetSubgroups>> /\ (~MayWrite \/ sendBuffer = {})
      BY <1>3 DEF EndFlush, streams
    <2> QED BY <2>1 DEF OrphansInv, Orphan
  <1>4. CASE SendObject
    <2>1. \A q \in sendBuffer : ~Orphan(q)
      BY <1>4 DEF SendObject, OrphansInv, Flushing
    <2>2. CASE Refused
      BY <2>1, <2>2, OrphansNone DEF Refused, Refuse, Orphan, streams
    <2>3. CASE Enqueued
      <3>1. /\ sendBuffer' = sendBuffer \cup {Offered} /\ UNCHANGED resetSubgroups
            /\ resetSubgroups[BurstSubgroup] = "none"
        BY <2>3 DEF Enqueued, Enqueue, Flushed
      <3> QED BY <2>1, <3>1, OfferedFacts, OrphansNone DEF Orphan
    <2>4. CASE Terminated
      BY <2>4, OrphansNone DEF Terminated, TerminateSubscriptions
    <2> QED BY <1>4, <2>2, <2>3, <2>4, SendEffect
  <1>5. CASE Tick
    <2>1. /\ sendBuffer' = {Older(p) : p \in sendBuffer} /\ UNCHANGED resetSubgroups
          /\ ~Flushing
      BY <1>5 DEF Tick, NewInstant, Flushing, streams
    <2>2. \A p \in sendBuffer : Subgroup(Older(p)) = Subgroup(p)
      BY OlderFields, SubgroupFields DEF Live
    <2> QED BY <2>1, <2>2 DEF OrphansInv, Orphan
  <1>6. CASE FlushStep \/ TimeoutCheck
    BY <1>3, <1>6, OrphansFlush, OrphansTimeoutCheck DEF FlushStep
  <1> QED BY <1>1, <1>2, <1>3, <1>4, <1>5, <1>6 DEF Next, Application

LEMMA OrphansInvariant == Spec => []OrphansInv
  BY TypeInvariant, ObjectsInvariant, TeardownInvariant, OrphansInit, OrphansNext, PTL DEF Spec

\* When a handler of MoqPublisherApp is done, no object in the buffer belongs to a
\* stream that was reset: the flush that follows a reset has dropped them all and
\* charged them to the delivery timeout.
THEOREM NoOrphansLeft == Spec => []NoOrphans
  <1>1. OrphansInv => NoOrphans
    BY DEF OrphansInv, NoOrphans, Orphan, Flushing
  <1> QED BY <1>1, OrphansInvariant, PTL

-----------------------------------------------------------------------------
(* What is on the streams.                                                 *)

\* A buffered object, never written in full, continues the one its stream carries, from
\* the offset reached, or is a later one of which nothing has been written.
WireInv ==
  /\ \A s \in Subgroups : /\ ~Untouched(s) => wire[s].off > 0
                          /\ wire[s].obj < nextObjectId[s[1]]
  /\ \A p \in sendBuffer :
       \/ p.obj = wire[Subgroup(p)].obj /\ p.sentOffset = wire[Subgroup(p)].off
       \/ p.obj > wire[Subgroup(p)].obj /\ p.sentOffset = 0
  /\ \A p \in sendBuffer : p.sentOffset < ObjectBytes[p.track]

FramingInv == WireInv /\ PartWaits

LEMMA WireFacts ==
  ASSUME TypeInv
  PROVE  \A s \in Subgroups : /\ wire[s].obj \in Int /\ wire[s].off \in Nat
                              /\ s[1] \in Tracks /\ nextObjectId[s[1]] \in Nat
  BY ObjectFacts DEF TypeInv, TypeOK, StreamsOK, Subgroups

\* Nothing is written; objects may leave the buffer with their streams, and age.
LEMMA FramingKept ==
  ASSUME TypeInv, FramingInv, UNCHANGED wire,
         \A t \in Tracks : nextObjectId[t] <= nextObjectId'[t] /\ nextObjectId'[t] \in Nat,
         NEW was,
         \A q \in sendBuffer' :
           /\ was[q] \in sendBuffer /\ Subgroup(was[q]) = Subgroup(q)
           /\ was[q].obj = q.obj /\ was[q].sentOffset = q.sentOffset,
         \A q, r \in sendBuffer' : was[q] = was[r] => q = r,
         \A s \in Subgroups : resetSubgroups'[s] = "none" => resetSubgroups[s] = "none",
         \A p \in sendBuffer : \/ \E q \in sendBuffer' : was[q] = p
                               \/ p.sentOffset = 0
                               \/ resetSubgroups'[Subgroup(p)] # "none"
  PROVE  FramingInv'
  <1>1. WireInv'
    <2>1. \A s \in Subgroups : /\ ~Untouched(s)' => wire'[s].off > 0
                               /\ wire'[s].obj < nextObjectId'[s[1]]
      BY WireFacts DEF FramingInv, WireInv, Untouched
    <2>2. \A p \in sendBuffer' :
             \/ p.obj = wire'[Subgroup(p)].obj /\ p.sentOffset = wire'[Subgroup(p)].off
             \/ p.obj > wire'[Subgroup(p)].obj /\ p.sentOffset = 0
      BY DEF FramingInv, WireInv
    <2>3. \A p \in sendBuffer' : p.sentOffset < ObjectBytes[p.track]
      BY SubgroupFields DEF FramingInv, WireInv
    <2> QED BY <2>1, <2>2, <2>3 DEF WireInv
  <1>2. PartWaits'
    <2> SUFFICES ASSUME NEW s \in Subgroups, resetSubgroups'[s] = "none",
                        ~Complete(s)', ~Untouched(s)'
                 PROVE  \E p \in sendBuffer' :
                          /\ Subgroup(p) = s
                          /\ p.obj = wire'[s].obj /\ p.sentOffset = wire'[s].off
                          /\ \A q \in sendBuffer' \ {p} : Subgroup(q) = s => q.obj > p.obj
      BY DEF PartWaits, Continues
    <2>1. PICK p \in sendBuffer :
             /\ Subgroup(p) = s
             /\ p.obj = wire[s].obj /\ p.sentOffset = wire[s].off
             /\ \A q \in sendBuffer \ {p} : Subgroup(q) = s => q.obj > p.obj
      BY DEF FramingInv, PartWaits, Continues, Complete, Untouched
    <2>2. p.sentOffset > 0
      BY <2>1 DEF FramingInv, WireInv, Untouched
    <2>3. PICK q \in sendBuffer' : was[q] = p
      BY <2>1, <2>2
    <2>4. \A r \in sendBuffer' \ {q} : Subgroup(r) = s => r.obj > q.obj
      <3> SUFFICES ASSUME NEW r \in sendBuffer' \ {q}, Subgroup(r) = s PROVE r.obj > q.obj
        OBVIOUS
      <3>1. was[r] \in sendBuffer \ {p} /\ Subgroup(was[r]) = s
        BY <2>3
      <3> QED BY <2>1, <2>3, <3>1
    <2> QED BY <2>1, <2>3, <2>4
  <1> QED BY <1>1, <1>2 DEF FramingInv

LEMMA FramingShrink ==
  ASSUME TypeInv, FramingInv, UNCHANGED <<wire, nextObjectId>>, sendBuffer' \subseteq sendBuffer,
         \A s \in Subgroups : resetSubgroups'[s] = "none" => resetSubgroups[s] = "none",
         \A p \in sendBuffer \ sendBuffer' :
           p.sentOffset = 0 \/ resetSubgroups'[Subgroup(p)] # "none"
  PROVE  FramingInv'
  <1> DEFINE was == [q \in sendBuffer' |-> q]
  <1>1. /\ \A q \in sendBuffer' : was[q] \in sendBuffer /\ was[q] = q
        /\ \A p \in sendBuffer : \/ \E q \in sendBuffer' : was[q] = p
                                 \/ p.sentOffset = 0
                                 \/ resetSubgroups'[Subgroup(p)] # "none"
    OBVIOUS
  <1>2. \A t \in Tracks : nextObjectId[t] <= nextObjectId'[t] /\ nextObjectId'[t] \in Nat
    BY ObjectFacts
  <1> HIDE DEF was
  <1> QED BY <1>1, <1>2, FramingKept

\* The slice written continues the object the stream carries, or begins the next.
LEMMA FramingWrite ==
  ASSUME TypeInv, ObjectsInv, FramingInv, NEW p \in sendBuffer, WriteChunk(p)
  PROVE  FramingInv'
  <1> DEFINE s == Subgroup(p)
  <1>0. /\ s \in Subgroups /\ p \in Pending /\ IsFront(p)
        /\ p.sentOffset \in Nat /\ p.obj \in Nat /\ p.track \in Tracks /\ s[1] = p.track
        /\ UNCHANGED <<nextObjectId, resetSubgroups>>
    BY ObjectFacts DEF WriteChunk, streams, Subgroup
  <1>1. PICK n \in Nat \ {0}, next \in Pending :
           /\ next.sentOffset = p.sentOffset + n /\ Subgroup(next) = s
           /\ next.obj = p.obj /\ next.track = p.track
           /\ \/ /\ p.sentOffset + n < ObjectBytes[p.track]
                 /\ sendBuffer' = (sendBuffer \ {p}) \cup {next}
              \/ /\ p.sentOffset + n = ObjectBytes[p.track]
                 /\ sendBuffer' = sendBuffer \ {p}
           /\ wire' = [wire EXCEPT ![s] = [obj |-> p.obj, off |-> p.sentOffset + n]]
    <2>1. PICK n \in Nat \ {0}, next \in Pending :
           /\ next.sentOffset = p.sentOffset + n
           /\ next.track = p.track /\ next.group = p.group /\ next.obj = p.obj
           /\ \/ /\ p.sentOffset + n < ObjectBytes[p.track]
                 /\ sendBuffer' = (sendBuffer \ {p}) \cup {next}
              \/ /\ p.sentOffset + n = ObjectBytes[p.track]
                 /\ sendBuffer' = sendBuffer \ {p}
           /\ wire' = [wire EXCEPT ![s] = [obj |-> p.obj, off |-> p.sentOffset + n]]
      BY WriteEffect
    <2>2. Subgroup(next) = s
      BY <2>1, SubgroupFields
    <2> QED BY <2>1, <2>2
  <1>2. /\ wire'[s].obj = p.obj /\ wire'[s].off = p.sentOffset + n
        /\ \A u \in Subgroups : u # s => wire'[u] = wire[u]
    BY <1>0, <1>1 DEF TypeInv, TypeOK, StreamsOK
  <1>3. \A q \in sendBuffer \ {p} : Subgroup(q) = s => q.obj > p.obj /\ q.obj \in Nat
    BY <1>0, FrontFacts, ObjectFacts
  <1>4. wire[s].obj \in Int /\ wire[s].obj <= p.obj
    BY <1>0, WireFacts DEF FramingInv, WireInv
  <1>5. \A q \in sendBuffer \ {p} : Subgroup(q) = s => q.sentOffset = 0
    BY <1>0, <1>3, <1>4 DEF FramingInv, WireInv
  <1> HIDE DEF s
  <1>6. WireInv'
    <2>1. \A u \in Subgroups : /\ ~Untouched(u)' => wire'[u].off > 0
                               /\ wire'[u].obj < nextObjectId'[u[1]]
      <3> TAKE u \in Subgroups
      <3>1. CASE u = s
        <4>1. p.obj < nextObjectId[p.track]
          BY DEF ObjectsInv, OrderInv
        <4> QED BY <1>0, <1>2, <3>1, <4>1
      <3>2. CASE u # s
        BY <1>0, <1>2, <3>2 DEF FramingInv, WireInv, Untouched
      <3> QED BY <3>1, <3>2
    <2>2. \A q \in sendBuffer' :
             \/ q.obj = wire'[Subgroup(q)].obj /\ q.sentOffset = wire'[Subgroup(q)].off
             \/ q.obj > wire'[Subgroup(q)].obj /\ q.sentOffset = 0
      <3> TAKE q \in sendBuffer'
      <3>1. CASE q = next
        BY <1>1, <1>2, <3>1
      <3>2. CASE q \in sendBuffer \ {p} /\ Subgroup(q) = s
        BY <1>2, <1>3, <1>5, <3>2
      <3>3. CASE q \in sendBuffer \ {p} /\ Subgroup(q) # s
        BY <1>2, <3>3, ObjectFacts DEF FramingInv, WireInv
      <3> QED BY <1>1, <3>1, <3>2, <3>3
    <2>3. \A q \in sendBuffer' : q.sentOffset < ObjectBytes[q.track]
      BY <1>1 DEF FramingInv, WireInv
    <2> QED BY <2>1, <2>2, <2>3 DEF WireInv
  <1>7. PartWaits'
    <2> SUFFICES ASSUME NEW u \in Subgroups, resetSubgroups'[u] = "none",
                        ~Complete(u)', ~Untouched(u)'
                 PROVE  \E r \in sendBuffer' :
                          /\ Subgroup(r) = u
                          /\ r.obj = wire'[u].obj /\ r.sentOffset = wire'[u].off
                          /\ \A q \in sendBuffer' \ {r} : Subgroup(q) = u => q.obj > r.obj
      BY DEF PartWaits, Continues
    <2>1. CASE u = s
      <3>1. sendBuffer' = (sendBuffer \ {p}) \cup {next}
        BY <1>0, <1>1, <1>2, <2>1 DEF Complete
      <3> QED BY <1>1, <1>2, <1>3, <2>1, <3>1
    <2>2. CASE u # s
      <3>1. PICK r \in sendBuffer :
               /\ Subgroup(r) = u
               /\ r.obj = wire[u].obj /\ r.sentOffset = wire[u].off
               /\ \A q \in sendBuffer \ {r} : Subgroup(q) = u => q.obj > r.obj
        BY <1>0, <1>2, <2>2 DEF FramingInv, PartWaits, Continues, Complete, Untouched
      <3>2. r # p /\ r \in sendBuffer'
        BY <1>1, <2>2, <3>1 DEF s
      <3>3. \A q \in sendBuffer' \ {r} : Subgroup(q) = u => q.obj > r.obj
        BY <1>1, <2>2, <3>1
      <3> QED BY <1>2, <2>2, <3>1, <3>2, <3>3
    <2> QED BY <2>1, <2>2
  <1> QED BY <1>6, <1>7 DEF FramingInv

\* A new object goes behind all others of its subgroup; the teardown resets
\* whatever has been begun.
LEMMA FramingSend ==
  ASSUME TypeInv, ObjectsInv, TeardownInv, FramingInv, SendObject PROVE FramingInv'
  <1> DEFINE t == burst.track
  <1>1. /\ wire' = wire /\ t \in Tracks /\ BurstSubgroup \in Subgroups
        /\ BurstSubgroup[1] = t /\ nextObjectId[t] \in Nat
        /\ nextObjectId' = [nextObjectId EXCEPT ![t] = @ + 1]
    BY SendEffect, ObjectFacts DEF BurstSubgroup
  <1>2. \A u \in Tracks : nextObjectId[u] <= nextObjectId'[u] /\ nextObjectId'[u] \in Nat
    BY <1>1, ObjectFacts
  <1> DEFINE was == [q \in sendBuffer' |-> q]
  <1>3. \A q \in sendBuffer' : was[q] = q
    OBVIOUS
  <1> HIDE DEF was
  <1>4. CASE Refused
    <2>1. UNCHANGED <<sendBuffer, resetSubgroups>>
      BY <1>4 DEF Refused, Refuse, streams
    <2> QED BY <1>1, <1>2, <1>3, <2>1, FramingKept
  <1>5. CASE Terminated
    <2>1. sendBuffer' = {} /\ \A s \in Subgroups :
             resetSubgroups'[s] = "none" => resetSubgroups[s] = "none" /\ s \notin subgroupStreams
      BY <1>5 DEF Terminated, TerminateSubscriptions
    <2>2. WireInv'
      BY <1>1, <1>2, <2>1, WireFacts DEF FramingInv, WireInv, Untouched
    <2>3. PartWaits'
      BY <1>1, <2>1 DEF PartWaits, Continues, TeardownInv, CarriedInv, Untouched
    <2> QED BY <2>2, <2>3 DEF FramingInv
  <1>6. CASE Enqueued
    <2>1. sendBuffer' = sendBuffer \cup {Offered} /\ UNCHANGED resetSubgroups
      BY <1>6 DEF Enqueued, Enqueue
    <2>2. \A p \in sendBuffer : p.track = t => p.obj < Offered.obj
      BY OfferedFacts DEF ObjectsInv, OrderInv
    <2>3. wire[BurstSubgroup].obj < Offered.obj
      BY <1>1, OfferedFacts DEF FramingInv, WireInv
    <2>4. WireInv'
      <3>1. \A s \in Subgroups : /\ ~Untouched(s)' => wire'[s].off > 0
                                 /\ wire'[s].obj < nextObjectId'[s[1]]
        BY <1>1, <1>2, WireFacts DEF FramingInv, WireInv, Untouched
      <3>2. \A p \in sendBuffer' :
               \/ p.obj = wire'[Subgroup(p)].obj /\ p.sentOffset = wire'[Subgroup(p)].off
               \/ p.obj > wire'[Subgroup(p)].obj /\ p.sentOffset = 0
        BY <1>1, <2>1, <2>3, OfferedFacts DEF FramingInv, WireInv
      <3>3. \A p \in sendBuffer' : p.sentOffset < ObjectBytes[p.track]
        BY <1>1, <2>1, OfferedFacts, TracksAssumption DEF FramingInv, WireInv
      <3> QED BY <3>1, <3>2, <3>3 DEF WireInv
    <2>5. PartWaits'
      <3> SUFFICES ASSUME NEW s \in Subgroups, resetSubgroups'[s] = "none",
                          ~Complete(s)', ~Untouched(s)'
                   PROVE  \E p \in sendBuffer' :
                            /\ Subgroup(p) = s
                            /\ p.obj = wire'[s].obj /\ p.sentOffset = wire'[s].off
                            /\ \A q \in sendBuffer' \ {p} : Subgroup(q) = s => q.obj > p.obj
        BY DEF PartWaits, Continues
      <3>1. PICK p \in sendBuffer :
               /\ Subgroup(p) = s
               /\ p.obj = wire[s].obj /\ p.sentOffset = wire[s].off
               /\ \A q \in sendBuffer \ {p} : Subgroup(q) = s => q.obj > p.obj
        BY <1>1, <2>1 DEF FramingInv, PartWaits, Continues, Complete, Untouched
      <3>2. Subgroup(Offered) = s => Offered.obj > p.obj
        BY <2>2, <3>1, OfferedFacts, SubgroupFields, ObjectFacts
      <3> QED BY <1>1, <2>1, <3>1, <3>2
    <2> QED BY <2>4, <2>5 DEF FramingInv
  <1> QED BY <1>4, <1>5, <1>6, SendEffect

LEMMA FramingInit == Init => FramingInv
  <1> SUFFICES ASSUME Init PROVE FramingInv
    OBVIOUS
  <1>1. \A s \in Subgroups : /\ wire[s].obj = -1 /\ Untouched(s)
                             /\ s[1] \in Tracks /\ nextObjectId[s[1]] = 0
    BY DEF Init, Untouched, Subgroups
  <1>2. sendBuffer = {}
    BY DEF Init
  <1> QED BY <1>1, <1>2 DEF FramingInv, WireInv, PartWaits, Continues

LEMMA FramingNext ==
  TypeInv /\ ObjectsInv /\ TeardownInv /\ FramingInv /\ [Next]_vars => FramingInv'
  <1> SUFFICES ASSUME TypeInv, ObjectsInv, TeardownInv, FramingInv, [Next]_vars
               PROVE  FramingInv'
    OBVIOUS
  <1>1. CASE \/ UNCHANGED vars
             \/ SocketEstablished \/ EndGroup \/ EndFlush \/ QuicFullOrRejected \/ QuicDrain
             \/ QuicHandleRequest
             \/ \E t \in Tracks : AnnounceTrack(t) \/ SubscribeOk(t) \/ StartGroup(t)
             \/ \E s \in Subgroups : QuicAck(s)
    <2>1. UNCHANGED <<wire, nextObjectId, sendBuffer, resetSubgroups>>
      BY <1>1 DEF vars, SocketEstablished, EndGroup, EndFlush, QuicFullOrRejected, QuicDrain,
                  QuicHandleRequest, AnnounceTrack, SubscribeOk, StartGroup, QuicAck, streams
    <2> QED BY <2>1, FramingShrink
  <1>2. ASSUME NEW p \in sendBuffer, DropWithSubgroup(p) PROVE FramingInv'
    <2>1. /\ UNCHANGED <<wire, nextObjectId, resetSubgroups>> /\ sendBuffer' = sendBuffer \ {p}
          /\ resetSubgroups[Subgroup(p)] # "none"
      BY <1>2 DEF DropWithSubgroup, streams
    <2> QED BY <2>1, FramingShrink
  <1>3. ASSUME NEW p \in sendBuffer, DropStale(p) PROVE FramingInv'
    <2>1. /\ UNCHANGED <<wire, nextObjectId>> /\ sendBuffer' = sendBuffer \ {p}
          /\ resetSubgroups' = [s \in Subgroups |->
                IF s \in TornBy(p) THEN "TIMEOUT" ELSE resetSubgroups[s]]
      BY <1>3 DEF DropStale, ResetForTimeout
    <2>2. p.sentOffset = 0 \/ resetSubgroups'[Subgroup(p)] # "none"
      BY <2>1, ObjectFacts DEF TornBy
    <2> QED BY <2>1, <2>2, FramingShrink
  <1>4. CASE TimeoutCheck
    <2> DEFINE torn == UNION {TornBy(p) : p \in SweptObjects}
    <2>1. /\ UNCHANGED <<wire, nextObjectId>> /\ sendBuffer' = sendBuffer \ SweptObjects
          /\ resetSubgroups' = [s \in Subgroups |->
                IF s \in ExpiredSubgroups \cup torn THEN "TIMEOUT" ELSE resetSubgroups[s]]
      BY <1>4 DEF TimeoutCheck, ResetForTimeout
    <2>2. \A p \in sendBuffer \ sendBuffer' :
             p.sentOffset = 0 \/ resetSubgroups'[Subgroup(p)] # "none"
      <3> SUFFICES ASSUME NEW p \in sendBuffer, p \in SweptObjects, p.sentOffset # 0
                   PROVE  resetSubgroups'[Subgroup(p)] # "none"
        BY <2>1
      <3>1. Subgroup(p) \in torn /\ Subgroup(p) \in Subgroups
        BY ObjectFacts DEF TornBy
      <3> QED BY <2>1, <3>1
    <2> HIDE DEF torn
    <2> QED BY <2>1, <2>2, FramingShrink
  <1>5. CASE Tick
    <2>1. /\ sendBuffer' = {Older(p) : p \in sendBuffer}
          /\ UNCHANGED <<wire, nextObjectId, resetSubgroups>>
      BY <1>5 DEF Tick, streams
    <2> DEFINE was == [q \in sendBuffer' |-> CHOOSE p \in sendBuffer : q = Older(p)]
    <2>2. \A q \in sendBuffer' : was[q] \in sendBuffer /\ q = Older(was[q])
      BY <2>1
    <2> HIDE DEF was
    <2>3. \A p \in sendBuffer : /\ Subgroup(Older(p)) = Subgroup(p) /\ Older(p).obj = p.obj
                                /\ Older(p).sentOffset = p.sentOffset
                                /\ Older(p).track = p.track /\ Older(p).pos = p.pos
      BY OlderFields, SubgroupFields DEF Live
    <2>4. \A p \in sendBuffer : \E q \in sendBuffer' : was[q] = p
      <3> SUFFICES ASSUME NEW p \in sendBuffer PROVE was[Older(p)] = p /\ Older(p) \in sendBuffer'
        OBVIOUS
      <3>1. Older(p) \in sendBuffer'
        BY <2>1
      <3>2. /\ was[Older(p)] \in sendBuffer
            /\ was[Older(p)].track = p.track /\ was[Older(p)].pos = p.pos
        BY <2>2, <2>3, <3>1
      <3> QED BY <3>1, <3>2 DEF ObjectsInv, OrderInv, SameLevel
    <2>5. \A t \in Tracks : nextObjectId[t] <= nextObjectId'[t] /\ nextObjectId'[t] \in Nat
      BY <2>1, ObjectFacts
    <2>6. \A q \in sendBuffer' : /\ was[q] \in sendBuffer /\ Subgroup(was[q]) = Subgroup(q)
                                 /\ was[q].obj = q.obj /\ was[q].sentOffset = q.sentOffset
      BY <2>2, <2>3
    <2>7. \A q, r \in sendBuffer' : was[q] = was[r] => q = r
      BY <2>2
    <2>8. /\ \A s \in Subgroups : resetSubgroups'[s] = "none" => resetSubgroups[s] = "none"
          /\ UNCHANGED wire
      BY <2>1
    <2> QED BY ONLY TypeInv, FramingInv, <2>4, <2>5, <2>6, <2>7, <2>8, FramingKept
  <1>6. ASSUME NEW p \in sendBuffer, WriteChunk(p) PROVE FramingInv'
    BY <1>6, FramingWrite
  <1>7. CASE SendObject
    BY <1>7, FramingSend
  <1> QED BY <1>1, <1>2, <1>3, <1>4, <1>5, <1>6, <1>7 DEF Next, Application, FlushStep

LEMMA FramingInvariant == Spec => []FramingInv
  BY TypeInvariant, ObjectsInvariant, TeardownInvariant, FramingInit, FramingNext, PTL DEF Spec

\* A receiver that frames objects by their length alone is never left with half an
\* object followed by another: on a stream not reset, an object written in part is
\* still in the buffer, at the offset reached and ahead of the rest; and the rest is
\* later and not begun.
THEOREM FramesIntact == Spec => []FrameIntegrity
  <1>1. TypeInv /\ FramingInv => FrameIntegrity
    <2> SUFFICES ASSUME TypeInv, FramingInv PROVE RestNotBegun
      BY DEF FramingInv, FrameIntegrity
    <2> SUFFICES ASSUME NEW p \in sendBuffer
                 PROVE  (Continues(p) /\ ~Complete(Subgroup(p))) \/ Begins(p)
      BY DEF RestNotBegun
    <2>1. /\ Continues(p) \/ Begins(p)
          /\ p.sentOffset < ObjectBytes[p.track] /\ ObjectBytes[p.track] \in Nat
          /\ p.sentOffset \in Nat /\ Subgroup(p)[1] = p.track
      BY ObjectFacts, TracksAssumption DEF FramingInv, WireInv, Continues, Begins, Subgroup
    <2>2. Continues(p) => ~Complete(Subgroup(p))
      BY <2>1 DEF Continues, Complete
    <2> QED BY <2>1, <2>2
  <1> QED BY <1>1, TypeInvariant, FramingInvariant, PTL

-----------------------------------------------------------------------------
(* The life of a stream.                                                   *)

\* A stream that is open has not been reset.
OpenInv == \A s \in subgroupStreams : resetSubgroups[s] = "none"

\* The invariants a step of the streams' life rests on.
StreamsInv == TypeInv /\ ObjectsInv /\ TeardownInv /\ OrphansInv /\ FramingInv /\ OpenInv

OpenClose(s) == OpenRule(s) /\ CloseRule(s) /\ ResetRule(s)

\* Streams in S are reset for the timeout; none of them had been.
LEMMA OpenCloseReset ==
  ASSUME TypeInv, OpenInv, NEW S, ResetForTimeout(S),
         \A s \in S : resetSubgroups[s] = "none"
  PROVE  OpenInv' /\ \A s \in Subgroups : OpenClose(s)
  <1>1. /\ resetSubgroups' = [s \in Subgroups |->
                                IF s \in S THEN "TIMEOUT" ELSE resetSubgroups[s]]
        /\ subgroupStreams' = subgroupStreams \ S /\ subgroupStreams \subseteq Subgroups
    BY DEF ResetForTimeout, TypeInv, TypeOK, StreamsOK
  <1> QED BY <1>1 DEF OpenInv, OpenClose, OpenRule, CloseRule, ResetRule

\* What the timeout tears had not been reset.
LEMMA TornNotReset ==
  ASSUME StreamsInv
  PROVE  /\ \A p \in sendBuffer :
              resetSubgroups[Subgroup(p)] = "none" =>
                \A s \in TornBy(p) : resetSubgroups[s] = "none"
         /\ TimerMayFire =>
              \A s \in ExpiredSubgroups \cup UNION {TornBy(p) : p \in SweptObjects} :
                resetSubgroups[s] = "none"
  <1>1. \A p : \A s \in TornBy(p) : s = Subgroup(p)
    BY DEF TornBy
  <1>2. TimerMayFire => \A p \in sendBuffer : resetSubgroups[Subgroup(p)] = "none"
    BY DEF StreamsInv, OrphansInv, Orphan, Flushing, TimerMayFire
  <1>3. \A p \in SweptObjects : p \in sendBuffer
    BY DEF SweptObjects
  <1>4. \A s \in ExpiredSubgroups : resetSubgroups[s] = "none"
    BY DEF ExpiredSubgroups
  <1> QED BY <1>1, <1>2, <1>3, <1>4

\* An object of the burst opens its stream, or brings the teardown.
LEMMA OpenCloseSend ==
  ASSUME StreamsInv, SendObject
  PROVE  OpenInv' /\ \A s \in Subgroups : OpenClose(s)
  <1>1. /\ Refused \/ Enqueued \/ Terminated
        /\ BurstSubgroup \in Subgroups /\ subgroupStreams \subseteq Subgroups
    BY SendEffect, ObjectFacts DEF StreamsInv, TypeInv, TypeOK, StreamsOK
  <1>2. CASE Refused
    <2>1. UNCHANGED streams
      BY <1>2 DEF Refused, Refuse
    <2> QED BY <1>1, <2>1
            DEF StreamsInv, OpenInv, OpenClose, OpenRule, CloseRule, ResetRule, streams
  <1>3. CASE Enqueued
    <2>1. /\ subgroupStreams' = subgroupStreams \cup {BurstSubgroup}
          /\ UNCHANGED resetSubgroups /\ resetSubgroups[BurstSubgroup] = "none"
      BY <1>3, OfferedFacts DEF Enqueued, Flushed, Enqueue, StreamsInv
    <2>2. BurstSubgroup \notin subgroupStreams => Untouched(BurstSubgroup)
      BY <1>1, <2>1 DEF StreamsInv, TeardownInv, CarriedInv
    <2> QED BY <1>1, <2>1, <2>2
            DEF StreamsInv, OpenInv, OpenClose, OpenRule, CloseRule, ResetRule
  <1>4. CASE Terminated
    <2>1. /\ subgroupStreams' = {} /\ resetSubgroups[BurstSubgroup] = "none"
          /\ resetSubgroups' = [s \in Subgroups |->
               IF s \in subgroupStreams \cup {BurstSubgroup} THEN "OVERFLOW"
               ELSE resetSubgroups[s]]
      BY <1>4, OfferedFacts DEF Terminated, Flushed, TerminateSubscriptions, StreamsInv
    <2> QED BY <1>1, <2>1
            DEF StreamsInv, OpenInv, OpenClose, OpenRule, CloseRule, ResetRule
  <1> QED BY <1>1, <1>2, <1>3, <1>4

LEMMA OpenCloseNext ==
  ASSUME StreamsInv, [Next]_vars
  PROVE  OpenInv' /\ \A s \in Subgroups : OpenClose(s)
  <1>0. subgroupStreams \subseteq Subgroups /\ TypeInv /\ OpenInv
    BY DEF StreamsInv, TypeInv, TypeOK, StreamsOK
  <1>1. CASE UNCHANGED streams
    BY <1>0, <1>1 DEF OpenInv, OpenClose, OpenRule, CloseRule, ResetRule, streams
  <1>2. CASE \/ UNCHANGED vars
             \/ SocketEstablished \/ EndGroup \/ EndFlush \/ QuicFullOrRejected
             \/ QuicDrain \/ QuicHandleRequest \/ Tick
             \/ \E t \in Tracks : AnnounceTrack(t) \/ SubscribeOk(t) \/ StartGroup(t)
             \/ \E s \in Subgroups : QuicAck(s)
             \/ \E p \in sendBuffer : DropWithSubgroup(p) \/ WriteChunk(p)
    <2>1. UNCHANGED streams
      BY <1>2 DEF SocketEstablished, EndGroup, EndFlush, QuicFullOrRejected, QuicDrain,
                  QuicHandleRequest, AnnounceTrack, SubscribeOk, StartGroup, QuicAck, Tick,
                  DropWithSubgroup, WriteChunk, vars
    <2> QED BY <1>1, <2>1
  <1>3. ASSUME NEW p \in sendBuffer, DropStale(p)
        PROVE  OpenInv' /\ \A s \in Subgroups : OpenClose(s)
    BY <1>0, <1>3, TornNotReset, OpenCloseReset DEF DropStale
  <1>4. CASE TimeoutCheck
    <2> DEFINE S == ExpiredSubgroups \cup UNION {TornBy(p) : p \in SweptObjects}
    <2>1. ResetForTimeout(S) /\ TimerMayFire
      BY <1>4 DEF TimeoutCheck
    <2>2. \A s \in S : resetSubgroups[s] = "none"
      BY <2>1, TornNotReset
    <2> HIDE DEF S
    <2> QED BY <1>0, <2>1, <2>2, OpenCloseReset
  <1>5. CASE SendObject
    BY <1>5, OpenCloseSend
  <1> QED BY <1>2, <1>3, <1>4, <1>5 DEF Next, Application, FlushStep

\* Only WriteChunk writes, and on the stream of the front object.
LEMMA WritesInOrder ==
  ASSUME StreamsInv, [Next]_vars, NEW s \in Subgroups
  PROVE  WriteRule(s)
  <1> SUFFICES ASSUME wire'[s] # wire[s]
               PROVE  /\ s \in subgroupStreams /\ resetSubgroups[s] = "none"
                      /\ \/ wire'[s].obj = wire[s].obj /\ wire'[s].off > wire[s].off
                         \/ /\ wire'[s].obj > wire[s].obj /\ wire'[s].off <= ChunkBytes
                            /\ Complete(s) \/ Untouched(s)
    BY DEF WriteRule
  <1>0. TypeInv /\ ObjectsInv /\ FramingInv
    BY DEF StreamsInv
  <1>1. PICK p \in sendBuffer : WriteChunk(p)
    BY DEF Next, Application, FlushStep, vars, SocketEstablished, EndGroup, EndFlush,
           QuicFullOrRejected, QuicDrain, QuicHandleRequest, AnnounceTrack, SubscribeOk,
           StartGroup, QuicAck, DropWithSubgroup, DropStale, TimeoutCheck, Tick, SendObject
  <1>2. PICK n \in Nat \ {0} :
          /\ n <= ChunkBytes
          /\ wire' = [wire EXCEPT ![Subgroup(p)] = [obj |-> p.obj, off |-> p.sentOffset + n]]
    BY <1>0, <1>1, WriteEffect
  <1>3. s = Subgroup(p) /\ wire'[s].obj = p.obj /\ wire'[s].off = p.sentOffset + n
    BY <1>0, <1>2 DEF TypeInv, TypeOK, StreamsOK
  <1>4. resetSubgroups[s] = "none" /\ IsFront(p)
    BY <1>1, <1>3 DEF WriteChunk
  <1>5. s \in subgroupStreams
    BY <1>3, <1>4 DEF StreamsInv, TeardownInv, CarriedInv
  <1>6. p.sentOffset \in Nat /\ p.obj \in Nat
    BY <1>0, ObjectFacts
  <1>7. CASE p.obj = wire[s].obj /\ p.sentOffset = wire[s].off
    BY <1>3, <1>4, <1>5, <1>6, <1>7
  <1>8. CASE p.obj > wire[s].obj /\ p.sentOffset = 0
    <2>1. ASSUME ~Complete(s), ~Untouched(s) PROVE FALSE
      <3>1. PICK q \in sendBuffer : Subgroup(q) = s /\ q.obj = wire[s].obj
        BY <1>0, <1>4, <2>1 DEF FramingInv, PartWaits, Continues
      <3>2. q.obj \in Nat /\ q # p /\ p.obj < q.obj
        BY <1>0, <1>3, <1>4, <1>8, <3>1, FrontFacts, ObjectFacts
      <3> QED BY <1>6, <1>8, <3>1, <3>2
    <2> QED BY <1>2, <1>3, <1>4, <1>5, <1>6, <1>8, <2>1
  <1> QED BY <1>0, <1>3, <1>7, <1>8 DEF FramingInv, WireInv

\* Of every step, for every stream: what is written continues the object the stream carries
\* or begins a later one after a whole one, on an open stream; a stream is opened before
\* anything is written on it and closed by a reset alone; and a reset, with its cause, is
\* never taken back.
THEOREM StreamsDisciplined == Spec => StreamDiscipline
  <1> DEFINE Disciplined ==
               \A s \in Subgroups : WriteRule(s) /\ OpenRule(s) /\ CloseRule(s) /\ ResetRule(s)
             Others == TypeInv /\ ObjectsInv /\ TeardownInv /\ OrphansInv /\ FramingInv
  <1>1. Init => OpenInv
    BY DEF Init, OpenInv
  <1>2. Others /\ OpenInv /\ [Next]_vars => OpenInv'
    BY OpenCloseNext DEF StreamsInv
  <1>3. Others /\ OpenInv /\ [Next]_vars => [Disciplined]_vars
    BY OpenCloseNext, WritesInOrder DEF StreamsInv, OpenClose
  <1>4. Spec => []Others
    BY TypeInvariant, ObjectsInvariant, TeardownInvariant, OrphansInvariant,
       FramingInvariant, PTL
  <1> HIDE DEF Others
  <1>5. Spec => []OpenInv
    BY <1>1, <1>2, <1>4, PTL DEF Spec
  <1> QED BY <1>3, <1>4, <1>5, PTL DEF Spec, StreamDiscipline

-----------------------------------------------------------------------------
(* The ledger: every object offered is accounted for.                      *)

\* How the objects of a track are counted when the set changes.
LEMMA PartRemove ==
  ASSUME NEW S, IsFiniteSet(S), NEW p \in S, NEW t
  PROVE  Cardinality(Of(t, S \ {p})) = IF p.track = t THEN Cardinality(Of(t, S)) - 1
                                       ELSE Cardinality(Of(t, S))
  <1>1. IsFiniteSet(Of(t, S))
    BY FS_Subset DEF Of
  <1>2. Of(t, S \ {p}) = Of(t, S) \ {p} /\ (p \in Of(t, S) <=> p.track = t)
    BY DEF Of
  <1> QED BY <1>1, <1>2, FS_RemoveElement

LEMMA PartAdd ==
  ASSUME NEW S, IsFiniteSet(S), NEW p, p \notin S, NEW t
  PROVE  Cardinality(Of(t, S \cup {p})) = IF p.track = t THEN Cardinality(Of(t, S)) + 1
                                          ELSE Cardinality(Of(t, S))
  <1>1. IsFiniteSet(Of(t, S)) /\ p \notin Of(t, S)
    BY FS_Subset DEF Of
  <1>2. CASE p.track = t
    <2>1. Of(t, S \cup {p}) = Of(t, S) \cup {p}
      BY <1>2 DEF Of
    <2> QED BY <1>1, <1>2, <2>1, FS_AddElement
  <1>3. CASE p.track # t
    <2>1. Of(t, S \cup {p}) = Of(t, S)
      BY <1>3 DEF Of
    <2> QED BY <1>3, <2>1
  <1> QED BY <1>2, <1>3

LEMMA PartDifference ==
  ASSUME NEW S, IsFiniteSet(S), NEW T \in SUBSET S, NEW t
  PROVE  Cardinality(Of(t, S \ T)) = Cardinality(Of(t, S)) - Cardinality(Of(t, T))
  <1>1. IsFiniteSet(Of(t, S))
    BY FS_Subset DEF Of
  <1>2. /\ Of(t, S \ T) = Of(t, S) \ Of(t, T)
        /\ Of(t, S) \cap Of(t, T) = Of(t, T)
    BY DEF Of
  <1>3. Cardinality(Of(t, S) \ Of(t, T)) =
          Cardinality(Of(t, S)) - Cardinality(Of(t, S) \cap Of(t, T))
    BY <1>1, FS_Difference
  <1> QED BY <1>2, <1>3

\* Objects of the buffer stay distinct when they age.
LEMMA PartOlder ==
  ASSUME TypeInv, OrderInv, NEW t
  PROVE  Cardinality(Of(t, {Older(p) : p \in sendBuffer})) = Cardinality(Of(t, sendBuffer))
  <1> DEFINE S == Of(t, sendBuffer)
             T == Of(t, {Older(p) : p \in sendBuffer})
             f == [p \in S |-> Older(p)]
  <1>1. \A p \in sendBuffer : Older(p).track = p.track /\ Older(p).pos = p.pos
    BY OlderFields DEF Live
  <1>2. IsFiniteSet(S)
    BY FS_Subset DEF Of, TypeInv
  <1>3. f \in [S -> T] /\ \A x \in T : \E p \in S : f[p] = x
    BY <1>1 DEF Of
  <1>4. \A p, q \in S : f[p] = f[q] => p = q
    <2> SUFFICES ASSUME NEW p \in S, NEW q \in S, Older(p) = Older(q) PROVE p = q
      OBVIOUS
    <2>1. p \in sendBuffer /\ q \in sendBuffer
      BY DEF Of
    <2>2. p.track = q.track /\ p.pos = q.pos
      BY <1>1, <2>1
    <2> QED BY <2>1, <2>2 DEF OrderInv, SameLevel
  <1> HIDE DEF S, T, f
  <1>5. f \in Bijection(S, T)
    BY <1>3, <1>4, Fun_IsBij
  <1>6. Cardinality(T) = Cardinality(S)
    BY <1>2, <1>5, FS_Bijection DEF ExistsBijection
  <1> QED BY <1>6 DEF S, T

\* While the subscriptions last.
Balanced == ~subscriptionsEnded => \A t \in Tracks : nextObjectId[t] = Ledger(t)

LEMMA BalancedInit == Init => Balanced
  <1>1. \A t : Of(t, {}) = {}
    BY DEF Of
  <1> QED BY <1>1, FS_EmptySet DEF Init, Balanced, Ledger

LEMMA LedgerTypes ==
  ASSUME TypeInv
  PROVE  /\ IsFiniteSet(sendBuffer)
         /\ \A t \in Tracks : /\ objectsSent[t] \in Nat /\ quicShedStale[t] \in Nat
                              /\ quicShedOverflow[t] \in Nat /\ nextObjectId[t] \in Nat
                              /\ Cardinality(Of(t, sendBuffer)) \in Nat
  BY PartCount DEF TypeInv, TypeOK, CountersOK, BurstOK

LEMMA BalancedFlush ==
  ASSUME TypeInv, OrderInv, Balanced, NEW p \in sendBuffer,
         DropWithSubgroup(p) \/ DropStale(p) \/ WriteChunk(p)
  PROVE  Balanced'
  <1>0. /\ p.track \in Tracks /\ Subgroup(p)[1] = p.track
        /\ UNCHANGED nextObjectId /\ subscriptionsEnded' = subscriptionsEnded
    BY ObjectFacts DEF Subgroup, DropWithSubgroup, DropStale, WriteChunk
  <1> SUFFICES ASSUME ~subscriptionsEnded, NEW t \in Tracks
               PROVE  nextObjectId[t] = Ledger(t)'
    BY <1>0 DEF Balanced
  <1>1. /\ objectsSent[t] \in Nat /\ quicShedStale[t] \in Nat /\ quicShedOverflow[t] \in Nat
        /\ Cardinality(Of(t, sendBuffer)) \in Nat /\ IsFiniteSet(sendBuffer)
    BY LedgerTypes
  <1>2. nextObjectId[t] = objectsSent[t] + quicShedStale[t] + quicShedOverflow[t]
                            + Cardinality(Of(t, sendBuffer))
    BY DEF Balanced, Ledger
  <1>3. Cardinality(Of(t, sendBuffer \ {p})) =
          IF p.track = t THEN Cardinality(Of(t, sendBuffer)) - 1
          ELSE Cardinality(Of(t, sendBuffer))
    BY <1>1, PartRemove
  <1>4. CASE DropWithSubgroup(p)
    <2>1. /\ sendBuffer' = sendBuffer \ {p} /\ UNCHANGED objectsSent
          /\ \/ /\ quicShedOverflow' = [quicShedOverflow EXCEPT ![p.track] = @ + 1]
                /\ quicShedStale' = [quicShedStale EXCEPT ![p.track] = @]
             \/ /\ quicShedOverflow' = [quicShedOverflow EXCEPT ![p.track] = @]
                /\ quicShedStale' = [quicShedStale EXCEPT ![p.track] = @ + 1]
      BY <1>0, <1>4 DEF DropWithSubgroup, ChargeToCause
    <2>2. \/ /\ quicShedOverflow'[t] = quicShedOverflow[t] + IF p.track = t THEN 1 ELSE 0
             /\ quicShedStale'[t] = quicShedStale[t]
          \/ /\ quicShedOverflow'[t] = quicShedOverflow[t]
             /\ quicShedStale'[t] = quicShedStale[t] + IF p.track = t THEN 1 ELSE 0
      BY <1>0, <1>1, <2>1 DEF TypeInv, TypeOK, CountersOK
    <2> QED BY <1>1, <1>2, <1>3, <2>1, <2>2 DEF Ledger
  <1>5. CASE DropStale(p)
    <2>1. /\ sendBuffer' = sendBuffer \ {p} /\ UNCHANGED <<objectsSent, quicShedOverflow>>
          /\ quicShedStale'[t] = quicShedStale[t] + IF p.track = t THEN 1 ELSE 0
      BY <1>0, <1>1, <1>5 DEF DropStale, TypeInv, TypeOK, CountersOK
    <2> QED BY <1>1, <1>2, <1>3, <2>1 DEF Ledger
  <1>6. CASE WriteChunk(p)
    <2>1. UNCHANGED <<quicShedStale, quicShedOverflow>>
      BY <1>6 DEF WriteChunk
    <2>2. CASE /\ sendBuffer' = sendBuffer \ {p}
               /\ objectsSent' = [objectsSent EXCEPT ![p.track] = @ + 1]
      <3>1. objectsSent'[t] = objectsSent[t] + IF p.track = t THEN 1 ELSE 0
        BY <1>0, <1>1, <2>2 DEF TypeInv, TypeOK, CountersOK
      <3> QED BY <1>1, <1>2, <1>3, <2>1, <2>2, <3>1 DEF Ledger
    <2>3. ASSUME NEW next, next.track = p.track, next.pos = p.pos,
                 sendBuffer' = (sendBuffer \ {p}) \cup {next}, UNCHANGED objectsSent
          PROVE  nextObjectId[t] = Ledger(t)'
      <3>1. IsFiniteSet(sendBuffer \ {p}) /\ next \notin sendBuffer \ {p}
        BY <1>1, <2>3, FS_RemoveElement DEF OrderInv, SameLevel
      <3>2. Cardinality(Of(t, sendBuffer')) =
              IF p.track = t THEN Cardinality(Of(t, sendBuffer \ {p})) + 1
              ELSE Cardinality(Of(t, sendBuffer \ {p}))
        BY <2>3, <3>1, PartAdd
      <3> QED BY <1>1, <1>2, <1>3, <2>1, <2>3, <3>2 DEF Ledger
    <2>4. \E next : /\ next.track = p.track /\ next.pos = p.pos
                    /\ \/ /\ sendBuffer' = (sendBuffer \ {p}) \cup {next}
                          /\ UNCHANGED objectsSent
                       \/ /\ sendBuffer' = sendBuffer \ {p}
                          /\ objectsSent' = [objectsSent EXCEPT ![p.track] = @ + 1]
      BY <1>6, WriteEffect
    <2> QED BY <2>2, <2>3, <2>4
  <1> QED BY <1>4, <1>5, <1>6

LEMMA BalancedSend ==
  ASSUME TypeInv, ObjectsInv, Balanced, SendObject
  PROVE  Balanced'
  <1> DEFINE t == burst.track
  <1>0. /\ t \in Tracks
        /\ nextObjectId' = [nextObjectId EXCEPT ![t] = @ + 1]
        /\ UNCHANGED objectsSent
        /\ Refused \/ Enqueued \/ Terminated
    BY SendEffect, ObjectFacts
  <1>1. CASE Terminated
    BY <1>1 DEF Terminated, TerminateSubscriptions, Balanced
  <1>2. CASE ~Terminated
    <2>0. subscriptionsEnded' = subscriptionsEnded
      BY <1>0, <1>2 DEF Refused, Refuse, Enqueued, Enqueue
    <2> SUFFICES ASSUME ~subscriptionsEnded, NEW u \in Tracks
                 PROVE  nextObjectId'[u] = Ledger(u)'
      BY <2>0 DEF Balanced
    <2>1. /\ objectsSent[u] \in Nat /\ quicShedStale[u] \in Nat /\ quicShedOverflow[u] \in Nat
          /\ Cardinality(Of(u, sendBuffer)) \in Nat /\ IsFiniteSet(sendBuffer)
          /\ nextObjectId[u] \in Nat
      BY LedgerTypes
    <2>2. nextObjectId[u] = objectsSent[u] + quicShedStale[u] + quicShedOverflow[u]
                              + Cardinality(Of(u, sendBuffer))
      BY DEF Balanced, Ledger
    <2>3. nextObjectId'[u] = nextObjectId[u] + IF u = t THEN 1 ELSE 0
      BY <1>0, <2>1 DEF TypeInv, TypeOK, BurstOK
    <2>4. CASE Refused
      <3>1. /\ UNCHANGED sendBuffer
            /\ \/ /\ quicShedOverflow' = [quicShedOverflow EXCEPT ![t] = @ + 1]
                  /\ quicShedStale' = [quicShedStale EXCEPT ![t] = @]
               \/ /\ quicShedOverflow' = [quicShedOverflow EXCEPT ![t] = @]
                  /\ quicShedStale' = [quicShedStale EXCEPT ![t] = @ + 1]
        BY <2>4 DEF Refused, Refuse, ChargeToCause, BurstSubgroup
      <3>2. \/ /\ quicShedOverflow'[u] = quicShedOverflow[u] + IF u = t THEN 1 ELSE 0
               /\ quicShedStale'[u] = quicShedStale[u]
            \/ /\ quicShedOverflow'[u] = quicShedOverflow[u]
               /\ quicShedStale'[u] = quicShedStale[u] + IF u = t THEN 1 ELSE 0
        BY <1>0, <2>1, <3>1 DEF TypeInv, TypeOK, CountersOK
      <3>3. /\ Cardinality(Of(u, sendBuffer))' = Cardinality(Of(u, sendBuffer))
            /\ objectsSent'[u] = objectsSent[u]
        BY <1>0, <3>1
      <3> QED BY ONLY <2>1, <2>2, <2>3, <3>2, <3>3 DEF Ledger
    <2>5. CASE Enqueued
      <3>1. /\ sendBuffer' = sendBuffer \cup {Offered}
            /\ UNCHANGED <<quicShedOverflow, quicShedStale>>
        BY <2>5 DEF Enqueued, Enqueue, Flushed
      <3>2. Offered \notin sendBuffer /\ Offered.track = t
        BY OfferedFacts, ObjectFacts DEF ObjectsInv, OrderInv
      <3>3. Cardinality(Of(u, sendBuffer')) =
              IF t = u THEN Cardinality(Of(u, sendBuffer)) + 1
              ELSE Cardinality(Of(u, sendBuffer))
        BY <2>1, <3>1, <3>2, PartAdd
      <3>4. UNCHANGED <<quicShedOverflow[u], quicShedStale[u], objectsSent[u]>>
        BY <1>0, <3>1
      <3>5. Cardinality(Of(u, sendBuffer))' = Cardinality(Of(u, sendBuffer'))
        BY DEF Of
      <3> QED BY ONLY <2>1, <2>2, <2>3, <3>3, <3>4, <3>5 DEF Ledger
    <2> QED BY <1>0, <1>2, <2>4, <2>5
  <1> QED BY <1>1, <1>2

LEMMA BalancedTimeoutCheck ==
  ASSUME TypeInv, Balanced, TimeoutCheck
  PROVE  Balanced'
  <1>0. /\ sendBuffer' = sendBuffer \ SweptObjects
        /\ quicShedStale' = [t \in Tracks |->
                               quicShedStale[t] + Cardinality(Of(t, SweptObjects))]
        /\ UNCHANGED <<objectsSent, quicShedOverflow, nextObjectId>>
        /\ subscriptionsEnded' = subscriptionsEnded
        /\ SweptObjects \in SUBSET sendBuffer
    BY DEF TimeoutCheck, SweptObjects
  <1> SUFFICES ASSUME ~subscriptionsEnded, NEW t \in Tracks
               PROVE  nextObjectId[t] = Ledger(t)'
    BY <1>0 DEF Balanced
  <1>1. /\ objectsSent[t] \in Nat /\ quicShedStale[t] \in Nat /\ quicShedOverflow[t] \in Nat
        /\ Cardinality(Of(t, sendBuffer)) \in Nat /\ IsFiniteSet(sendBuffer)
    BY LedgerTypes
  <1>2. nextObjectId[t] = objectsSent[t] + quicShedStale[t] + quicShedOverflow[t]
                            + Cardinality(Of(t, sendBuffer))
    BY DEF Balanced, Ledger
  <1>3. Cardinality(Of(t, sendBuffer \ SweptObjects)) =
          Cardinality(Of(t, sendBuffer)) - Cardinality(Of(t, SweptObjects))
    BY <1>0, <1>1, PartDifference
  <1>4. Cardinality(Of(t, SweptObjects)) \in Nat
    BY <1>0, <1>1, FS_Subset, PartCount
  <1> QED BY <1>0, <1>1, <1>2, <1>3, <1>4 DEF Ledger

LEMMA BalancedNext ==
  TypeInv /\ ObjectsInv /\ Balanced /\ [Next]_vars => Balanced'
  <1> SUFFICES ASSUME TypeInv, ObjectsInv, Balanced, [Next]_vars PROVE Balanced'
    OBVIOUS
  <1>1. CASE \/ UNCHANGED vars
             \/ SocketEstablished \/ EndGroup \/ EndFlush \/ QuicFullOrRejected
             \/ QuicDrain \/ QuicHandleRequest
             \/ \E t \in Tracks : AnnounceTrack(t) \/ SubscribeOk(t) \/ StartGroup(t)
             \/ \E s \in Subgroups : QuicAck(s)
    <2>1. UNCHANGED <<objectsSent, quicShedStale, quicShedOverflow, nextObjectId, sendBuffer,
                      subscriptionsEnded>>
      BY <1>1 DEF SocketEstablished, EndGroup, EndFlush, QuicFullOrRejected, QuicDrain,
                  QuicHandleRequest, AnnounceTrack, SubscribeOk, StartGroup, QuicAck, counters,
                  vars
    <2> QED BY <2>1 DEF Balanced, Ledger
  <1>2. CASE Tick
    <2>1. /\ sendBuffer' = {Older(p) : p \in sendBuffer}
          /\ UNCHANGED <<objectsSent, quicShedStale, quicShedOverflow, nextObjectId,
                         subscriptionsEnded>>
      BY <1>2 DEF Tick, counters
    <2>2. \A t : Cardinality(Of(t, sendBuffer')) = Cardinality(Of(t, sendBuffer))
      BY <2>1, PartOlder DEF ObjectsInv
    <2>3. \A t : Of(t, sendBuffer)' = Of(t, sendBuffer')
      BY DEF Of
    <2> QED BY <2>1, <2>2, <2>3 DEF Balanced, Ledger
  <1>3. ASSUME NEW p \in sendBuffer, DropWithSubgroup(p) \/ DropStale(p) \/ WriteChunk(p)
        PROVE  Balanced'
    BY <1>3, BalancedFlush DEF ObjectsInv
  <1>4. CASE SendObject \/ TimeoutCheck
    BY <1>4, BalancedSend, BalancedTimeoutCheck
  <1> QED BY <1>1, <1>2, <1>3, <1>4 DEF Next, Application, FlushStep

LEMMA BalancedInvariant == Spec => []Balanced
  BY TypeInvariant, ObjectsInvariant, BalancedInit, BalancedNext, PTL DEF Spec

\* t is the track whose burst brought the teardown: only the objects this burst offered
\* afterwards are uncounted, and it offers at most burst.left more.
LastBurst(t) ==
  /\ \A u \in Tracks \ {t} : Uncounted(u) = 0
  /\ burst.left > 0 => burst.track = t
  /\ Uncounted(t) \in Nat /\ Uncounted(t) + burst.left < ObjectsPerGroup[t]

EndedInv ==
  /\ burst.left <= ObjectsPerGroup[burst.track]
  /\ subscriptionsEnded => \E t \in Tracks : LastBurst(t)

\* After the teardown nothing is counted; the burst may run on to its end.
LEMMA EndedSame ==
  ASSUME TypeInv, subscriptionsEnded, sendBuffer = {}, EndedInv,
         sendBuffer' = {}, burst'.left \in Nat, burst'.left <= ObjectsPerGroup[burst'.track],
         \A t \in Tracks : /\ objectsSent'[t] = objectsSent[t]
                           /\ quicShedStale'[t] = quicShedStale[t]
                           /\ quicShedOverflow'[t] = quicShedOverflow[t],
         \/ UNCHANGED nextObjectId /\ (burst' = burst \/ burst'.left = 0)
         \/ /\ burst.left > 0 /\ burst'.track = burst.track /\ burst'.left = burst.left - 1
            /\ nextObjectId' = [nextObjectId EXCEPT ![burst.track] = @ + 1]
  PROVE  EndedInv'
  <1>1. PICK t \in Tracks : LastBurst(t)
    BY DEF EndedInv
  <1>2. /\ burst.left \in Nat /\ burst.track \in Tracks /\ nextObjectId \in [Tracks -> Nat]
        /\ \A u \in Tracks : /\ objectsSent[u] \in Nat /\ quicShedStale[u] \in Nat
                             /\ quicShedOverflow[u] \in Nat /\ nextObjectId[u] \in Nat
                             /\ ObjectsPerGroup[u] \in Nat
    BY LedgerTypes, ObjectFacts DEF TypeInv, TypeOK, BurstOK
  <1>3. \A u \in Tracks : Ledger(u)' = Ledger(u) /\ Ledger(u) \in Int
    <2> TAKE u \in Tracks
    <2>1. Of(u, sendBuffer) = {} /\ Of(u, sendBuffer)' = {}
      BY DEF Of
    <2>2. Cardinality(Of(u, sendBuffer)) = 0 /\ Cardinality(Of(u, sendBuffer))' = 0
      BY <2>1, FS_EmptySet
    <2> QED BY <1>2, <2>2 DEF Ledger
  <1>4. CASE UNCHANGED nextObjectId /\ (burst' = burst \/ burst'.left = 0)
    <2>1. \A u \in Tracks : Uncounted(u)' = Uncounted(u)
      BY <1>3, <1>4 DEF Uncounted
    <2>2. LastBurst(t)'
      BY <1>1, <1>2, <1>4, <2>1 DEF LastBurst
    <2> QED BY <2>2 DEF EndedInv
  <1>5. CASE /\ burst.left > 0 /\ burst'.track = burst.track /\ burst'.left = burst.left - 1
             /\ nextObjectId' = [nextObjectId EXCEPT ![burst.track] = @ + 1]
    <2>1. burst.track = t
      BY <1>1, <1>5 DEF LastBurst
    <2>2. /\ Uncounted(t)' = Uncounted(t) + 1
          /\ \A u \in Tracks \ {t} : Uncounted(u)' = Uncounted(u)
      BY <1>2, <1>3, <1>5, <2>1 DEF Uncounted
    <2>3. LastBurst(t)'
      BY <1>1, <1>2, <1>5, <2>1, <2>2 DEF LastBurst
    <2> QED BY <2>3 DEF EndedInv
  <1> QED BY <1>4, <1>5

\* The teardown counts every object it finds, and the one that brought it.
LEMMA EndedTerminated ==
  ASSUME TypeInv, ObjectsInv, Balanced, EndedInv, SendObject, Terminated
  PROVE  EndedInv'
  <1> DEFINE t == burst.track
  <1>1. /\ t \in Tracks /\ burst'.track = t /\ burst'.left = burst.left - 1 /\ burst.left > 0
        /\ nextObjectId' = [nextObjectId EXCEPT ![t] = @ + 1] /\ UNCHANGED objectsSent
        /\ burst.left \in Nat /\ burst.left <= ObjectsPerGroup[t]
        /\ ObjectsPerGroup[t] \in Nat /\ nextObjectId \in [Tracks -> Nat]
    BY SendEffect, ObjectFacts DEF EndedInv, TypeInv, TypeOK, BurstOK
  <1>2. /\ ~subscriptionsEnded /\ sendBuffer' = {} /\ UNCHANGED quicShedStale
        /\ quicShedOverflow' = [u \in Tracks |-> quicShedOverflow[u]
                                  + Cardinality(Of(u, sendBuffer \cup {Offered}))]
    BY DEF Terminated, Flushed, TerminateSubscriptions, Discarded
  <1>3. Offered \notin sendBuffer /\ Offered.track = t
    BY OfferedFacts, ObjectFacts DEF ObjectsInv, OrderInv
  <1>4. \A u \in Tracks : Uncounted(u)' = 0
    <2> SUFFICES ASSUME NEW u \in Tracks PROVE nextObjectId'[u] = Ledger(u)' /\ Ledger(u)' \in Int
      BY DEF Uncounted
    <2>1. /\ objectsSent[u] \in Nat /\ quicShedStale[u] \in Nat /\ quicShedOverflow[u] \in Nat
          /\ Cardinality(Of(u, sendBuffer)) \in Nat /\ IsFiniteSet(sendBuffer)
          /\ nextObjectId[u] \in Nat
      BY LedgerTypes
    <2>2. nextObjectId[u] = objectsSent[u] + quicShedStale[u] + quicShedOverflow[u]
                              + Cardinality(Of(u, sendBuffer))
      BY <1>2 DEF Balanced, Ledger
    <2>3. nextObjectId'[u] = nextObjectId[u] + IF t = u THEN 1 ELSE 0
      BY <1>1, <2>1
    <2>4. Cardinality(Of(u, sendBuffer \cup {Offered})) =
            IF t = u THEN Cardinality(Of(u, sendBuffer)) + 1
            ELSE Cardinality(Of(u, sendBuffer))
      BY <1>3, <2>1, PartAdd
    <2>5. Of(u, sendBuffer)' = {}
      BY <1>2 DEF Of
    <2>6. /\ quicShedOverflow'[u] = quicShedOverflow[u]
                                      + Cardinality(Of(u, sendBuffer \cup {Offered}))
          /\ objectsSent'[u] = objectsSent[u] /\ quicShedStale'[u] = quicShedStale[u]
          /\ Cardinality(Of(u, sendBuffer)') = 0
      BY <1>1, <1>2, <2>5, FS_EmptySet
    <2> QED BY <2>1, <2>2, <2>3, <2>4, <2>6 DEF Ledger
  <1>5. LastBurst(t)'
    BY <1>1, <1>4 DEF LastBurst
  <1> QED BY <1>1, <1>5 DEF EndedInv

LEMMA EndedNext ==
  ASSUME TypeInv, ObjectsInv, TeardownInv, Balanced, EndedInv, [Next]_vars
  PROVE  EndedInv'
  <1>0. /\ burst.left \in Nat /\ burst.track \in Tracks
        /\ \A t \in Tracks : ObjectsPerGroup[t] \in Nat
        /\ subscriptionsEnded => sendBuffer = {}
    BY ObjectFacts DEF TeardownInv, TeardownClean
  <1>1. CASE \/ UNCHANGED vars
             \/ SocketEstablished \/ EndGroup \/ EndFlush \/ QuicFullOrRejected
             \/ QuicDrain \/ QuicHandleRequest \/ Tick
             \/ \E t \in Tracks : AnnounceTrack(t) \/ SubscribeOk(t) \/ StartGroup(t)
             \/ \E s \in Subgroups : QuicAck(s)
             \/ \E p \in sendBuffer : DropWithSubgroup(p) \/ DropStale(p) \/ WriteChunk(p)
             \/ TimeoutCheck
    <2>1. /\ UNCHANGED <<nextObjectId, subscriptionsEnded>>
          /\ \/ burst' = burst
             \/ burst' = IdleBurst
             \/ ~subscriptionsEnded /\ \E t \in Tracks : burst' = GroupBurst(t)
      BY <1>1 DEF SocketEstablished, EndGroup, EndFlush, QuicFullOrRejected, QuicDrain,
                  QuicHandleRequest, AnnounceTrack, SubscribeOk, StartGroup, QuicAck, Tick,
                  TimeoutCheck, DropWithSubgroup, DropStale, WriteChunk, vars
    <2>2. /\ burst'.left \in Nat /\ burst'.left <= ObjectsPerGroup[burst'.track]
          /\ subscriptionsEnded => burst' = burst \/ burst'.left = 0
      BY <1>0, <2>1, IdleBurstType DEF IdleBurst, GroupBurst, EndedInv
    <2>3. CASE ~subscriptionsEnded
      BY <2>1, <2>2, <2>3 DEF EndedInv
    <2>4. CASE subscriptionsEnded
      <3>1. sendBuffer' = {}
        BY <1>0, <1>1, <2>4 DEF SocketEstablished, EndGroup, EndFlush, QuicFullOrRejected,
               QuicDrain, QuicHandleRequest, AnnounceTrack, SubscribeOk, StartGroup, QuicAck,
               Tick, TimeoutCheck, vars
      <3>2. UNCHANGED <<objectsSent, quicShedOverflow>>
        BY <1>0, <1>1, <2>4 DEF SocketEstablished, EndGroup, EndFlush, QuicFullOrRejected,
               QuicDrain, QuicHandleRequest, AnnounceTrack, SubscribeOk, StartGroup, QuicAck,
               Tick, TimeoutCheck, counters, vars
      <3>3. \A t \in Tracks : quicShedStale'[t] = quicShedStale[t]
        <4>1. CASE TimeoutCheck
          <5>1. \A t : Of(t, SweptObjects) = {}
            BY <2>4 DEF SweptObjects, Of
          <5>2. quicShedStale' = [t \in Tracks |->
                                   quicShedStale[t] + Cardinality(Of(t, SweptObjects))]
            BY <4>1 DEF TimeoutCheck
          <5>3. \A t : Cardinality(Of(t, SweptObjects)) = 0
            BY <5>1, FS_EmptySet
          <5> QED BY <5>2, <5>3, LedgerTypes
        <4>2. CASE ~TimeoutCheck
          BY <1>0, <1>1, <2>4, <4>2 DEF SocketEstablished, EndGroup, EndFlush,
             QuicFullOrRejected, QuicDrain, QuicHandleRequest, AnnounceTrack, SubscribeOk,
             StartGroup, QuicAck, Tick, counters, vars
        <4> QED BY <4>1, <4>2
      <3> QED BY <1>0, <2>1, <2>2, <2>4, <3>1, <3>2, <3>3, EndedSame
    <2> QED BY <2>3, <2>4
  <1>2. CASE SendObject
    <2>1. /\ burst.left > 0 /\ burst'.track = burst.track /\ burst'.left = burst.left - 1
          /\ nextObjectId' = [nextObjectId EXCEPT ![burst.track] = @ + 1]
          /\ UNCHANGED objectsSent
          /\ Refused \/ Enqueued \/ Terminated
      BY <1>2, SendEffect
    <2>2. burst'.left \in Nat /\ burst'.left <= ObjectsPerGroup[burst'.track]
      BY <1>0, <2>1 DEF EndedInv
    <2>3. CASE Terminated
      BY <1>2, <2>3, EndedTerminated
    <2>4. CASE ~subscriptionsEnded /\ ~Terminated
      <3>1. ~subscriptionsEnded'
        BY <2>1, <2>4 DEF Refused, Refuse, Enqueued, Enqueue
      <3> QED BY <2>2, <3>1 DEF EndedInv
    <2>5. CASE subscriptionsEnded
      <3>1. UNCHANGED <<sendBuffer, quicShedStale, quicShedOverflow>>
        BY <2>1, <2>5 DEF Refused, Refuse, Enqueued, Terminated, Flushed
      <3> QED BY <1>0, <2>1, <2>2, <2>5, <3>1, EndedSame
    <2> QED BY <2>3, <2>4, <2>5
  <1> QED BY <1>1, <1>2 DEF Next, Application, FlushStep

\* The counters of finish() balance: the objects offered are those sent, those shed under
\* each cause and those in the buffer; the teardown misses none it finds, and after it only
\* the rest of the burst that brought it, less than a group of one track, is uncounted.
THEOREM LedgerBalances == Spec => []Accounting
  <1>1. Init => EndedInv
    BY IdleBurstType, TracksAssumption DEF Init, EndedInv, IdleBurst
  <1>2. Spec => []EndedInv
    <2>1. TypeInv /\ ObjectsInv /\ TeardownInv /\ Balanced /\ EndedInv /\ [Next]_vars
          => EndedInv'
      BY EndedNext
    <2> QED BY <1>1, <2>1, TypeInvariant, ObjectsInvariant, TeardownInvariant,
               BalancedInvariant, PTL DEF Spec
  <1>3. TypeInv /\ Balanced /\ EndedInv => Accounting
    <2> SUFFICES ASSUME TypeInv, Balanced, EndedInv PROVE Accounting
      OBVIOUS
    <2>1. CASE ~subscriptionsEnded
      <3>1. \A t \in Tracks : Uncounted(t) = 0
        BY <2>1, LedgerTypes DEF Balanced, Uncounted
      <3>2. PICK t \in Tracks : TRUE
        BY TracksAssumption
      <3> QED BY <2>1, <3>1, <3>2 DEF Accounting
    <2>2. CASE subscriptionsEnded
      <3>1. PICK t \in Tracks : LastBurst(t)
        BY <2>2 DEF EndedInv
      <3>2. /\ \A u \in Tracks \ {t} : Uncounted(u) = 0
            /\ Uncounted(t) \in Nat /\ Uncounted(t) + burst.left < ObjectsPerGroup[t]
            /\ burst.left \in Nat /\ ObjectsPerGroup[t] \in Nat
        BY <3>1, ObjectFacts DEF LastBurst
      <3>3. Uncounted(t) \in 0 .. (ObjectsPerGroup[t] - 1)
        BY <3>2
      <3> QED BY <2>2, <3>2, <3>3 DEF Accounting
    <2> QED BY <2>1, <2>2
  <1> QED BY <1>2, <1>3, TypeInvariant, BalancedInvariant, PTL

-----------------------------------------------------------------------------
(* The connection: what the application's handlers ask of QUIC.            *)

LEMMA PublisherLimits == Quic!QueueLimits
  BY SubgroupsFinite, LimitsAssumption
     DEF Quic!QueueLimits, IsFiniteSet, Quic!IsFiniteSet

\* The bytes on their way, as the lemmas about QUIC count them.
LEMMA PendingIsData == PendingBytes = Quic!DataBytes(conn.requests)
  BY Quic!QuicSum DEF PendingBytes, Quic!DataBytes, Quic!DataAt

LEMMA ConnFacts ==
  ASSUME TypeInv
  PROVE  /\ conn \in Quic!Connections /\ conn.requests \in Seq(Quic!Requests)
         /\ conn.held \in [Subgroups -> Nat] /\ conn.accept \in BOOLEAN
         /\ conn.inds \in Seq(Quic!Indications)
         /\ Quic!Occupancy(conn) \in Nat /\ Quic!DataBytes(conn.requests) \in Nat /\ BytesAtFlush \in Nat
         /\ quicBytesThisEvent # NotYet => quicBytesThisEvent = BytesAtFlush
         /\ SendQueueLimit \in Nat \ {0} /\ ChunkBytes \in Nat \ {0} /\ LowWaterMark \in Nat \ {0}
         /\ LowWaterMark <= SendQueueLimit
  <1>1. conn \in Quic!Connections /\ BytesAtFlush \in Nat
    BY DEF TypeInv, TypeOK, QuicOK, BytesAtFlush, NotYet
  <1>2. /\ conn.requests \in Seq(Quic!Requests) /\ conn.held \in [Subgroups -> Nat]
        /\ conn.accept \in BOOLEAN /\ conn.inds \in Seq(Quic!Indications)
    BY <1>1 DEF Quic!Connections
  <1> QED BY <1>1, <1>2, PublisherLimits, Quic!OccupancyNat, Quic!DataFacts, LimitsAssumption
          DEF BytesAtFlush

\* The streams reset by the check for timeouts.
LEMMA SweepFacts ==
  ASSUME TypeInv
  PROVE  /\ UNION {TornBy(p) : p \in SweptObjects} \in SUBSET Subgroups
         /\ ExpiredSubgroups \in SUBSET Subgroups
  <1>1. \A p \in SweptObjects : TornBy(p) \in SUBSET Subgroups
    <2>1. \A p \in SweptObjects : p \in sendBuffer
      BY DEF SweptObjects
    <2> QED BY <2>1, ObjectFacts DEF TornBy
  <1>2. ExpiredSubgroups \in SUBSET Subgroups
    <2>1. \A o \in outstanding : Subgroup(o) \in Subgroups
      BY ObjectFacts
    <2> QED BY <2>1 DEF ExpiredSubgroups
  <1> QED BY <1>1, <1>2

\* Handlers of the application that only ask: the resets and control frames.
LEMMA AskedConn ==
  ASSUME TypeInv, TypeInv',
         \/ UNCHANGED conn
         \/ \E S \in SUBSET Subgroups : conn' = Quic!ResetStreams(conn, S)
         \/ \E S, T \in SUBSET Subgroups :
              conn' = Quic!ResetStreams(Quic!ResetStreams(conn, S), T)
         \/ conn' = Quic!SendControl(conn)
         \/ \E S \in SUBSET Subgroups : conn' = Quic!SendControl(Quic!ResetStreams(conn, S))
  PROVE  Quic!Asked(conn, conn')
  <1>1. conn \in Quic!Connections
    BY ConnFacts
  <1>2. CASE UNCHANGED conn
    BY <1>2, ConnFacts, Quic!GrownSame DEF Quic!Asked
  <1>3. ASSUME NEW S \in SUBSET Subgroups, conn' = Quic!ResetStreams(conn, S)
        PROVE  Quic!Asked(conn, conn')
    BY <1>1, <1>3, Quic!ResetAsked
  <1>4. ASSUME NEW S \in SUBSET Subgroups, NEW T \in SUBSET Subgroups,
               conn' = Quic!ResetStreams(Quic!ResetStreams(conn, S), T)
        PROVE  Quic!Asked(conn, conn')
    <2> DEFINE c == Quic!ResetStreams(conn, S)
    <2>1. c \in Quic!Connections /\ Quic!Asked(conn, c)
      BY <1>1, Quic!ResetAsked
    <2>2. conn' = Quic!ResetStreams(c, T)
      BY <1>4
    <2> HIDE DEF c
    <2>3. conn' \in Quic!Connections /\ Quic!Asked(c, conn')
      BY <2>1, <2>2, Quic!ResetAsked
    <2> QED BY <1>1, <2>1, <2>3, Quic!AskedTwice
  <1>5. CASE conn' = Quic!SendControl(conn)
    BY <1>1, <1>5, Quic!ControlAsked
  <1>6. ASSUME NEW S \in SUBSET Subgroups, conn' = Quic!SendControl(Quic!ResetStreams(conn, S))
        PROVE  Quic!Asked(conn, conn')
    <2> DEFINE c == Quic!ResetStreams(conn, S)
    <2>1. c \in Quic!Connections /\ Quic!Asked(conn, c)
      BY <1>1, Quic!ResetAsked
    <2>2. conn' = Quic!SendControl(c)
      BY <1>6
    <2> HIDE DEF c
    <2>3. conn' \in Quic!Connections /\ Quic!Asked(c, conn')
      BY <2>1, <2>2, Quic!ControlAsked
    <2> QED BY <1>1, <2>1, <2>3, Quic!AskedTwice
  <1> QED BY <1>2, <1>3, <1>4, <1>5, <1>6

\* What each handler of the application asks of QUIC.
LEMMA ApplicationAsks ==
  ASSUME TypeInv, TypeInv',
         \/ UNCHANGED vars \/ SocketEstablished \/ SendObject \/ EndGroup \/ EndFlush
         \/ TimeoutCheck
         \/ \E t \in Tracks : AnnounceTrack(t) \/ StartGroup(t)
         \/ \E p \in sendBuffer : DropWithSubgroup(p) \/ DropStale(p)
  PROVE  /\ Quic!Asked(conn, conn') /\ BytesAtFlush' = BytesAtFlush /\ UNCHANGED quicBlocked
  <1>1. CASE \/ UNCHANGED vars \/ SocketEstablished \/ EndGroup \/ EndFlush
             \/ \E t \in Tracks : StartGroup(t)
             \/ \E p \in sendBuffer : DropWithSubgroup(p)
    <2>1. UNCHANGED <<conn, quicBytesThisEvent, quicBlocked>>
      BY <1>1 DEF vars, SocketEstablished, EndGroup, EndFlush, StartGroup, DropWithSubgroup
    <2> QED BY <2>1, AskedConn DEF BytesAtFlush
  <1>2. ASSUME NEW t \in Tracks, AnnounceTrack(t)
        PROVE  Quic!Asked(conn, conn') /\ BytesAtFlush' = BytesAtFlush /\ UNCHANGED quicBlocked
    <2>1. conn' = Quic!SendControl(conn) /\ UNCHANGED <<quicBytesThisEvent, quicBlocked>>
      BY <1>2 DEF AnnounceTrack
    <2> QED BY <2>1, AskedConn DEF BytesAtFlush
  <1>3. ASSUME NEW p \in sendBuffer, DropStale(p)
        PROVE  Quic!Asked(conn, conn') /\ BytesAtFlush' = BytesAtFlush /\ UNCHANGED quicBlocked
    <2>1. /\ conn' = Quic!ResetStreams(conn, TornBy(p))
          /\ UNCHANGED <<quicBytesThisEvent, quicBlocked>>
      BY <1>3 DEF DropStale
    <2>2. TornBy(p) \in SUBSET Subgroups
      BY ObjectFacts DEF TornBy
    <2> QED BY <2>1, <2>2, AskedConn DEF BytesAtFlush
  <1>4. \A b : quicBytesThisEvent' = BytesAtFlush => BytesAtFlush' = BytesAtFlush
    <2>1. BytesAtFlush \in Nat
      BY ConnFacts
    <2> SUFFICES ASSUME quicBytesThisEvent' = BytesAtFlush PROVE BytesAtFlush' = BytesAtFlush
      OBVIOUS
    <2>2. quicBytesThisEvent' \in Nat /\ quicBytesThisEvent' # NotYet
      BY <2>1 DEF NotYet
    <2> QED BY <2>2 DEF BytesAtFlush
  <1>5. CASE TimeoutCheck
    <2> DEFINE torn == UNION {TornBy(p) : p \in SweptObjects}
    <2>1. /\ conn' = Quic!ResetStreams(Quic!ResetStreams(conn, ExpiredSubgroups), torn)
          /\ quicBytesThisEvent' = BytesAtFlush /\ UNCHANGED quicBlocked
      BY <1>5 DEF TimeoutCheck
    <2>2. torn \in SUBSET Subgroups /\ ExpiredSubgroups \in SUBSET Subgroups
      BY ONLY TypeInv, SweepFacts
    <2> HIDE DEF torn
    <2> QED BY <1>4, <2>1, <2>2, AskedConn
  <1>6. CASE SendObject
    <2>1. /\ UNCHANGED quicBlocked
          /\ \/ UNCHANGED <<conn, quicBytesThisEvent>>
             \/ UNCHANGED conn /\ quicBytesThisEvent' = BytesAtFlush
             \/ /\ quicBytesThisEvent' = BytesAtFlush
                /\ conn' = Quic!SendControl(Quic!ResetStreams(conn,
                                                             subgroupStreams \cup {BurstSubgroup}))
      BY <1>6, SendEffect, OfferedFacts DEF Refused, Refuse, Enqueued, Enqueue, Terminated,
         TerminateSubscriptions, Flushed, TeardownFrames
    <2>2. subgroupStreams \cup {BurstSubgroup} \in SUBSET Subgroups
      BY ObjectFacts DEF TypeInv, TypeOK, StreamsOK
    <2>3. BytesAtFlush' = BytesAtFlush
      BY <1>4, <2>1 DEF BytesAtFlush
    <2> QED BY <2>1, <2>2, <2>3, AskedConn
  <1> QED BY <1>1, <1>2, <1>3, <1>5, <1>6

-----------------------------------------------------------------------------
(* The pacing: the queue is never fuller than one chunk above the limit.   *)

\* What has been handed to QUIC and not handled was written at this instant, so it
\* is part of quicBytesThisEvent, which the flush loop adds to QUIC's report.
PacingInv ==
  /\ Quic!Paced(conn, BytesAtFlush, SendQueueLimit + ChunkBytes)
  /\ Flushing => quicBytesThisEvent # NotYet

LEMMA PacingConst ==
  Quic!Paced(conn, BytesAtFlush, SendQueueLimit + ChunkBytes)'
    <=> Quic!Paced(conn', BytesAtFlush', SendQueueLimit + ChunkBytes)
  BY DEF Quic!Paced, Quic!OneStream, Quic!Load, Quic!Occupancy, Quic!DataBytes, Quic!DataAt

LEMMA PacingInit == Init => PacingInv
  <1> SUFFICES ASSUME Init PROVE PacingInv
    OBVIOUS
  <1>1. conn = Quic!FreshConnection /\ pc = "idle" /\ BytesAtFlush = 0
    BY DEF Init, BytesAtFlush
  <1>2. conn \in Quic!Connections /\ Quic!Occupancy(conn) = 0
    BY <1>1, PublisherLimits, Quic!FreshOccupancy
  <1>3. conn.requests = <<>>
    BY <1>1 DEF Quic!FreshConnection
  <1>4. 0 < SendQueueLimit + ChunkBytes
    BY LimitsAssumption
  <1>5. Quic!Paced(conn, 0, SendQueueLimit + ChunkBytes)
    BY ONLY <1>2, <1>3, <1>4, PublisherLimits, Quic!PacedInstant
  <1> QED BY <1>1, <1>5 DEF PacingInv, Flushing

LEMMA PacingNext ==
  TypeInv /\ TypeInv' /\ PacingInv /\ [Next]_vars => PacingInv'
  <1> DEFINE L == SendQueueLimit + ChunkBytes
  <1> SUFFICES ASSUME TypeInv, TypeInv', PacingInv, [Next]_vars
               PROVE  /\ Quic!Paced(conn', BytesAtFlush', L)
                      /\ Flushing' => quicBytesThisEvent' # NotYet
    BY PacingConst DEF PacingInv
  <1>0. /\ conn \in Quic!Connections /\ conn' \in Quic!Connections
        /\ BytesAtFlush \in Nat /\ L \in Nat
        /\ Quic!Paced(conn, BytesAtFlush, L)
    BY ConnFacts DEF TypeInv, TypeOK, QuicOK, PacingInv
  <1> HIDE DEF L
  <1>1. CASE \/ UNCHANGED vars \/ SocketEstablished \/ SendObject \/ EndGroup \/ EndFlush
             \/ TimeoutCheck
             \/ \E t \in Tracks : AnnounceTrack(t) \/ StartGroup(t)
             \/ \E p \in sendBuffer : DropWithSubgroup(p) \/ DropStale(p)
    <2>1. Quic!Asked(conn, conn') /\ BytesAtFlush' = BytesAtFlush
      BY <1>1, ApplicationAsks
    <2>2. Quic!Paced(conn', BytesAtFlush', L)
      BY <1>0, <2>1, Quic!PacedAsked DEF Quic!Asked
    <2>3. \/ UNCHANGED quicBytesThisEvent /\ (Flushing' => Flushing)
          \/ quicBytesThisEvent' = BytesAtFlush
      <3>1. CASE SendObject
        BY <3>1, SendEffect DEF Refused, Refuse, Enqueued, Enqueue, Terminated, Flushing,
           TerminateSubscriptions, Flushed
      <3>2. CASE TimeoutCheck
        BY <3>2 DEF TimeoutCheck
      <3>3. CASE \/ UNCHANGED vars \/ SocketEstablished \/ EndGroup \/ EndFlush
                 \/ \E t \in Tracks : AnnounceTrack(t) \/ StartGroup(t)
                 \/ \E p \in sendBuffer : DropWithSubgroup(p) \/ DropStale(p)
        BY <3>3 DEF vars, SocketEstablished, EndGroup, EndFlush, AnnounceTrack, StartGroup,
                    DropWithSubgroup, DropStale, Flushing
      <3> QED BY <1>1, <3>1, <3>2, <3>3
    <2> QED BY <1>0, <2>2, <2>3 DEF PacingInv, NotYet
  <1>2. CASE \/ Tick
             \/ \E t \in Tracks : SubscribeOk(t)
             \/ \E s \in Subgroups : QuicAck(s)
    <2>1. /\ conn.requests = <<>> /\ BytesAtFlush' = 0 /\ ~Flushing'
          /\ \/ UNCHANGED conn
             \/ \E s \in Subgroups : conn.held[s] > 0 /\ conn' = Quic!Acknowledge(conn, s)
      BY <1>2 DEF Tick, SubscribeOk, QuicAck, NewInstant, BytesAtFlush, Flushing
    <2>2. Quic!Paced(conn, 0, L)
      BY ONLY <1>0, <2>1, PublisherLimits, Quic!PacedInstant
    <2>3. Quic!Paced(conn', 0, L)
      BY ONLY <1>0, <2>1, <2>2, PublisherLimits, Quic!PacedAcknowledged
    <2> QED BY <2>1, <2>3
  <1>3. CASE QuicFullOrRejected \/ QuicDrain
    <2>1. /\ conn' = Quic!TakeIndication(conn)
          /\ quicBytesThisEvent' \in {quicBytesThisEvent, BytesAtFlush}
          /\ Flushing' => quicBytesThisEvent' = BytesAtFlush
      BY <1>3 DEF QuicFullOrRejected, QuicDrain, Flushing
    <2>2. Quic!Paced(conn', BytesAtFlush, L)
      BY <1>0, <2>1, Quic!PacedTaken
    <2>3. BytesAtFlush' = BytesAtFlush /\ (Flushing' => quicBytesThisEvent' # NotYet)
      BY <2>1, <1>0 DEF BytesAtFlush, NotYet
    <2> QED BY <2>2, <2>3
  <1>4. CASE QuicHandleRequest
    <2>1. /\ conn.requests # <<>> /\ conn' = Quic!HandleRequest(conn) /\ ~Flushing'
          /\ BytesAtFlush' = BytesAtFlush
      BY <1>4 DEF QuicHandleRequest, Flushing, BytesAtFlush
    <2>2. Quic!Paced(conn', BytesAtFlush, L)
      BY ONLY <1>0, <2>1, PublisherLimits, Quic!PacedHandled
    <2> QED BY <2>1, <2>2
  <1>5. ASSUME NEW p \in sendBuffer, WriteChunk(p)
        PROVE  Quic!Paced(conn', BytesAtFlush', L) /\ quicBytesThisEvent' # NotYet
    <2> DEFINE s == Subgroup(p)
    <2>1. PICK n \in Nat \ {0} :
             /\ n <= ChunkBytes
             /\ quicBytesThisEvent' = quicBytesThisEvent + n
             /\ conn' = Quic!SendData(conn, s, n)
      BY <1>5, WriteEffect
    <2>2. s \in Subgroups
      BY ObjectFacts
    <2> HIDE DEF s
    <2>3. Flushing /\ Quic!Occupancy(conn) + quicBytesThisEvent < SendQueueLimit
      BY <1>5 DEF WriteChunk, MayWrite
    <2>4. quicBytesThisEvent = BytesAtFlush
      BY <2>3, ConnFacts DEF PacingInv
    <2>5. BytesAtFlush' = BytesAtFlush + n /\ quicBytesThisEvent' # NotYet
      BY <1>0, <2>1, <2>4 DEF BytesAtFlush, NotYet
    <2>6. n \in 0 .. ChunkBytes /\ n \in Nat /\ ChunkBytes \in Nat
      BY <2>1, LimitsAssumption
    <2>7. Quic!Occupancy(conn) + BytesAtFlush < SendQueueLimit
      BY <2>3, <2>4
    <2>8. Quic!Paced(conn', BytesAtFlush + n, L)
      BY ONLY <1>0, <2>1, <2>2, <2>6, <2>7, PublisherLimits, Quic!PacedSent DEF L
    <2> QED BY <2>5, <2>8
  <1> QED BY <1>1, <1>2, <1>3, <1>4, <1>5 DEF Next, Application, FlushStep

LEMMA PacingInvariant == Spec => []PacingInv
  BY TypeInvariant, PacingInit, PacingNext, PTL DEF Spec

\* The pacing keeps its promise: with what is on its way to QUIC, the queue is never
\* fuller than the last permitted occupancy plus one chunk, however often a burst
\* flushes within one instant.
THEOREM OccupancyBounded == Spec => []OccupancyBound
  <1>1. PacingInv => OccupancyBound
    BY PendingIsData DEF PacingInv, Quic!Paced, Quic!Load, OccupancyBound
  <1> QED BY <1>1, PacingInvariant, PTL

-----------------------------------------------------------------------------
(* Admission: QUIC refuses nothing.                                        *)

\* Before the first SUBSCRIBE_OK.
Announcing == \A t \in Tracks : timerKind[t] = "PUB_ANNOUNCE"

\* Control frames are sent before the first object and after the last: with the
\* queue empty, and as the last thing the connection is asked for.
ControlInv ==
  /\ Announcing =>
       /\ sendBuffer = {} /\ outstanding = {} /\ subgroupStreams = {}
       /\ ~subscriptionsEnded /\ ~Emitting /\ conn.accept
       /\ Quic!AllControl(conn.requests)
  /\ ~Announcing =>
       /\ connected
       /\ \A t \in Tracks : timerKind[t] = "PUB_ANNOUNCE" => timer[t] = Off
  /\ Emitting => timerKind[burst.track] = "SUB_SUCCESS"
  /\ ~Announcing /\ ~subscriptionsEnded => Quic!NoControl(conn.requests)
  /\ subscriptionsEnded => Quic!OnlyLastControl(conn.requests)

\* Admission, indications and control frames together: QUIC refuses nothing.
AdmissionInv ==
  /\ Quic!Admits(conn)
  /\ Quic!Signals(conn, BytesAtFlush)
  /\ Quic!Blocks(conn, quicBlocked)
  /\ Emitting => conn.inds = <<>>
  /\ pc = "flush" /\ ~quicBlocked /\ ~conn.accept => SendQueueLimit < LowWaterMark + BytesAtFlush
  /\ Quic!OwedOpen(conn, subgroupStreams)
  /\ ControlInv
  /\ NothingRejected

\* A flush that may write finds the connection accepting.
LEMMA WriteAccepted ==
  ASSUME TypeInv, PacingInv, AdmissionInv, Flushing, MayWrite
  PROVE  conn.accept /\ Quic!Load(conn) < SendQueueLimit
  <1>1. /\ ~quicBlocked /\ Quic!Occupancy(conn) + BytesAtFlush < SendQueueLimit
    BY ConnFacts DEF MayWrite, PacingInv
  <1>2. Quic!Load(conn) < SendQueueLimit
    BY <1>1, ConnFacts DEF PacingInv, Quic!Paced, Quic!Load
  <1>3. ASSUME ~conn.accept, pc = "flush" PROVE FALSE
    <2>1. SendQueueLimit < LowWaterMark + BytesAtFlush /\ Quic!Occupancy(conn) >= LowWaterMark
      BY <1>1, <1>3 DEF AdmissionInv, Quic!Admits
    <2> QED BY <1>1, <2>1, ConnFacts
  <1>4. ASSUME ~conn.accept, pc = "flushObject" PROVE FALSE
    <2>1. conn.inds = <<>> /\ Quic!FullComing(conn.inds)
      BY <1>1, <1>4 DEF AdmissionInv, Emitting, Quic!Blocks
    <2> QED BY <2>1 DEF Quic!FullComing
  <1> QED BY <1>2, <1>3, <1>4 DEF Flushing

\* A control frame finds the connection accepting.
LEMMA ControlAccepted ==
  ASSUME TypeInv, TeardownInv, AdmissionInv, conn.requests # <<>>,
         Head(conn.requests).op = "control"
  PROVE  conn.accept
  <1> SUFFICES ASSUME ~conn.accept PROVE FALSE
    OBVIOUS
  <1>1. /\ Quic!Occupancy(conn) >= LowWaterMark /\ ~Announcing
    BY DEF AdmissionInv, Quic!Admits, ControlInv
  <1>2. subscriptionsEnded
    BY <1>1, ConnFacts, Quic!ControlTaken DEF AdmissionInv, ControlInv
  <1>3. Len(conn.requests) = 1
    BY <1>2, ConnFacts, Quic!ControlTaken DEF AdmissionInv, ControlInv
  <1>4. /\ Head(conn.requests) = conn.requests[1] /\ DOMAIN conn.requests = 1 .. 1
    BY <1>3, ConnFacts, Quic!RequestTaken
  <1>5. \A i \in DOMAIN conn.requests : conn.requests[i].op = "control"
    BY <1>4
  <1>6. \A s \in Subgroups : ~Quic!ResetComing(conn.requests, s)
    BY <1>5 DEF Quic!ResetComing
  <1>7. subgroupStreams = {}
    BY <1>2 DEF TeardownInv, TeardownClean
  <1>8. \A s \in Subgroups : ~Quic!Owed(conn, s)
    BY <1>6, <1>7 DEF AdmissionInv, Quic!OwedOpen
  <1>9. \A s \in Subgroups : conn.held[s] = 0
    BY <1>8, ConnFacts DEF Quic!Owed
  <1>10. Quic!Occupancy(conn) = 0
    BY <1>9, ConnFacts, PublisherLimits, Quic!HeldZero DEF Quic!Occupancy
  <1> QED BY <1>1, <1>10, ConnFacts

\* The parts about the queue, when no data is sent and no indication taken.
QueueInv ==
  /\ Quic!Admits(conn)
  /\ Quic!Signals(conn, BytesAtFlush)
  /\ Quic!Blocks(conn, quicBlocked)
  /\ NothingRejected

LEMMA QueueConst ==
  /\ Quic!Admits(conn)' <=> Quic!Admits(conn')
  /\ Quic!Signals(conn, BytesAtFlush)' <=> Quic!Signals(conn', BytesAtFlush')
  /\ Quic!Blocks(conn, quicBlocked)' <=> Quic!Blocks(conn', quicBlocked')
  /\ Quic!OwedOpen(conn, subgroupStreams)' <=> Quic!OwedOpen(conn', subgroupStreams')
  <1>1. Quic!Admits(conn)' <=> Quic!Admits(conn')
    BY DEF Quic!Admits, Quic!Load, Quic!Occupancy, Quic!DataBytes, Quic!DataAt, Quic!IsLastData
  <1>2. Quic!Signals(conn, BytesAtFlush)' <=> Quic!Signals(conn', BytesAtFlush')
    BY DEF Quic!Signals, Quic!DrainComing, Quic!Load, Quic!Occupancy, Quic!DataBytes, Quic!DataAt
  <1>3. Quic!Blocks(conn, quicBlocked)' <=> Quic!Blocks(conn', quicBlocked')
    BY DEF Quic!Blocks, Quic!FullComing, Quic!DrainComing
  <1>4. Quic!OwedOpen(conn, subgroupStreams)' <=> Quic!OwedOpen(conn', subgroupStreams')
    BY DEF Quic!OwedOpen, Quic!Owed, Quic!ResetComing, Quic!DataAt
  <1> QED BY <1>1, <1>2, <1>3, <1>4

LEMMA QueueAsked ==
  ASSUME TypeInv, TypeInv', QueueInv, Quic!Asked(conn, conn'), BytesAtFlush' = BytesAtFlush,
         UNCHANGED quicBlocked
  PROVE  QueueInv' /\ conn'.inds = conn.inds /\ conn'.accept = conn.accept
  <1>1. conn \in Quic!Connections /\ conn' \in Quic!Connections
    BY DEF TypeInv, TypeOK, QuicOK
  <1>2. Quic!Admits(conn') /\ Quic!Signals(conn', BytesAtFlush) /\ Quic!Blocks(conn', quicBlocked)
    BY <1>1, Quic!AdmitsAsked DEF QueueInv
  <1>3. conn'.inds = conn.inds /\ conn'.accept = conn.accept /\ conn'.rejected = conn.rejected
    BY DEF Quic!Asked
  <1> QED BY <1>2, <1>3, QueueConst DEF QueueInv, NothingRejected

\* A stream that an application step closes is reset in that step.
LEMMA OwedApplication ==
  ASSUME TypeInv, TypeInv', Quic!OwedOpen(conn, subgroupStreams),
         \/ UNCHANGED vars \/ SocketEstablished \/ SendObject \/ EndGroup \/ EndFlush
         \/ TimeoutCheck
         \/ \E t \in Tracks : AnnounceTrack(t) \/ StartGroup(t)
         \/ \E p \in sendBuffer : DropWithSubgroup(p) \/ DropStale(p)
  PROVE  Quic!OwedOpen(conn', subgroupStreams')
  <1>0. conn \in Quic!Connections /\ conn' \in Quic!Connections /\ Quic!Asked(conn, conn')
    BY ApplicationAsks DEF TypeInv, TypeOK, QuicOK
  <1>1. ASSUME NEW S, Quic!Closes(conn, conn', S), subgroupStreams \ subgroupStreams' \subseteq S
        PROVE  Quic!OwedOpen(conn', subgroupStreams')
    <2>1. \A s \in subgroupStreams \ subgroupStreams' :
             \E i \in Len(conn.requests) + 1 .. Len(conn'.requests) :
               conn'.requests[i].op = "reset" /\ s \in conn'.requests[i].on
      BY <1>1 DEF Quic!Closes
    <2> QED BY <1>0, <2>1, Quic!OwedAsked
  <1>2. CASE subgroupStreams \subseteq subgroupStreams'
    <2>1. Quic!Closes(conn, conn', {})
      BY DEF Quic!Closes
    <2> QED BY <1>1, <1>2, <2>1
  <1>3. CASE \/ UNCHANGED vars \/ SocketEstablished \/ EndGroup \/ EndFlush
             \/ \E t \in Tracks : AnnounceTrack(t) \/ StartGroup(t)
             \/ \E p \in sendBuffer : DropWithSubgroup(p)
    <2>1. UNCHANGED subgroupStreams
      BY <1>3 DEF vars, streams, SocketEstablished, EndGroup, EndFlush, AnnounceTrack,
                  StartGroup, DropWithSubgroup
    <2> QED BY <1>2, <2>1
  <1>4. ASSUME NEW p \in sendBuffer, DropStale(p) PROVE Quic!OwedOpen(conn', subgroupStreams')
    <2>1. /\ conn' = Quic!ResetStreams(conn, TornBy(p))
          /\ subgroupStreams' = subgroupStreams \ TornBy(p)
      BY <1>4 DEF DropStale, ResetForTimeout
    <2>2. TornBy(p) \in SUBSET Subgroups
      BY ObjectFacts DEF TornBy
    <2>3. Quic!Closes(conn, conn', TornBy(p))
      BY <1>0, <2>1, <2>2, Quic!ResetCloses
    <2> QED BY <1>1, <2>1, <2>3
  <1>5. CASE TimeoutCheck
    <2> DEFINE torn == UNION {TornBy(p) : p \in SweptObjects}
               c    == Quic!ResetStreams(conn, ExpiredSubgroups)
    <2>1. /\ conn' = Quic!ResetStreams(c, torn)
          /\ subgroupStreams' = subgroupStreams \ (ExpiredSubgroups \cup torn)
      BY <1>5 DEF TimeoutCheck, ResetForTimeout
    <2>2. torn \in SUBSET Subgroups /\ ExpiredSubgroups \in SUBSET Subgroups
      BY ONLY TypeInv, SweepFacts
    <2> HIDE DEF torn
    <2>3. /\ c \in Quic!Connections /\ Quic!Asked(conn, c)
          /\ Quic!Closes(conn, c, ExpiredSubgroups)
      BY <1>0, <2>2, Quic!ResetAsked, Quic!ResetCloses
    <2> HIDE DEF c
    <2>4. Quic!Asked(c, conn') /\ Quic!Closes(c, conn', torn)
      BY <2>1, <2>2, <2>3, Quic!ResetAsked, Quic!ResetCloses
    <2>5. Quic!Closes(conn, conn', ExpiredSubgroups) /\ Quic!Closes(conn, conn', torn)
      BY <1>0, <2>3, <2>4, Quic!ClosesAsked
    <2>6. Quic!Closes(conn, conn', ExpiredSubgroups \cup torn)
      BY <2>5 DEF Quic!Closes
    <2> QED BY <1>1, <2>1, <2>6
  <1>6. CASE SendObject
    <2> DEFINE open == subgroupStreams \cup {BurstSubgroup}
               c    == Quic!ResetStreams(conn, open)
    <2>1. \/ subgroupStreams \subseteq subgroupStreams'
          \/ conn' = Quic!SendControl(c)
      BY <1>6, SendEffect, OfferedFacts DEF Refused, Refuse, Enqueued, Enqueue, Terminated,
         TerminateSubscriptions, TeardownFrames, streams
    <2>2. open \in SUBSET Subgroups
      BY ObjectFacts DEF TypeInv, TypeOK, StreamsOK
    <2>3. subgroupStreams \subseteq open
      OBVIOUS
    <2> HIDE DEF open
    <2>4. /\ c \in Quic!Connections /\ Quic!Asked(conn, c) /\ Quic!Closes(conn, c, open)
      BY <1>0, <2>2, Quic!ResetAsked, Quic!ResetCloses
    <2> HIDE DEF c
    <2>5. CASE conn' = Quic!SendControl(c)
      <3>1. Quic!Asked(c, conn')
        BY <2>4, <2>5, Quic!ControlAsked
      <3>2. Quic!Closes(conn, conn', open)
        BY <1>0, <2>4, <3>1, Quic!ClosesAsked
      <3> QED BY <1>1, <2>3, <3>2
    <2> QED BY <1>2, <2>1, <2>5
  <1> QED BY <1>3, <1>4, <1>5, <1>6

LEMMA ControlConst ==
  /\ Quic!AllControl(conn.requests)' <=> Quic!AllControl(conn'.requests)
  /\ Quic!NoControl(conn.requests)' <=> Quic!NoControl(conn'.requests)
  /\ Quic!OnlyLastControl(conn.requests)' <=> Quic!OnlyLastControl(conn'.requests)
  BY DEF Quic!AllControl, Quic!NoControl, Quic!OnlyLastControl

\* Steps after the first SUBSCRIBE_OK that leave the tracks' timers to their kind.
LEMMA ControlLater ==
  ASSUME TypeInv, ControlInv, ~Announcing, UNCHANGED <<connected, timerKind>>,
         \A t \in Tracks : timerKind[t] = "PUB_ANNOUNCE" => timer'[t] = Off,
         Emitting' => timerKind[burst'.track] = "SUB_SUCCESS",
         ~subscriptionsEnded' => Quic!NoControl(conn'.requests),
         subscriptionsEnded' => Quic!OnlyLastControl(conn'.requests)
  PROVE  ControlInv'
  <1>1. ~Announcing'
    BY DEF Announcing
  <1> QED BY <1>1, ControlConst DEF ControlInv

\* Steps that leave the connection and the subscriptions alone.
LEMMA ControlQuiet ==
  ASSUME TypeInv, ControlInv, UNCHANGED <<connected, timerKind, subscriptionsEnded, burst>>,
         \A t \in Tracks : timer[t] = Off => timer'[t] = Off,
         Emitting' => Emitting,
         sendBuffer = {} => sendBuffer' = {},
         outstanding = {} /\ sendBuffer = {} => outstanding' = {},
         subgroupStreams = {} /\ sendBuffer = {} => subgroupStreams' = {},
         Announcing => conn'.accept,
         Quic!AllControl(conn.requests) => Quic!AllControl(conn'.requests),
         Quic!NoControl(conn.requests) => Quic!NoControl(conn'.requests),
         Quic!OnlyLastControl(conn.requests) => Quic!OnlyLastControl(conn'.requests)
  PROVE  ControlInv'
  <1>1. Announcing' <=> Announcing
    BY DEF Announcing
  <1>2. CASE Announcing
    BY <1>1, <1>2, ControlConst DEF ControlInv
  <1>3. CASE ~Announcing
    BY <1>1, <1>3, ControlConst DEF ControlInv
  <1> QED BY <1>2, <1>3

\* QUIC handles requests, and takes acknowledgements, without touching their kinds.
LEMMA ControlQuic ==
  ASSUME TypeInv, TypeInv', TeardownInv, PacingInv, AdmissionInv,
         \/ QuicHandleRequest \/ QuicFullOrRejected \/ QuicDrain
         \/ \E s \in Subgroups : QuicAck(s)
  PROVE  ControlInv'
  <1>1. /\ UNCHANGED <<connected, timer, timerKind, subscriptionsEnded, burst, sendBuffer,
                       outstanding, subgroupStreams>>
        /\ Emitting' => Emitting
    BY DEF QuicHandleRequest, QuicFullOrRejected, QuicDrain, QuicAck, clocks, streams, Emitting
  <1>2. ASSUME conn'.requests = conn.requests, Announcing => conn'.accept PROVE ControlInv'
    BY <1>1, <1>2, ControlQuiet DEF AdmissionInv
  <1>3. CASE QuicFullOrRejected \/ QuicDrain
    <2>1. conn' = Quic!TakeIndication(conn)
      BY <1>3 DEF QuicFullOrRejected, QuicDrain
    <2>2. conn'.requests = conn.requests /\ conn'.accept = conn.accept
      BY <2>1, ConnFacts DEF Quic!TakeIndication, Quic!Connections
    <2> QED BY <1>2, <2>2 DEF AdmissionInv, ControlInv
  <1>4. ASSUME NEW s \in Subgroups, QuicAck(s) PROVE ControlInv'
    <2>1. conn.held[s] > 0 /\ conn.requests = <<>> /\ conn' = Quic!Acknowledge(conn, s)
      BY <1>4 DEF QuicAck, NewInstant
    <2>2. conn'.requests = conn.requests
      BY <2>1, ConnFacts, PublisherLimits, Quic!AcknowledgeEffect
    <2>3. s \in subgroupStreams
      <3>1. Quic!Owed(conn, s) /\ ~Quic!ResetComing(conn.requests, s)
        BY <2>1 DEF Quic!Owed, Quic!ResetComing
      <3> QED BY <3>1 DEF AdmissionInv, Quic!OwedOpen
    <2>4. ~Announcing
      BY <2>3 DEF AdmissionInv, ControlInv
    <2> QED BY <1>2, <2>2, <2>4
  <1>5. CASE QuicHandleRequest
    <2>1. conn.requests # <<>> /\ conn' = Quic!HandleRequest(conn)
      BY <1>5 DEF QuicHandleRequest
    <2>2. conn'.requests = Tail(conn.requests)
      BY <2>1, ConnFacts, PublisherLimits, Quic!HandleEffect
    <2>3. Announcing => conn'.accept
      <3> SUFFICES ASSUME Announcing PROVE conn'.accept
        OBVIOUS
      <3>1. Head(conn.requests).op = "control" /\ conn.accept
        BY <2>1, ConnFacts, Quic!ControlTaken DEF AdmissionInv, ControlInv
      <3> QED BY <2>1, <3>1, ConnFacts, PublisherLimits, Quic!HandleEffect
    <2>4. /\ Quic!AllControl(conn.requests) => Quic!AllControl(conn'.requests)
          /\ Quic!NoControl(conn.requests) => Quic!NoControl(conn'.requests)
          /\ Quic!OnlyLastControl(conn.requests) => Quic!OnlyLastControl(conn'.requests)
      BY <2>1, <2>2, ConnFacts, Quic!ControlTaken
    <2> QED BY <1>1, <2>3, <2>4, ControlQuiet DEF AdmissionInv
  <1> QED BY <1>3, <1>4, <1>5

\* The flush loop, the clock and the steps that start a loop or do nothing.
LEMMA ControlIdle ==
  ASSUME TypeInv, TypeInv', AdmissionInv,
         \/ UNCHANGED vars \/ EndFlush \/ Tick
         \/ \E p \in sendBuffer : DropWithSubgroup(p)
  PROVE  ControlInv'
  <1>1. /\ UNCHANGED <<connected, timerKind, subscriptionsEnded, burst, subgroupStreams, conn>>
        /\ \A t \in Tracks : timer[t] = Off => timer'[t] = Off
        /\ Emitting' => Emitting
        /\ sendBuffer = {} => sendBuffer' = {}
        /\ outstanding = {} => outstanding' = {}
    BY DEF vars, clocks, streams, EndFlush, Flushing, Tick, DropWithSubgroup, Emitting,
           TypeInv, TypeOK, TimersOK
  <1> QED BY <1>1, ControlQuiet DEF AdmissionInv, ControlInv

\* Objects are written, and lost, while the subscriptions last.
LEMMA ControlFlush ==
  ASSUME TypeInv, TypeInv', TeardownInv, AdmissionInv, NEW p \in sendBuffer,
         DropStale(p) \/ WriteChunk(p)
  PROVE  ControlInv'
  <1>1. ~Announcing /\ ~subscriptionsEnded
    BY DEF AdmissionInv, ControlInv, TeardownInv, TeardownClean
  <1>2. UNCHANGED <<connected, timer, timerKind, burst, pc, subscriptionsEnded>>
    BY DEF DropStale, WriteChunk, clocks
  <1>3. Quic!NoControl(conn.requests)
    BY <1>1 DEF AdmissionInv, ControlInv
  <1>4. Quic!NoControl(conn'.requests)
    <2>1. CASE DropStale(p)
      <3>1. conn' = Quic!ResetStreams(conn, TornBy(p))
        BY <2>1 DEF DropStale
      <3>2. TornBy(p) \in SUBSET Subgroups
        BY ObjectFacts DEF TornBy
      <3> QED BY <1>3, <3>1, <3>2, ConnFacts, Quic!ControlAfter
    <2>2. CASE WriteChunk(p)
      <3>1. PICK n \in Nat : conn' = Quic!SendData(conn, Subgroup(p), n)
        BY <2>2, WriteEffect
      <3> DEFINE r == [op |-> "data", on |-> {Subgroup(p)}, len |-> n]
      <3>2. conn'.requests = Append(conn.requests, r) /\ r \in Quic!Requests
        BY <3>1, ConnFacts, Quic!DataSent, ObjectFacts
      <3>3. r.op # "control"
        OBVIOUS
      <3> HIDE DEF r
      <3> QED BY <1>3, <3>2, <3>3, ConnFacts, Quic!ControlAppended
    <2> QED BY <2>1, <2>2
  <1>5. Emitting' => Emitting
    BY <1>2 DEF Emitting
  <1>6. ControlInv
    BY DEF AdmissionInv
  <1>7. /\ \A t \in Tracks : timerKind[t] = "PUB_ANNOUNCE" => timer'[t] = Off
        /\ Emitting' => timerKind[burst'.track] = "SUB_SUCCESS"
    BY <1>1, <1>2, <1>5, <1>6 DEF ControlInv
  <1> QED BY <1>1, <1>2, <1>4, <1>6, <1>7, ControlLater

\* A group is begun, offered object by object, and ended, after the SUBSCRIBE_OK.
LEMMA ControlBurst ==
  ASSUME TypeInv, TypeInv', TeardownInv, AdmissionInv,
         \/ SendObject \/ EndGroup
         \/ \E t \in Tracks : StartGroup(t)
  PROVE  ControlInv'
  <1>0. ControlInv
    BY DEF AdmissionInv
  <1>1. CASE \E t \in Tracks : StartGroup(t)
    <2>1. PICK t \in Tracks : StartGroup(t)
      BY <1>1
    <2>2. /\ timerKind[t] = "SUB_SUCCESS" /\ timer' = [timer EXCEPT ![t] = Off]
          /\ UNCHANGED <<connected, timerKind, subscriptionsEnded, conn>>
          /\ burst'.track = t \/ UNCHANGED <<pc, burst>>
      BY <2>1 DEF StartGroup, GroupBurst
    <2>3. ~Announcing
      BY <2>2 DEF Announcing
    <2>4. /\ \A u \in Tracks : timerKind[u] = "PUB_ANNOUNCE" => timer'[u] = Off
          /\ Emitting' => timerKind[burst'.track] = "SUB_SUCCESS"
      BY <1>0, <2>2, <2>3 DEF ControlInv, Emitting, TypeInv, TypeOK, TimersOK
    <2> QED BY <1>0, <2>2, <2>3, <2>4, ControlLater DEF ControlInv
  <1>2. CASE EndGroup
    <2>1. /\ Emitting /\ ~Emitting' /\ UNCHANGED <<connected, timerKind, subscriptionsEnded, conn>>
          /\ \A u \in Tracks : u # burst.track => timer'[u] = timer[u]
      BY <1>2 DEF EndGroup, Emitting, TypeInv, TypeOK, TimersOK
    <2>2. ~Announcing /\ timerKind[burst.track] = "SUB_SUCCESS"
      BY <1>0, <2>1 DEF ControlInv
    <2>3. \A u \in Tracks : timerKind[u] = "PUB_ANNOUNCE" => timer'[u] = Off
      BY <1>0, <2>1, <2>2 DEF ControlInv
    <2> QED BY <1>0, <2>1, <2>2, <2>3, ControlLater DEF ControlInv
  <1>3. CASE SendObject
    <2>1. /\ Emitting /\ UNCHANGED <<connected, timerKind>> /\ burst'.track = burst.track
      BY <1>3, SendEffect DEF Emitting
    <2>2. ~Announcing /\ timerKind[burst.track] = "SUB_SUCCESS"
      BY <1>0, <2>1 DEF ControlInv
    <2>3. CASE UNCHANGED <<timer, subscriptionsEnded, conn>>
      BY <1>0, <2>1, <2>2, <2>3, ControlLater DEF ControlInv
    <2>4. CASE Terminated
      <3> DEFINE open == subgroupStreams \cup {BurstSubgroup}
                 c    == Quic!ResetStreams(conn, open)
      <3>1. /\ ~subscriptionsEnded /\ subscriptionsEnded'
            /\ timer' = [t \in Tracks |-> Off] /\ conn' = Quic!SendControl(c)
        BY <2>4, OfferedFacts DEF Terminated, Flushed, TerminateSubscriptions, TeardownFrames
      <3>2. open \in SUBSET Subgroups
        BY ObjectFacts DEF TypeInv, TypeOK, StreamsOK
      <3> HIDE DEF open
      <3>3. Quic!NoControl(conn.requests)
        BY <1>0, <2>2, <3>1 DEF ControlInv
      <3>4. c \in Quic!Connections /\ Quic!NoControl(c.requests)
        BY <3>2, <3>3, ConnFacts, Quic!ResetAsked, Quic!ControlAfter
      <3> HIDE DEF c
      <3>5. Quic!OnlyLastControl(conn'.requests)
        BY <3>1, <3>4, Quic!ControlAfter
      <3>6. \A t \in Tracks : timer'[t] = Off
        BY <3>1
      <3> QED BY <1>0, <2>1, <2>2, <3>1, <3>5, <3>6, ControlLater
    <2> QED BY <1>3, <2>3, <2>4, SendEffect DEF Refused, Refuse, Enqueued, Enqueue
  <1> QED BY <1>1, <1>2, <1>3

\* The check for timeouts finds nothing before the first object or after the last.
LEMMA ControlTimeoutCheck ==
  ASSUME TypeInv, TypeInv', TeardownInv, AdmissionInv, TimeoutCheck
  PROVE  ControlInv'
  <1> DEFINE torn == UNION {TornBy(p) : p \in SweptObjects}
             c    == Quic!ResetStreams(conn, ExpiredSubgroups)
  <1>1. /\ conn' = Quic!ResetStreams(c, torn)
        /\ UNCHANGED <<connected, timer, timerKind, subscriptionsEnded, burst>>
        /\ sendBuffer' \subseteq sendBuffer
        /\ subgroupStreams' \subseteq subgroupStreams
        /\ outstanding' = StillOutstanding
        /\ ~Emitting'
    BY DEF TimeoutCheck, ResetForTimeout, Emitting
  <1>2. outstanding' \subseteq outstanding
    BY <1>1 DEF StillOutstanding
  <1>3. torn \in SUBSET Subgroups /\ ExpiredSubgroups \in SUBSET Subgroups
    BY ONLY TypeInv, SweepFacts
  <1>4. sendBuffer = {} => SweptObjects = {}
    BY DEF SweptObjects
  <1>5. outstanding = {} => ExpiredSubgroups = {}
    BY DEF ExpiredSubgroups
  <1>6. sendBuffer = {} /\ outstanding = {} => conn' = conn
    <2> SUFFICES ASSUME sendBuffer = {}, outstanding = {} PROVE conn' = conn
      OBVIOUS
    <2>1. torn = {}
      BY <1>4
    <2>2. c = conn
      BY <1>5 DEF Quic!ResetStreams
    <2> QED BY <1>1, <2>1, <2>2 DEF Quic!ResetStreams
  <1> HIDE DEF torn
  <1>7. Quic!NoControl(conn.requests) => Quic!NoControl(conn'.requests)
    <2>1. /\ c \in Quic!Connections
          /\ Quic!NoControl(conn.requests) => Quic!NoControl(c.requests)
      BY <1>3, ConnFacts, Quic!ResetAsked, Quic!ControlAfter
    <2> HIDE DEF c
    <2> QED BY <1>1, <1>3, <2>1, Quic!ControlAfter
  <1> HIDE DEF c
  <1>8. CASE Announcing \/ subscriptionsEnded
    <2>1. sendBuffer = {} /\ outstanding = {}
      BY <1>8 DEF AdmissionInv, ControlInv, TeardownInv, TeardownClean
    <2> QED BY <1>1, <1>2, <1>6, <2>1, ControlQuiet DEF AdmissionInv, ControlInv
  <1>9. CASE ~Announcing /\ ~subscriptionsEnded
    <2>1. Quic!NoControl(conn'.requests)
      BY <1>7, <1>9 DEF AdmissionInv, ControlInv
    <2> QED BY <1>1, <1>9, <2>1, ControlLater DEF AdmissionInv, ControlInv
  <1> QED BY <1>8, <1>9

\* Until the first SUBSCRIBE_OK, which finds every ANNOUNCE handled.
LEMMA ControlAnnounce ==
  ASSUME TypeInv, TypeInv', AdmissionInv,
         \/ SocketEstablished
         \/ \E t \in Tracks : AnnounceTrack(t) \/ SubscribeOk(t)
  PROVE  ControlInv'
  <1>0. ControlInv
    BY DEF AdmissionInv
  <1>1. CASE SocketEstablished
    <2>1. ~connected /\ UNCHANGED <<timerKind, sendBuffer, outstanding, subgroupStreams,
                                    subscriptionsEnded, pc, burst, conn>>
      BY <1>1 DEF SocketEstablished, streams
    <2>2. Announcing /\ Announcing'
      BY <1>0, <2>1 DEF ControlInv, Announcing
    <2> QED BY <1>0, <2>1, <2>2, ControlConst DEF ControlInv, Emitting
  <1>2. ASSUME NEW t \in Tracks, AnnounceTrack(t) PROVE ControlInv'
    <2>1. /\ timerKind[t] = "PUB_ANNOUNCE" /\ timer[t] = 0 /\ conn' = Quic!SendControl(conn)
          /\ UNCHANGED <<timerKind, sendBuffer, outstanding, subgroupStreams,
                         subscriptionsEnded, pc, burst>>
      BY <1>2 DEF AnnounceTrack, streams
    <2>2. Announcing /\ Announcing'
      BY <1>0, <2>1 DEF ControlInv, Announcing, Off
    <2>3. Quic!AllControl(conn'.requests) /\ conn'.accept
      BY <1>0, <2>1, <2>2, ConnFacts, Quic!ControlAfter, Quic!ControlAsked
         DEF ControlInv, Quic!Asked
    <2> QED BY <1>0, <2>1, <2>2, <2>3, ControlConst DEF ControlInv, Emitting
  <1>3. ASSUME NEW t \in Tracks, SubscribeOk(t) PROVE ControlInv'
    <2>1. /\ connected /\ pc = "idle" /\ conn.requests = <<>>
          /\ \A u \in Tracks : timerKind[u] = "SUB_SUCCESS" \/ timer[u] = Off
          /\ timerKind' = [timerKind EXCEPT ![t] = "SUB_SUCCESS"]
          /\ timer' = [timer EXCEPT ![t] = 0]
          /\ UNCHANGED <<connected, subscriptionsEnded, pc, conn>>
      BY <1>3 DEF SubscribeOk, NewInstant
    <2>2. timerKind'[t] = "SUB_SUCCESS" /\ ~Announcing'
      BY <2>1 DEF TypeInv, TypeOK, TimersOK, Announcing
    <2>3. \A u \in Tracks : timerKind'[u] = "PUB_ANNOUNCE" => timer'[u] = Off
      BY <2>1, <2>2 DEF TypeInv, TypeOK, TimersOK
    <2>4. Quic!NoControl(conn'.requests) /\ Quic!OnlyLastControl(conn'.requests)
      BY <2>1 DEF Quic!NoControl, Quic!OnlyLastControl
    <2> QED BY <2>1, <2>2, <2>3, <2>4, ControlConst DEF ControlInv, Emitting
  <1> QED BY <1>1, <1>2, <1>3

\* AdmissionInv but for ControlInv.
FlowInv ==
  /\ QueueInv
  /\ Emitting => conn.inds = <<>>
  /\ pc = "flush" /\ ~quicBlocked /\ ~conn.accept => SendQueueLimit < LowWaterMark + BytesAtFlush
  /\ Quic!OwedOpen(conn, subgroupStreams)

LEMMA FlowAndControl ==
  /\ AdmissionInv <=> FlowInv /\ ControlInv
  /\ AdmissionInv' <=> FlowInv' /\ ControlInv'
  BY DEF AdmissionInv, FlowInv, QueueInv

\* Handlers that only ask.
LEMMA FlowAsked ==
  ASSUME TypeInv, TypeInv', FlowInv,
         \/ UNCHANGED vars \/ SocketEstablished \/ SendObject \/ EndGroup \/ EndFlush
         \/ TimeoutCheck
         \/ \E t \in Tracks : AnnounceTrack(t) \/ StartGroup(t)
         \/ \E p \in sendBuffer : DropWithSubgroup(p) \/ DropStale(p)
  PROVE  FlowInv'
  <1>1. Quic!Asked(conn, conn') /\ BytesAtFlush' = BytesAtFlush /\ UNCHANGED quicBlocked
    BY ApplicationAsks
  <1>2. QueueInv' /\ conn'.inds = conn.inds /\ conn'.accept = conn.accept
    BY <1>1, QueueAsked DEF FlowInv
  <1>3. Quic!OwedOpen(conn', subgroupStreams')
    BY OwedApplication DEF FlowInv
  <1>4. /\ Emitting' => Emitting \/ conn.inds = <<>>
        /\ pc' = "flush" => pc = "flush" \/ conn.inds = <<>>
    <2>1. CASE \/ UNCHANGED vars \/ SocketEstablished \/ EndGroup \/ EndFlush
               \/ \E p \in sendBuffer : DropWithSubgroup(p) \/ DropStale(p)
               \/ \E t \in Tracks : AnnounceTrack(t)
      BY <2>1 DEF vars, SocketEstablished, EndGroup, EndFlush, DropWithSubgroup, DropStale,
                  AnnounceTrack, Emitting, Flushing
    <2>2. CASE TimeoutCheck \/ \E t \in Tracks : StartGroup(t)
      BY <2>2 DEF TimeoutCheck, StartGroup, TimerMayFire
    <2>3. CASE SendObject
      BY <2>3, SendEffect DEF Emitting, Refused, Refuse, Enqueued, Terminated, Flushed
    <2> QED BY <2>1, <2>2, <2>3
  <1>5. conn.inds = <<>> /\ ~conn.accept => quicBlocked
    BY DEF FlowInv, QueueInv, Quic!Blocks, Quic!FullComing
  <1> QED BY <1>1, <1>2, <1>3, <1>4, <1>5, QueueConst DEF FlowInv

LEMMA FlowWrite ==
  ASSUME TypeInv, TypeInv', TeardownInv, PacingInv, AdmissionInv, NEW p \in sendBuffer,
         WriteChunk(p)
  PROVE  FlowInv'
  <1> DEFINE s == Subgroup(p)
  <1>1. Flushing /\ MayWrite /\ resetSubgroups[s] = "none"
        /\ UNCHANGED <<pc, quicBlocked, subgroupStreams>>
    BY DEF WriteChunk, streams
  <1>2. s \in Subgroups /\ s \in subgroupStreams
    BY <1>1, ObjectFacts DEF TeardownInv, CarriedInv
  <1>3. PICK n \in Nat : /\ conn' = Quic!SendData(conn, s, n)
                         /\ quicBytesThisEvent' = quicBytesThisEvent + n
    BY WriteEffect
  <1> HIDE DEF s
  <1>4. conn.accept /\ Quic!Load(conn) < SendQueueLimit
    BY <1>1, WriteAccepted
  <1>5. BytesAtFlush' = BytesAtFlush + n
    <2>1. quicBytesThisEvent = BytesAtFlush /\ BytesAtFlush \in Nat
      BY <1>1, ConnFacts DEF PacingInv
    <2>2. quicBytesThisEvent' \in Nat /\ quicBytesThisEvent' # NotYet
      BY <1>3, <2>1 DEF NotYet
    <2> QED BY <1>3, <2>1, <2>2 DEF BytesAtFlush
  <1>6. /\ Quic!Admits(conn') /\ Quic!Signals(conn', BytesAtFlush + n)
        /\ Quic!Blocks(conn', quicBlocked) /\ conn'.rejected = conn.rejected
    <2>1. /\ conn \in Quic!Connections /\ BytesAtFlush \in Nat
          /\ Quic!Admits(conn) /\ Quic!Signals(conn, BytesAtFlush)
      BY ConnFacts DEF AdmissionInv
    <2> QED BY ONLY <1>2, <1>3, <1>4, <2>1, PublisherLimits, Quic!AdmitsSent
  <1>7. Quic!OwedOpen(conn', subgroupStreams)
    BY <1>2, <1>3, ConnFacts, Quic!OwedSent DEF AdmissionInv
  <1>8. conn'.inds = conn.inds /\ conn'.accept = conn.accept
    BY <1>2, <1>3, ConnFacts, Quic!DataSent
  <1>9. QueueInv'
    BY <1>1, <1>5, <1>6, QueueConst DEF QueueInv, AdmissionInv, NothingRejected
  <1> QED BY <1>1, <1>4, <1>7, <1>8, <1>9, QueueConst DEF FlowInv, AdmissionInv, Emitting

LEMMA FlowTaken ==
  ASSUME TypeInv, TypeInv', FlowInv, QuicFullOrRejected \/ QuicDrain
  PROVE  FlowInv'
  <1> DEFINE k == IF Head(conn.inds) = "drain" THEN FALSE
                  ELSE quicBlocked \/ Head(conn.inds) = "full"
  <1>1. /\ conn.inds # <<>> /\ conn' = Quic!TakeIndication(conn)
        /\ quicBlocked' = k
        /\ quicBytesThisEvent' \in {quicBytesThisEvent, BytesAtFlush}
        /\ pc' \in {"idle", "flush"} /\ (pc' = "flush" => Head(conn.inds) = "drain")
        /\ UNCHANGED subgroupStreams
    BY DEF QuicFullOrRejected, QuicDrain, streams
  <1>2. BytesAtFlush' = BytesAtFlush
    <2>1. quicBytesThisEvent' = BytesAtFlush => quicBytesThisEvent' # NotYet
      BY ConnFacts DEF NotYet
    <2> QED BY <1>1, <2>1 DEF BytesAtFlush
  <1>3. quicBlocked \in BOOLEAN
    BY DEF TypeInv, TypeOK, QuicOK
  <1>4. /\ Quic!Admits(conn') /\ Quic!Signals(conn', BytesAtFlush) /\ Quic!Blocks(conn', k)
        /\ conn'.rejected = conn.rejected /\ conn'.requests = conn.requests
        /\ conn'.held = conn.held /\ conn'.accept = conn.accept
        /\ Head(conn.inds) = "drain" /\ ~conn.accept => SendQueueLimit < LowWaterMark + BytesAtFlush
    BY <1>1, <1>3, ConnFacts, Quic!AdmitsTaken DEF FlowInv, QueueInv
  <1>5. Quic!OwedOpen(conn', subgroupStreams)
    BY <1>4 DEF FlowInv, Quic!OwedOpen, Quic!Owed
  <1> HIDE DEF k
  <1>6. QueueInv'
    BY <1>1, <1>2, <1>4, QueueConst DEF QueueInv, FlowInv, NothingRejected
  <1> QED BY <1>1, <1>2, <1>4, <1>5, <1>6, QueueConst DEF FlowInv, Emitting

LEMMA FlowHandled ==
  ASSUME TypeInv, TypeInv', TeardownInv, PacingInv, AdmissionInv, QuicHandleRequest
  PROVE  FlowInv'
  <1> DEFINE r == Head(conn.requests)
  <1>1. /\ conn.requests # <<>> /\ conn' = Quic!HandleRequest(conn) /\ pc = "idle"
        /\ UNCHANGED <<pc, quicBlocked, quicBytesThisEvent, subgroupStreams>>
    BY DEF QuicHandleRequest, streams
  <1>2. r.op = "control" => conn.accept
    BY <1>1, ControlAccepted
  <1>3. r.op = "data" => conn.accept
    <2>1. r.op = "data" => 1 \in Quic!DataAt(conn.requests)
      BY <1>1, ConnFacts, Quic!RequestTaken DEF Quic!DataAt
    <2> QED BY <2>1 DEF AdmissionInv, Quic!Admits
  <1>4. r.op \in {"data", "reset", "control"}
    BY <1>1, ConnFacts, Quic!RequestTaken DEF Quic!Requests
  <1>5. /\ Quic!Admits(conn') /\ Quic!Signals(conn', BytesAtFlush)
        /\ Quic!Blocks(conn', quicBlocked) /\ conn'.rejected = conn.rejected
    <2>1. /\ conn \in Quic!Connections /\ BytesAtFlush \in Nat
          /\ Quic!Admits(conn) /\ Quic!Signals(conn, BytesAtFlush) /\ Quic!Blocks(conn, quicBlocked)
          /\ Quic!OneStream(conn.requests) /\ Quic!DataBytes(conn.requests) <= BytesAtFlush
      BY ConnFacts DEF AdmissionInv, PacingInv, Quic!Paced
    <2> QED BY ONLY <1>1, <1>2, <2>1, PublisherLimits, Quic!AdmitsHandled
  <1>6. Quic!OwedOpen(conn', subgroupStreams)
    BY <1>1, <1>2, <1>3, <1>4, ConnFacts, PublisherLimits, Quic!OwedHandled DEF AdmissionInv
  <1>7. BytesAtFlush' = BytesAtFlush
    BY <1>1 DEF BytesAtFlush
  <1>8. QueueInv'
    BY <1>1, <1>5, <1>7, QueueConst DEF QueueInv, AdmissionInv, NothingRejected
  <1> QED BY <1>1, <1>6, <1>8, QueueConst DEF FlowInv, Emitting

\* A new instant: nothing is on its way to QUIC, and no indication is waiting.
LEMMA FlowInstant ==
  ASSUME TypeInv, TypeInv', AdmissionInv,
         \/ Tick
         \/ \E t \in Tracks : SubscribeOk(t)
         \/ \E s \in Subgroups : QuicAck(s)
  PROVE  FlowInv'
  <1>1. /\ NewInstant /\ pc' = "idle" /\ UNCHANGED <<quicBlocked, subgroupStreams>>
    BY DEF Tick, SubscribeOk, QuicAck, NewInstant, streams
  <1>2. /\ conn.requests = <<>> /\ conn.inds = <<>> /\ BytesAtFlush' = 0
    BY <1>1 DEF NewInstant, BytesAtFlush
  <1>3. \/ UNCHANGED conn
        \/ \E s \in Subgroups : conn.held[s] > 0 /\ conn' = Quic!Acknowledge(conn, s)
    BY DEF Tick, SubscribeOk, QuicAck
  <1>4. /\ Quic!Signals(conn, 0)
        /\ Quic!Admits(conn) /\ Quic!Blocks(conn, quicBlocked) /\ Quic!OwedOpen(conn, subgroupStreams)
    BY <1>2 DEF AdmissionInv, Quic!Signals, Quic!DrainComing
  <1>5. /\ Quic!Admits(conn') /\ Quic!Signals(conn', 0) /\ Quic!Blocks(conn', quicBlocked)
        /\ conn'.rejected = conn.rejected /\ Quic!OwedOpen(conn', subgroupStreams)
    <2>1. CASE UNCHANGED conn
      BY <1>4, <2>1
    <2>2. ASSUME NEW s \in Subgroups, conn.held[s] > 0, conn' = Quic!Acknowledge(conn, s)
          PROVE  /\ Quic!Admits(conn') /\ Quic!Signals(conn', 0) /\ Quic!Blocks(conn', quicBlocked)
                 /\ conn'.rejected = conn.rejected /\ Quic!OwedOpen(conn', subgroupStreams)
      <3>1. conn \in Quic!Connections /\ 0 \in Nat
        BY ConnFacts
      <3>2. Quic!OwedOpen(conn', subgroupStreams)
        BY <1>4, <2>2, <3>1, PublisherLimits, Quic!OwedAcknowledged
      <3> QED BY ONLY <1>2, <1>4, <2>2, <3>1, <3>2, PublisherLimits, Quic!AdmitsAcknowledged
    <2> QED BY <1>3, <2>1, <2>2
  <1>6. QueueInv'
    BY <1>1, <1>2, <1>5, QueueConst DEF QueueInv, AdmissionInv, NothingRejected
  <1> QED BY <1>1, <1>5, <1>6, QueueConst DEF FlowInv, Emitting

LEMMA AdmissionInit == Init => AdmissionInv
  <1> SUFFICES ASSUME Init PROVE AdmissionInv
    OBVIOUS
  <1>1. /\ conn.requests = <<>> /\ conn.inds = <<>> /\ conn.held = [s \in Subgroups |-> 0]
        /\ conn.accept = TRUE /\ conn.rejected = {} /\ pc = "idle"
        /\ timerKind = [t \in Tracks |-> "PUB_ANNOUNCE"]
        /\ sendBuffer = {} /\ outstanding = {} /\ subgroupStreams = {}
        /\ subscriptionsEnded = FALSE
    BY DEF Init, Quic!FreshConnection
  <1>2. Quic!DataAt(<<>>) = {} /\ Quic!AllControl(<<>>)
    BY DEF Quic!DataAt, Quic!AllControl
  <1>3. Quic!Admits(conn) /\ Quic!Signals(conn, BytesAtFlush) /\ Quic!Blocks(conn, quicBlocked)
    BY <1>1, <1>2 DEF Quic!Admits, Quic!Signals, Quic!Blocks, Quic!IsLastData, Quic!DrainComing
  <1>4. Quic!OwedOpen(conn, subgroupStreams)
    <2>1. \A s \in Subgroups : ~(conn.held[s] > 0)
      BY <1>1
    <2>2. Quic!DataAt(conn.requests) = {}
      BY <1>1, <1>2
    <2>3. \A s \in Subgroups : ~Quic!Owed(conn, s)
      BY <2>1, <2>2 DEF Quic!Owed
    <2> QED BY <2>3 DEF Quic!OwedOpen
  <1>5. Announcing
    BY <1>1 DEF Announcing
  <1>6. ControlInv
    BY <1>1, <1>2, <1>5 DEF ControlInv, Emitting
  <1> QED BY <1>1, <1>3, <1>4, <1>6 DEF AdmissionInv, Emitting, NothingRejected

LEMMA AdmissionNext ==
  TypeInv /\ TypeInv' /\ TeardownInv /\ PacingInv /\ AdmissionInv /\ [Next]_vars => AdmissionInv'
  <1> SUFFICES ASSUME TypeInv, TypeInv', TeardownInv, PacingInv, AdmissionInv, [Next]_vars
               PROVE  FlowInv' /\ ControlInv'
    BY FlowAndControl
  <1>0. FlowInv
    BY FlowAndControl
  <1>1. CASE \/ SocketEstablished
             \/ \E t \in Tracks : AnnounceTrack(t)
    BY <1>0, <1>1, FlowAsked, ControlAnnounce
  <1>2. CASE \E t \in Tracks : SubscribeOk(t)
    BY <1>2, FlowInstant, ControlAnnounce
  <1>3. CASE \/ SendObject \/ EndGroup
             \/ \E t \in Tracks : StartGroup(t)
    BY <1>0, <1>3, FlowAsked, ControlBurst
  <1>4. CASE \/ UNCHANGED vars \/ EndFlush
             \/ \E p \in sendBuffer : DropWithSubgroup(p)
    BY <1>0, <1>4, FlowAsked, ControlIdle
  <1>5. ASSUME NEW p \in sendBuffer, DropStale(p) PROVE FlowInv' /\ ControlInv'
    BY <1>0, <1>5, FlowAsked, ControlFlush
  <1>6. ASSUME NEW p \in sendBuffer, WriteChunk(p) PROVE FlowInv' /\ ControlInv'
    BY <1>6, FlowWrite, ControlFlush
  <1>7. CASE TimeoutCheck
    BY <1>0, <1>7, FlowAsked, ControlTimeoutCheck
  <1>8. CASE QuicFullOrRejected \/ QuicDrain
    BY <1>0, <1>8, FlowTaken, ControlQuic
  <1>9. CASE QuicHandleRequest
    BY <1>9, FlowHandled, ControlQuic
  <1>10. CASE \E s \in Subgroups : QuicAck(s)
    BY <1>10, FlowInstant, ControlQuic
  <1>11. CASE Tick
    BY <1>11, FlowInstant, ControlIdle
  <1> QED BY <1>1, <1>2, <1>3, <1>4, <1>5, <1>6, <1>7, <1>8, <1>9, <1>10, <1>11
          DEF Next, Application, FlushStep

LEMMA AdmissionInvariant == Spec => []AdmissionInv
  BY TypeInvariant, TeardownInvariant, PacingInvariant, AdmissionInit, AdmissionNext, PTL DEF Spec

\* QUIC discards nothing that the publisher sends.
THEOREM NothingIsRejected == Spec => []NothingRejected
  <1>1. AdmissionInv => NothingRejected
    BY DEF AdmissionInv
  <1> QED BY <1>1, AdmissionInvariant, PTL

============================================================================
