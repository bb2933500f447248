------------------------- MODULE ByteStreamTheorems -------------------------
(* Theorems about bytes on a stream: sequences of them joined and cut, and   *)
(* the receive loop, for every parser that does not change its mind: how the *)
(* bytes are cut into arrivals makes no difference.                          *)
EXTENDS ByteStreams, FiniteSetsExt, SequencesExt, SequenceTheorems, WellFoundedInduction, TLAPS

\* Three sequences can be joined in either order.
Assoc(x, y, z) == (x \o y) \o z = x \o (y \o z)

-----------------------------------------------------------------------------
(* Induction, and the least of a set.                                      *)

\* Every non-empty set of natural numbers has a least element.
LEMMA LeastNat ==
  ASSUME NEW T \in SUBSET Nat, T # {}
  PROVE  \E x \in T : \A y \in T : x <= y
  <1> DEFINE R == {ss \in Nat \X Nat : ss[1] < ss[2]}
  <1>1. IsWellFoundedOn(R, Nat)
    BY NatLessThanWellFounded DEF OpToRel
  <1> HIDE DEF R
  <1>2. PICK x \in T : \A y \in T : <<y, x>> \notin R
    BY <1>1, WFMin
  <1>3. \A y \in T : ~(y < x)
    BY <1>2 DEF R
  <1> QED BY <1>2, <1>3

\* Induction over the natural numbers, for the members of a set.
LEMMA NatInductionOn ==
  ASSUME NEW Good, 0 \in Good, \A n \in Nat : n \in Good => n + 1 \in Good
  PROVE  \A n \in Nat : n \in Good
  <1> DEFINE Bad == {n \in Nat : n \notin Good}
  <1> SUFFICES ASSUME Bad # {} PROVE FALSE
    OBVIOUS
  <1>1. PICK n \in Bad : \A m \in Bad : n <= m
    BY LeastNat
  <1>2. n # 0 /\ n - 1 \in Nat /\ (n - 1) + 1 = n
    BY <1>1
  <1>3. n - 1 \in Good
    BY <1>1, <1>2
  <1> QED BY <1>1, <1>2, <1>3

\* Min returns the least element of a set that has one.
LEMMA MinIs ==
  ASSUME NEW T \in SUBSET Int, NEW m \in T, \A x \in T : m <= x
  PROVE  Min(T) = m
  <1>1. \A x \in T : (\A y \in T : x <= y) => x = m
    OBVIOUS
  <1> QED BY <1>1 DEF Min

-----------------------------------------------------------------------------
(* Sequences of bytes.                                                     *)

\* A byte is a number below 256.
LEMMA ByteIs == \A v \in Byte : v \in Int /\ 0 <= v /\ v <= 255
  BY DEF Byte

\* And only such a number.
LEMMA InByte == \A v \in 0 .. 255 : v \in Byte
  BY DEF Byte

\* And so is each element of a sequence of bytes.
LEMMA BytesAre ==
  ASSUME NEW b \in Bytes
  PROVE  Len(b) \in Nat /\ \A i \in 1 .. Len(b) : b[i] \in Int /\ 0 <= b[i] /\ b[i] <= 255
  <1>1. Len(b) \in Nat /\ \A i \in 1 .. Len(b) : b[i] \in Byte
    BY DEF Bytes
  <1> QED BY <1>1, ByteIs

\* Sequences of bytes joined, two or three of them.
LEMMA BytesJoin ==
  \A x, y \in Bytes : x \o y \in Bytes /\ Len(x \o y) = Len(x) + Len(y)
  BY ConcatProperties DEF Bytes

\* Two sequences of bytes have a concatenation, which is one of bytes.
LEMMA BytesJoined ==
  ASSUME NEW x \in Bytes, NEW y \in Bytes
  PROVE  \E c : c \in Bytes /\ c = x \o y /\ Len(c) = Len(x) + Len(y)
  BY BytesJoin

\* The order of joining does not matter.
LEMMA BytesAssoc ==
  ASSUME NEW x \in Bytes, NEW y \in Bytes, NEW z \in Bytes
  PROVE  Assoc(x, y, z)
  BY ConcatAssociative DEF Bytes, Assoc

\* A run of equal bytes.
LEMMA BytesOf ==
  ASSUME NEW v \in Byte, NEW n \in Nat
  PROVE  [i \in 1 .. n |-> v] \in Bytes /\ Len([i \in 1 .. n |-> v]) = n
  <1> DEFINE z == [i \in 1 .. n |-> v]
  <1>1. z \in [1 .. n -> Byte] /\ DOMAIN z = 1 .. n
    OBVIOUS
  <1> HIDE DEF z
  <1>2. z \in Seq(Byte)
    BY <1>1
  <1>3. Len(z) = n
    BY <1>1, <1>2, LenProperties
  <1> QED BY <1>2, <1>3 DEF z, Bytes

\* The bytes between what is before them and what is behind them.
LEMMA BytesAt ==
  ASSUME NEW x \in Bytes, NEW y \in Bytes, NEW z \in Bytes, NEW k \in 1 .. Len(y)
  PROVE  ((x \o y) \o z)[Len(x) + k] = y[k]
  <1> DEFINE b == (x \o y) \o z
  <1>1. Len(x) \in Nat /\ Len(y) \in Nat /\ Len(z) \in Nat
    BY BytesAre
  <1>2. /\ x \o y \in Bytes /\ Len(x \o y) = Len(x) + Len(y)
        /\ \A i \in 1 .. Len(x) + Len(y) : (x \o y)[i] = IF i <= Len(x) THEN x[i] ELSE y[i - Len(x)]
    BY ConcatProperties DEF Bytes
  <1>3. \A i \in 1 .. Len(x \o y) + Len(z) :
          b[i] = IF i <= Len(x \o y) THEN (x \o y)[i] ELSE z[i - Len(x \o y)]
    BY <1>2, ConcatProperties DEF Bytes
  <1> DEFINE i == Len(x) + k
  <1>4. /\ i \in 1 .. Len(x \o y) + Len(z) /\ i <= Len(x \o y) /\ i \in 1 .. Len(x) + Len(y)
        /\ ~(i <= Len(x)) /\ i - Len(x) = k
    BY <1>1, <1>2
  <1> HIDE DEF i
  <1>5. b[i] = (x \o y)[i] /\ (x \o y)[i] = y[i - Len(x)]
    BY <1>2, <1>3, <1>4
  <1> QED BY <1>4, <1>5 DEF i

\* What is behind a place of a sequence.
LEMMA BehindIs ==
  ASSUME NEW S, NEW a \in Seq(S), NEW i \in 0 .. Len(a)
  PROVE  /\ Behind(a, i) \in Seq(S) /\ Len(Behind(a, i)) = Len(a) - i
         /\ \A k \in 1 .. Len(a) - i : Behind(a, i)[k] = a[i + k]
  <1>1. Len(a) \in Nat /\ i + 1 \in Int /\ \A k \in i + 1 .. Len(a) : a[k] \in S
    OBVIOUS
  <1>2. /\ SubSeq(a, i + 1, Len(a)) \in Seq(S)
        /\ Len(SubSeq(a, i + 1, Len(a))) = IF i + 1 <= Len(a) THEN Len(a) - (i + 1) + 1 ELSE 0
        /\ \A k \in 1 .. Len(a) - (i + 1) + 1 : SubSeq(a, i + 1, Len(a))[k] = a[(i + 1) + k - 1]
    BY <1>1, SubSeqProperties
  <1> QED BY <1>1, <1>2 DEF Behind

\* What is behind a place of what is behind a place.
LEMMA BehindBehind ==
  ASSUME NEW S, NEW a \in Seq(S), NEW i \in 0 .. Len(a), NEW j \in 0 .. Len(a) - i
  PROVE  Behind(Behind(a, i), j) = Behind(a, i + j)
  <1> DEFINE b == Behind(a, i)
             c == Behind(b, j)
             d == Behind(a, i + j)
  <1>0. Len(a) \in Nat /\ i + j \in 0 .. Len(a) /\ Len(a) - (i + j) = Len(a) - i - j
    OBVIOUS
  <1>1. /\ b \in Seq(S) /\ Len(b) = Len(a) - i
        /\ \A k \in 1 .. Len(a) - i : b[k] = a[i + k]
    BY BehindIs, Zenon
  <1> HIDE DEF b, c, d
  <1>2. j \in 0 .. Len(b)
    <2>1. Len(b) = Len(a) - i
      BY <1>1
    <2> QED BY <2>1, Zenon
  <1>3. /\ c \in Seq(S) /\ Len(c) = Len(b) - j
        /\ \A k \in 1 .. Len(b) - j : c[k] = b[j + k]
    BY <1>1, <1>2, BehindIs, ZenonT(30) DEF c
  <1>4. /\ d \in Seq(S) /\ Len(d) = Len(a) - i - j
        /\ \A k \in 1 .. Len(a) - i - j : d[k] = a[i + j + k]
    BY <1>0, BehindIs, ZenonT(30) DEF d
  <1>5. Len(c) = Len(d) /\ \A k \in 1 .. Len(c) : c[k] = d[k]
    BY <1>0, <1>1, <1>3, <1>4
  <1>6. c = d
    BY <1>3, <1>4, <1>5, SeqEqual
  <1> QED BY <1>6 DEF b, c, d

\* What is behind a place in the first part of a concatenation.
LEMMA BehindConcat ==
  ASSUME NEW S, NEW a \in Seq(S), NEW b \in Seq(S), NEW i \in 0 .. Len(a)
  PROVE  Behind(a \o b, i) = Behind(a, i) \o b
  <1> DEFINE c == Behind(a \o b, i)
             e == Behind(a, i)
             d == e \o b
  <1>0. Len(a) \in Nat /\ Len(b) \in Nat
    OBVIOUS
  <1>1. /\ a \o b \in Seq(S) /\ Len(a \o b) = Len(a) + Len(b)
        /\ \A k \in 1 .. Len(a) + Len(b) : (a \o b)[k] = IF k <= Len(a) THEN a[k] ELSE b[k - Len(a)]
    BY ConcatProperties
  <1>2. /\ c \in Seq(S) /\ Len(c) = Len(a) + Len(b) - i
        /\ \A k \in 1 .. Len(a) + Len(b) - i : c[k] = (a \o b)[i + k]
    <2>1. i \in 0 .. Len(a \o b)
      BY <1>0, <1>1
    <2>2. /\ c \in Seq(S) /\ Len(c) = Len(a \o b) - i
          /\ \A k \in 1 .. Len(a \o b) - i : c[k] = (a \o b)[i + k]
      BY <1>1, <2>1, BehindIs, ZenonT(30)
    <2> HIDE DEF c
    <2> QED BY <1>1, <2>2
  <1>3. /\ e \in Seq(S) /\ Len(e) = Len(a) - i
        /\ \A k \in 1 .. Len(a) - i : e[k] = a[i + k]
    BY BehindIs
  <1> HIDE DEF c, e
  <1>4. /\ d \in Seq(S) /\ Len(d) = Len(e) + Len(b)
        /\ \A k \in 1 .. Len(e) + Len(b) : d[k] = IF k <= Len(e) THEN e[k] ELSE b[k - Len(e)]
    BY <1>3, ConcatProperties
  <1> HIDE DEF d
  <1>5. Len(c) = Len(d) /\ \A k \in 1 .. Len(c) : c[k] = d[k]
    BY <1>0, <1>1, <1>2, <1>3, <1>4
  <1>6. c = d
    BY <1>2, <1>4, <1>5, SeqEqual
  <1> QED BY <1>6 DEF c, d, e

\* A sequence is what is between what is before it and what is behind it.
LEMMA MiddleIs ==
  ASSUME NEW S, NEW x \in Seq(S), NEW y \in Seq(S), NEW z \in Seq(S)
  PROVE  SubSeq((x \o y) \o z, Len(x) + 1, Len(x) + Len(y)) = y
  <1> DEFINE a == (x \o y) \o z
             m == SubSeq((x \o y) \o z, Len(x) + 1, Len(x) + Len(y))
  <1>1. Len(x) \in Nat /\ Len(y) \in Nat /\ Len(z) \in Nat
    OBVIOUS
  <1>2. /\ x \o y \in Seq(S) /\ Len(x \o y) = Len(x) + Len(y)
        /\ \A i \in 1 .. Len(x) + Len(y) : (x \o y)[i] = IF i <= Len(x) THEN x[i] ELSE y[i - Len(x)]
    BY ConcatProperties
  <1>3. /\ a \in Seq(S) /\ Len(a) = Len(x \o y) + Len(z)
        /\ \A i \in 1 .. Len(x \o y) + Len(z) :
             a[i] = IF i <= Len(x \o y) THEN (x \o y)[i] ELSE z[i - Len(x \o y)]
    BY <1>2, ConcatProperties
  <1> HIDE DEF a
  <1>4. \A i \in Len(x) + 1 .. Len(x) + Len(y) : a[i] = y[i - Len(x)] /\ a[i] \in S
    <2> TAKE i \in Len(x) + 1 .. Len(x) + Len(y)
    <2>1. i \in 1 .. Len(x) + Len(y) /\ ~(i <= Len(x)) /\ i - Len(x) \in 1 .. Len(y)
          /\ i \in 1 .. Len(x) + Len(y) + Len(z)
      BY <1>1
    <2>2. a[i] = (x \o y)[i] /\ (x \o y)[i] = y[i - Len(x)]
      BY <1>2, <1>3, <2>1
    <2>3. y[i - Len(x)] \in S
      BY <2>1
    <2> QED BY <2>2, <2>3
  <1>5. Len(x) + 1 \in Int /\ Len(x) + Len(y) \in Int
    BY <1>1
  <1>6. /\ SubSeq(a, Len(x) + 1, Len(x) + Len(y)) \in Seq(S)
        /\ Len(SubSeq(a, Len(x) + 1, Len(x) + Len(y))) =
             IF Len(x) + 1 <= Len(x) + Len(y) THEN Len(x) + Len(y) - (Len(x) + 1) + 1 ELSE 0
        /\ \A i \in 1 .. Len(x) + Len(y) - (Len(x) + 1) + 1 :
             SubSeq(a, Len(x) + 1, Len(x) + Len(y))[i] = a[Len(x) + 1 + i - 1]
    BY <1>4, <1>5, SubSeqProperties
  <1>7. m = SubSeq(a, Len(x) + 1, Len(x) + Len(y))
    BY DEF a
  <1> HIDE DEF m
  <1>8. m \in Seq(S) /\ Len(m) = Len(y) /\ \A i \in 1 .. Len(y) : m[i] = a[Len(x) + i]
    <2>1. /\ m \in Seq(S)
          /\ Len(m) = IF Len(x) + 1 <= Len(x) + Len(y)
                      THEN Len(x) + Len(y) - (Len(x) + 1) + 1 ELSE 0
          /\ \A i \in 1 .. Len(x) + Len(y) - (Len(x) + 1) + 1 : m[i] = a[Len(x) + 1 + i - 1]
      BY <1>6, <1>7
    <2> QED BY <1>1, <2>1
  <1>9. \A i \in 1 .. Len(y) : m[i] = y[i]
    <2> TAKE i \in 1 .. Len(y)
    <2>1. Len(x) + i \in Len(x) + 1 .. Len(x) + Len(y) /\ (Len(x) + i) - Len(x) = i
      BY <1>1
    <2> QED BY <1>4, <1>8, <2>1
  <1>10. m = y
    BY <1>8, <1>9, SeqEqual
  <1> QED BY <1>10 DEF m

\* What is behind the first part of a concatenation is the second part.
LEMMA BehindPart ==
  ASSUME NEW S, NEW x \in Seq(S), NEW y \in Seq(S)
  PROVE  Behind(x \o y, Len(x)) = y
  <1>1. <<>> \in Seq(S) /\ x \o y \in Seq(S) /\ (x \o y) \o <<>> = x \o y
    BY ConcatProperties, ConcatEmptySeq
  <1>2. Len(x \o y) = Len(x) + Len(y)
    BY ConcatProperties
  <1> QED BY <1>1, <1>2, MiddleIs DEF Behind

\* Part x of the bytes b, what is before it and what is behind it.
Between(b, p, x, r) == p \in Bytes /\ x \in Bytes /\ r \in Bytes /\ b = (p \o x) \o r

\* The part before x is before what x and what is behind it make.
LEMMA BetweenBack ==
  ASSUME NEW b, NEW q, NEW y, NEW x, NEW r, q \in Bytes, y \in Bytes, Between(b, q \o y, x, r)
  PROVE  \E s : Between(b, q, y, s) /\ s = x \o r
  <1>1. x \in Bytes /\ r \in Bytes /\ b = ((q \o y) \o x) \o r /\ q \o y \in Bytes
    BY DEF Between
  <1>2. PICK p \in Bytes : p = q \o y
    BY <1>1
  <1>3. Assoc(p, x, r)
    BY <1>1, BytesAssoc
  <1>4. x \o r \in Bytes
    BY <1>1, BytesJoin
  <1>5. b = (q \o y) \o (x \o r)
    BY <1>1, <1>2, <1>3 DEF Assoc
  <1> QED BY <1>4, <1>5 DEF Between

\* At most n bytes.
Short(x, n) == x \in Bytes /\ Len(x) <= n

\* Joining adds the lengths.
LEMMA ShortJoin ==
  ASSUME NEW x, NEW y, NEW m \in Nat, NEW n \in Nat, NEW k \in Nat,
         Short(x, m), Short(y, n), m + n <= k
  PROVE  Short(x \o y, k)
  <1>1. x \in Bytes /\ y \in Bytes /\ Len(x) <= m /\ Len(y) <= n
    BY DEF Short
  <1>2. x \o y \in Bytes /\ Len(x \o y) = Len(x) + Len(y) /\ Len(x) \in Nat /\ Len(y) \in Nat
    BY <1>1, BytesJoin, BytesAre
  <1>3. Len(x \o y) <= k
    BY <1>1, <1>2
  <1> QED BY <1>2, <1>3 DEF Short

\* More room does no harm.
LEMMA ShortWithin ==
  ASSUME NEW b, NEW k \in Nat, NEW n \in Nat, Short(b, k), k <= n
  PROVE  Short(b, n)
  <1>1. b \in Bytes /\ Len(b) <= k /\ Len(b) \in Nat
    BY BytesAre DEF Short
  <1> QED BY <1>1 DEF Short

\* Up to four bytes.
LEMMA ShortBytes ==
  ASSUME NEW v \in Byte, NEW w \in Byte, NEW z \in Byte
  PROVE  Short(<<>>, 0) /\ Short(<<v>>, 1) /\ Short(<<v, w>>, 2) /\ Short(<<v, w, z>>, 3)
  <1>1. Len(<<>>) = 0 /\ Len(<<v>>) = 1 /\ Len(<<v, w>>) = 2 /\ Len(<<v, w, z>>) = 3
    OBVIOUS
  <1>2. <<>> \in Seq(Byte) /\ <<v>> \in Seq(Byte)
    OBVIOUS
  <1>3. <<v, w>> \in Seq(Byte)
    OBVIOUS
  <1>4. <<v, w, z>> \in Seq(Byte)
    OBVIOUS
  <1> QED BY <1>1, <1>2, <1>3, <1>4 DEF Short, Bytes

LEMMA ShortEmpty == \A n \in Nat : Short(<<>>, n)
  <1>1. <<>> \in Seq(Byte) /\ Len(<<>>) = 0
    OBVIOUS
  <1> QED BY <1>1 DEF Short, Bytes

LEMMA ShortFour ==
  ASSUME NEW x \in Byte, NEW y \in Byte, NEW z \in Byte, NEW w \in Byte
  PROVE  Short(<<x, y, z, w>>, 4)
  <1>1. <<x, y, z, w>> \in Seq(Byte) /\ Len(<<x, y, z, w>>) = 4
    OBVIOUS
  <1> QED BY <1>1 DEF Short, Bytes

-----------------------------------------------------------------------------
(* The receive loop.                                                       *)

\* The parsers of frames X: they take no more than there is, and more bytes change nothing
\* of a frame that is there whole.
Parsers(X) ==
  {p \in [Bytes -> [consumed : Nat, frames : Seq(X)]] :
     \A b \in Bytes : /\ p[b].consumed <= Len(b)
                      /\ p[b].consumed # 0 => \A c \in Bytes : p[b \o c] = p[b]}

\* What a parser returns.
LEMMA ParserIs ==
  ASSUME NEW X, NEW parse \in Parsers(X), NEW b \in Bytes
  PROVE  /\ parse[b].consumed \in Nat /\ parse[b].frames \in Seq(X)
         /\ parse[b].consumed # 0 => parse[b].consumed \in 1 .. Len(b)
  <1>1. parse[b] \in [consumed : Nat, frames : Seq(X)] /\ parse[b].consumed <= Len(b)
    BY DEF Parsers
  <1>2. Len(b) \in Nat
    BY BytesAre
  <1> QED BY <1>1, <1>2

\* More bytes change nothing of a frame that is there whole.
LEMMA ParserStays ==
  ASSUME NEW X, NEW parse \in Parsers(X), NEW b \in Bytes, NEW c \in Bytes,
         parse[b].consumed # 0
  PROVE  parse[b \o c] = parse[b]
  BY DEF Parsers

\* The step of the loop at place i of the bytes a, where f is what it does later.
Loop(parse, a, i, f) ==
  LET r == parse[Behind(a, i)]
  IN  IF r.consumed = 0 THEN [frames |-> <<>>, buffer |-> Behind(a, i)]
      ELSE [frames |-> r.frames \o f[i + r.consumed].frames,
            buffer |-> f[i + r.consumed].buffer]

\* Parsed is the loop from the first byte.
LEMMA ParsedLoops ==
  ASSUME NEW parse, NEW a
  PROVE  Parsed(parse, a) = (CHOOSE f : f = [i \in 0 .. Len(a) |-> Loop(parse, a, i, f)])[0]
  BY DEF Parsed, Loop

\* The loop moves on, and within the bytes.
LEMMA LoopMoves ==
  ASSUME NEW X, NEW parse \in Parsers(X), NEW a \in Bytes, NEW i \in 0 .. Len(a),
         parse[Behind(a, i)].consumed # 0
  PROVE  /\ parse[Behind(a, i)].consumed \in 1 .. Len(a) - i
         /\ i + parse[Behind(a, i)].consumed \in i + 1 .. Len(a)
  <1> DEFINE b == Behind(a, i)
             c == parse[b].consumed
  <1>1. b \in Bytes /\ Len(b) = Len(a) - i /\ Len(a) \in Nat
    BY BehindIs, BytesAre DEF Bytes
  <1>2. c \in 1 .. Len(b)
    BY <1>1, ParserIs
  <1> HIDE DEF b, c
  <1>3. c \in 1 .. Len(a) - i /\ i + c \in i + 1 .. Len(a)
    BY <1>1, <1>2
  <1> QED BY <1>3 DEF b, c

\* The loop's function exists.
LEMMA LoopExists ==
  ASSUME NEW X, NEW parse \in Parsers(X), NEW a \in Bytes
  PROVE  \E f : f = [i \in 0 .. Len(a) |-> Loop(parse, a, i, f)]
  <1> DEFINE l == Len(a)
             OK(n) == \E f : f = [i \in l - n .. l |-> Loop(parse, a, i, f)]
             Good  == {n \in Nat : n <= l => OK(n)}
  <1>1. l \in Nat
    BY BytesAre
  <1>2. 0 \in Good
    <2> DEFINE f == [i \in l - 0 .. l |-> [frames |-> <<>>, buffer |-> Behind(a, i)]]
    <2>1. ASSUME NEW i \in l - 0 .. l
          PROVE  Loop(parse, a, i, f) = [frames |-> <<>>, buffer |-> Behind(a, i)]
      <3>1. i \in 0 .. Len(a) /\ Len(a) - i = 0
        BY <1>1
      <3>2. parse[Behind(a, i)].consumed = 0
        <4>1. ASSUME parse[Behind(a, i)].consumed # 0 PROVE FALSE
          <5>1. parse[Behind(a, i)].consumed \in 1 .. Len(a) - i
            BY <3>1, <4>1, LoopMoves
          <5> QED BY <3>1, <5>1
        <4> QED BY <4>1
      <3> HIDE DEF f
      <3> QED BY <3>2 DEF Loop
    <2>2. f = [i \in l - 0 .. l |-> Loop(parse, a, i, f)]
      BY <2>1
    <2> QED BY <2>2
  <1>3. ASSUME NEW n \in Nat, n \in Good PROVE n + 1 \in Good
    <2> SUFFICES ASSUME n + 1 <= l PROVE OK(n + 1)
      OBVIOUS
    <2>1. PICK f : f = [i \in l - n .. l |-> Loop(parse, a, i, f)]
      BY <1>1, <1>3
    <2> DEFINE g == [i \in l - (n + 1) .. l |-> Loop(parse, a, i, f)]
    <2>2. \A j \in l - n .. l : j \in l - (n + 1) .. l
      BY <1>1
    <2>3. \A j \in l - n .. l : g[j] = f[j]
      BY <2>1, <2>2
    <2>4. ASSUME NEW i \in l - (n + 1) .. l PROVE Loop(parse, a, i, f) = Loop(parse, a, i, g)
      <3> DEFINE r == parse[Behind(a, i)]
      <3>1. i \in 0 .. Len(a)
        BY <1>1
      <3>2. CASE r.consumed = 0
        BY <3>2 DEF Loop
      <3>3. CASE r.consumed # 0
        <4>1. i + r.consumed \in i + 1 .. Len(a)
          BY <3>1, <3>3, LoopMoves
        <4> HIDE DEF r, g
        <4>2. i + r.consumed \in l - n .. l
          BY <1>1, <4>1
        <4>3. g[i + r.consumed] = f[i + r.consumed]
          BY <2>3, <4>2
        <4> HIDE DEF l
        <4> QED BY <3>3, <4>3 DEF Loop, r
      <3> QED BY <3>2, <3>3
    <2>5. g = [i \in l - (n + 1) .. l |-> Loop(parse, a, i, g)]
      BY <2>4
    <2> QED BY <2>5
  <1> HIDE DEF Good
  <1>4. l \in Good
    BY <1>1, <1>2, <1>3, NatInductionOn
  <1>5. OK(l)
    BY <1>1, <1>4 DEF Good
  <1>6. PICK f : f = [i \in l - l .. l |-> Loop(parse, a, i, f)]
    BY <1>5
  <1>7. l - l = 0
    BY <1>1
  <1> QED BY <1>6, <1>7

\* The loop at place i of a is the loop of what is behind place i.
LEMMA LoopBehind ==
  ASSUME NEW X, NEW parse \in Parsers(X), NEW a \in Bytes, NEW k \in 0 .. Len(a)
  PROVE  \E f : /\ f = [i \in 0 .. Len(a) |-> Loop(parse, a, i, f)]
                /\ f[0] = Parsed(parse, a) /\ f[k] = Parsed(parse, Behind(a, k))
  <1> DEFINE b == Behind(a, k)
             f == CHOOSE x : x = [i \in 0 .. Len(a) |-> Loop(parse, a, i, x)]
             g == CHOOSE x : x = [i \in 0 .. Len(b) |-> Loop(parse, b, i, x)]
             l == Len(b)
  <1>1. b \in Bytes /\ l = Len(a) - k /\ l \in Nat /\ Len(a) \in Nat
    BY BehindIs, BytesAre DEF Bytes
  <1>2. f = [i \in 0 .. Len(a) |-> Loop(parse, a, i, f)]
    BY LoopExists
  <1>3. g = [i \in 0 .. l |-> Loop(parse, b, i, g)]
    <2> HIDE DEF b
    <2> QED BY <1>1, LoopExists
  <1>4. f[0] = Parsed(parse, a) /\ g[0] = Parsed(parse, b)
    BY ParsedLoops
  <1>5. \A j \in 0 .. l : Behind(a, k + j) = Behind(b, j) /\ k + j \in 0 .. Len(a)
    <2> TAKE j \in 0 .. l
    <2>1. j \in 0 .. Len(a) - k /\ k + j \in 0 .. Len(a)
      BY <1>1
    <2>2. a \in Seq(Byte)
      BY DEF Bytes
    <2> QED BY <2>1, <2>2, BehindBehind
  <1> HIDE DEF b, f, g, l
  <1> DEFINE Good == {n \in Nat : \A j \in 0 .. l : l - j <= n => f[k + j] = g[j]}
  <1>6. ASSUME NEW j \in 0 .. l, \A i \in j + 1 .. l : f[k + i] = g[i]
        PROVE  f[k + j] = g[j]
    <2> DEFINE r == parse[Behind(b, j)]
               c == r.consumed
    <2>1. f[k + j] = Loop(parse, a, k + j, f) /\ g[j] = Loop(parse, b, j, g)
      BY <1>2, <1>3, <1>5
    <2>2. Behind(a, k + j) = Behind(b, j)
      BY <1>5
    <2>3. CASE r.consumed = 0
      BY <2>1, <2>2, <2>3 DEF Loop
    <2>4. CASE r.consumed # 0
      <3>1. j + c \in j + 1 .. l /\ c \in 1 .. l - j
        BY <1>1, <2>4, LoopMoves DEF l
      <3>2. f[k + (j + c)] = g[j + c]
        BY <1>6, <3>1
      <3> HIDE DEF c
      <3>3. k + (j + c) = (k + j) + c
        BY <1>1, <3>1
      <3>4. f[(k + j) + c] = g[j + c]
        BY <3>2, <3>3
      <3> QED BY <2>1, <2>2, <2>4, <3>4 DEF Loop, c
    <2> QED BY <2>3, <2>4
  <1>7. 0 \in Good
    <2> SUFFICES ASSUME NEW j \in 0 .. l, l - j <= 0 PROVE f[k + j] = g[j]
      OBVIOUS
    <2>1. \A i \in j + 1 .. l : f[k + i] = g[i]
      BY <1>1
    <2> QED BY <1>6, <2>1
  <1>8. ASSUME NEW n \in Nat, n \in Good PROVE n + 1 \in Good
    <2> SUFFICES ASSUME NEW j \in 0 .. l, l - j <= n + 1 PROVE f[k + j] = g[j]
      OBVIOUS
    <2>1. ASSUME NEW i \in j + 1 .. l PROVE f[k + i] = g[i]
      <3>1. i \in 0 .. l /\ l - i <= n
        BY <1>1
      <3> QED BY <1>8, <3>1
    <2> QED BY <1>6, <2>1
  <1> HIDE DEF Good
  <1>9. l \in Good
    BY <1>1, <1>7, <1>8, NatInductionOn
  <1>10. 0 \in 0 .. l /\ l - 0 <= l
    BY <1>1
  <1>11. f[k + 0] = g[0]
    BY <1>9, <1>10 DEF Good
  <1>12. f[k] = g[0]
    BY <1>11
  <1> QED BY <1>2, <1>4, <1>12 DEF b

\* The loop takes the frames at the front, if there are any whole, and goes on behind it.
LEMMA ParsedStep ==
  ASSUME NEW X, NEW parse \in Parsers(X), NEW a \in Bytes
  PROVE  /\ parse[a].consumed = 0 => Parsed(parse, a) = [frames |-> <<>>, buffer |-> a]
         /\ parse[a].consumed # 0 =>
              LET more == Parsed(parse, Behind(a, parse[a].consumed))
              IN  Parsed(parse, a) = [frames |-> parse[a].frames \o more.frames,
                                      buffer |-> more.buffer]
  <1>1. Len(a) \in Nat /\ 0 \in 0 .. Len(a)
    BY BytesAre
  <1>2. Behind(a, 0) = a
    BY SubSeqFull DEF Bytes, Behind
  <1>3. CASE parse[a].consumed = 0
    <2>1. PICK f : f = [i \in 0 .. Len(a) |-> Loop(parse, a, i, f)] /\ f[0] = Parsed(parse, a)
      BY <1>1, LoopBehind
    <2>2. Parsed(parse, a) = Loop(parse, a, 0, f)
      BY <1>1, <2>1
    <2> QED BY <1>2, <1>3, <2>2 DEF Loop
  <1>4. CASE parse[a].consumed # 0
    <2> DEFINE c == parse[a].consumed
    <2>1. c \in 1 .. Len(a)
      BY <1>4, ParserIs
    <2> HIDE DEF c
    <2>2. c \in 0 .. Len(a) /\ 0 + c = c
      BY <1>1, <2>1
    <2>3. PICK f : /\ f = [i \in 0 .. Len(a) |-> Loop(parse, a, i, f)]
                   /\ f[0] = Parsed(parse, a) /\ f[c] = Parsed(parse, Behind(a, c))
      BY <2>2, LoopBehind
    <2>4. Parsed(parse, a) = Loop(parse, a, 0, f)
      BY <1>1, <2>3
    <2>5. Parsed(parse, a) = [frames |-> parse[a].frames \o f[c].frames, buffer |-> f[c].buffer]
      <3>1. Loop(parse, a, 0, f) = [frames |-> parse[a].frames \o f[0 + c].frames,
                                    buffer |-> f[0 + c].buffer]
        BY <1>2, <1>4 DEF Loop, c
      <3> QED BY <2>2, <2>4, <3>1
    <2> QED BY <1>4, <2>3, <2>5 DEF c
  <1> QED BY <1>3, <1>4

\* What the loop returns: frames and bytes.
LEMMA ParsedIs ==
  ASSUME NEW X, NEW parse \in Parsers(X), NEW a \in Bytes
  PROVE  Parsed(parse, a) \in [frames : Seq(X), buffer : Bytes]
  <1> DEFINE Fine(x) == Parsed(parse, x) \in [frames : Seq(X), buffer : Bytes]
             Good == {n \in Nat : \A x \in Bytes : Len(x) <= n => Fine(x)}
  <1>1. ASSUME NEW x \in Bytes, \A y \in Bytes : Len(y) < Len(x) => Fine(y)
        PROVE  Fine(x)
    <2> DEFINE r == parse[x]
               y == Behind(x, r.consumed)
    <2>1. CASE r.consumed = 0
      <3>1. Parsed(parse, x) = [frames |-> <<>>, buffer |-> x]
        BY <2>1, ParsedStep
      <3>2. <<>> \in Seq(X)
        OBVIOUS
      <3> QED BY <2>1, <3>1, <3>2
    <2>2. CASE r.consumed # 0
      <3>1. r.consumed \in 1 .. Len(x) /\ Len(x) \in Nat
        BY <2>2, ParserIs, BytesAre
      <3>2. y \in Bytes /\ Len(y) = Len(x) - r.consumed
        <4>1. r.consumed \in 0 .. Len(x)
          BY <3>1
        <4> HIDE DEF r
        <4>2. Behind(x, r.consumed) \in Seq(Byte)
              /\ Len(Behind(x, r.consumed)) = Len(x) - r.consumed
          BY <4>1, BehindIs DEF Bytes
        <4> QED BY <4>2 DEF Bytes
      <3>3. Len(y) < Len(x)
        BY <3>1, <3>2
      <3>4. Fine(y)
        BY <1>1, <3>2, <3>3
      <3>5. r.frames \in Seq(X)
        BY ParserIs
      <3>6. Parsed(parse, x) = [frames |-> r.frames \o Parsed(parse, y).frames,
                                buffer |-> Parsed(parse, y).buffer]
        BY <2>2, ParsedStep
      <3> HIDE DEF r, y
      <3>7. r.frames \o Parsed(parse, y).frames \in Seq(X)
        <4>1. r.frames \in Seq(X) /\ Parsed(parse, y).frames \in Seq(X)
          BY <3>4, <3>5
        <4> QED BY <4>1, ConcatProperties
      <3> QED BY <3>4, <3>6, <3>7
    <2> QED BY <2>1, <2>2
  <1> HIDE DEF Fine
  <1>2. 0 \in Good
    <2> SUFFICES ASSUME NEW x \in Bytes, Len(x) <= 0 PROVE Fine(x)
      OBVIOUS
    <2>1. \A y \in Bytes : ~(Len(y) < Len(x))
      BY BytesAre
    <2> QED BY <1>1, <2>1
  <1>3. ASSUME NEW n \in Nat, n \in Good PROVE n + 1 \in Good
    <2> SUFFICES ASSUME NEW x \in Bytes, Len(x) <= n + 1 PROVE Fine(x)
      OBVIOUS
    <2>1. \A y \in Bytes : Len(y) < Len(x) => Len(y) <= n
      BY BytesAre
    <2>2. \A y \in Bytes : Len(y) < Len(x) => Fine(y)
      BY <1>3, <2>1
    <2> QED BY <1>1, <2>2
  <1> HIDE DEF Good
  <1>4. \A n \in Nat : n \in Good
    BY <1>2, <1>3, NatInductionOn
  <1>5. Len(a) \in Nat /\ Len(a) <= Len(a)
    BY BytesAre
  <1>6. Fine(a)
    BY <1>4, <1>5 DEF Good
  <1> QED BY <1>6 DEF Fine

\* Parsing x and then, behind what was left of it, y, is parsing both at once.
LEMMA ParsedCut ==
  ASSUME NEW X, NEW parse \in Parsers(X), NEW a \in Bytes, NEW z \in Bytes
  PROVE  LET rest == Parsed(parse, Parsed(parse, a).buffer \o z)
         IN  Parsed(parse, a \o z) = [frames |-> Parsed(parse, a).frames \o rest.frames,
                                      buffer |-> rest.buffer]
  <1> DEFINE Fine(x) ==
               Parsed(parse, x \o z) =
                 [frames |-> Parsed(parse, x).frames
                             \o Parsed(parse, Parsed(parse, x).buffer \o z).frames,
                  buffer |-> Parsed(parse, Parsed(parse, x).buffer \o z).buffer]
             Good == {n \in Nat : \A x \in Bytes : Len(x) <= n => Fine(x)}
  <1>1. ASSUME NEW x \in Bytes, \A y \in Bytes : Len(y) < Len(x) => Fine(y)
        PROVE  Fine(x)
    <2> DEFINE r == parse[x]
               y == Behind(x, r.consumed)
    <2>0. x \o z \in Bytes
      BY BytesJoin
    <2>1. CASE r.consumed = 0
      <3>1. Parsed(parse, x) = [frames |-> <<>>, buffer |-> x]
        BY <2>1, ParsedStep
      <3>2. Parsed(parse, x).frames = <<>> /\ Parsed(parse, x).buffer = x
        BY <3>1
      <3>3. Parsed(parse, x \o z) \in [frames : Seq(X), buffer : Bytes]
        BY <2>0, ParsedIs
      <3>4. PICK ps \in Seq(X), bs \in Bytes :
              Parsed(parse, x \o z) = [frames |-> ps, buffer |-> bs]
        BY <3>3
      <3>5. <<>> \o ps = ps
        BY ConcatEmptySeq
      <3>6. Parsed(parse, x \o z).frames = ps /\ Parsed(parse, x \o z).buffer = bs
        BY <3>4
      <3> QED BY <3>2, <3>4, <3>5, <3>6
    <2>2. CASE r.consumed # 0
      <3>1. r.consumed \in 1 .. Len(x) /\ Len(x) \in Nat
        BY <2>2, ParserIs, BytesAre
      <3>2. y \in Bytes /\ Len(y) = Len(x) - r.consumed
        <4>1. r.consumed \in 0 .. Len(x)
          BY <3>1
        <4> HIDE DEF r
        <4>2. Behind(x, r.consumed) \in Seq(Byte)
              /\ Len(Behind(x, r.consumed)) = Len(x) - r.consumed
          BY <4>1, BehindIs DEF Bytes
        <4> QED BY <4>2 DEF Bytes
      <3>3. Len(y) < Len(x)
        BY <3>1, <3>2
      <3>4. Fine(y)
        BY <1>1, <3>2, <3>3
      <3>5. parse[x \o z] = r
        BY <2>2, ParserStays
      <3>6. Behind(x \o z, r.consumed) = y \o z
        <4>1. r.consumed \in 0 .. Len(x)
          BY <3>1
        <4> QED BY <4>1, BehindConcat DEF Bytes
      <3>7. Parsed(parse, x \o z) = [frames |-> r.frames \o Parsed(parse, y \o z).frames,
                                     buffer |-> Parsed(parse, y \o z).buffer]
        <4> DEFINE u == x \o z
        <4>1. u \in Bytes /\ parse[u] = r /\ r.consumed # 0 /\ Behind(u, r.consumed) = y \o z
          BY <2>0, <2>2, <3>5, <3>6
        <4> HIDE DEF u, r, y
        <4>2. Parsed(parse, u) =
                [frames |-> parse[u].frames \o Parsed(parse, Behind(u, parse[u].consumed)).frames,
                 buffer |-> Parsed(parse, Behind(u, parse[u].consumed)).buffer]
          BY <4>1, ParsedStep
        <4>3. Parsed(parse, u) = [frames |-> r.frames \o Parsed(parse, y \o z).frames,
                                  buffer |-> Parsed(parse, y \o z).buffer]
          BY <4>1, <4>2
        <4> QED BY <4>3 DEF u
      <3>8. Parsed(parse, x) = [frames |-> r.frames \o Parsed(parse, y).frames,
                                buffer |-> Parsed(parse, y).buffer]
        BY <2>2, ParsedStep
      <3> HIDE DEF r, y
      <3> DEFINE w == Parsed(parse, Parsed(parse, y).buffer \o z)
      <3>9. /\ Parsed(parse, y).frames \in Seq(X) /\ Parsed(parse, y).buffer \in Bytes
            /\ w.frames \in Seq(X)
        <4>1. Parsed(parse, y) \in [frames : Seq(X), buffer : Bytes]
          BY <3>2, ParsedIs
        <4>2. Parsed(parse, y).frames \in Seq(X) /\ Parsed(parse, y).buffer \in Bytes
          BY <4>1
        <4>3. Parsed(parse, y).buffer \o z \in Bytes
          BY <4>2, BytesJoin
        <4>4. w \in [frames : Seq(X), buffer : Bytes]
          BY <4>3, ParsedIs
        <4> HIDE DEF w
        <4> QED BY <4>2, <4>4
      <3>10. Parsed(parse, y \o z)
               = [frames |-> Parsed(parse, y).frames \o w.frames, buffer |-> w.buffer]
        BY <3>4
      <3> HIDE DEF w
      <3>11. /\ Parsed(parse, x).buffer = Parsed(parse, y).buffer
             /\ Parsed(parse, x).frames = r.frames \o Parsed(parse, y).frames
        <4> DEFINE px == Parsed(parse, x)
                   py == Parsed(parse, y)
        <4>1. px = [frames |-> r.frames \o py.frames, buffer |-> py.buffer]
          BY <3>8
        <4> HIDE DEF px, py
        <4>2. px.buffer = py.buffer /\ px.frames = r.frames \o py.frames
          BY <4>1
        <4> QED BY <4>2 DEF px, py
      <3>12. r.frames \in Seq(X)
        BY ParserIs DEF r
      <3>13. (r.frames \o Parsed(parse, y).frames) \o w.frames
               = r.frames \o (Parsed(parse, y).frames \o w.frames)
        <4>1. \A q, s, t \in Seq(X) : (q \o s) \o t = q \o (s \o t)
          BY ConcatAssociative
        <4>2. r.frames \in Seq(X) /\ Parsed(parse, y).frames \in Seq(X)
              /\ w.frames \in Seq(X)
          BY <3>9, <3>12
        <4> QED BY <4>1, <4>2, Zenon
      <3>14. Parsed(parse, x \o z) = [frames |-> r.frames \o (Parsed(parse, y).frames \o w.frames),
                                      buffer |-> w.buffer]
        BY <3>7, <3>10
      <3>15. Parsed(parse, x \o z)
               = [frames |-> Parsed(parse, x).frames \o w.frames, buffer |-> w.buffer]
        BY <3>11, <3>13, <3>14
      <3> QED BY <3>11, <3>15 DEF w
    <2> QED BY <2>1, <2>2
  <1> HIDE DEF Fine
  <1>2. 0 \in Good
    <2> SUFFICES ASSUME NEW x \in Bytes, Len(x) <= 0 PROVE Fine(x)
      OBVIOUS
    <2>1. \A y \in Bytes : ~(Len(y) < Len(x))
      BY BytesAre
    <2> QED BY <1>1, <2>1
  <1>3. ASSUME NEW n \in Nat, n \in Good PROVE n + 1 \in Good
    <2> SUFFICES ASSUME NEW x \in Bytes, Len(x) <= n + 1 PROVE Fine(x)
      OBVIOUS
    <2>1. \A y \in Bytes : Len(y) < Len(x) => Len(y) <= n
      BY BytesAre
    <2>2. \A y \in Bytes : Len(y) < Len(x) => Fine(y)
      BY <1>3, <2>1
    <2> QED BY <1>1, <2>2
  <1> HIDE DEF Good
  <1>4. \A n \in Nat : n \in Good
    BY <1>2, <1>3, NatInductionOn
  <1>5. Len(a) \in Nat /\ Len(a) <= Len(a)
    BY BytesAre
  <1>6. Fine(a)
    BY <1>4, <1>5 DEF Good
  <1> QED BY <1>6 DEF Fine

\* FlattenSeq joins the sequences from the first to the last.
LEMMA FlattenIs ==
  ASSUME NEW ss, Len(ss) \in Nat \ {0}
  PROVE  \E f : /\ f = [i \in 1 .. Len(ss) |-> IF i = 1 THEN ss[i] ELSE f[i - 1] \o ss[i]]
                /\ FlattenSeq(ss) = f[Len(ss)]
  <1> DEFINE Sum(f, i) == IF i = 1 THEN ss[i] ELSE f[i - 1] \o ss[i]
             OK(n) == \E f : f = [i \in 1 .. n |-> Sum(f, i)]
             Good  == {n \in Nat : OK(n)}
  <1>1. 0 \in Good
    <2> DEFINE f == [i \in 1 .. 0 |-> <<>>]
    <2>1. f = [i \in 1 .. 0 |-> Sum(f, i)]
      OBVIOUS
    <2>2. OK(0)
      BY <2>1
    <2> HIDE DEF OK
    <2> QED BY <2>2
  <1>2. ASSUME NEW n \in Nat, n \in Good PROVE n + 1 \in Good
    <2>1. PICK f : f = [i \in 1 .. n |-> Sum(f, i)]
      BY <1>2
    <2> DEFINE g == [i \in 1 .. n + 1 |-> Sum(f, i)]
    <2>2. ASSUME NEW i \in 1 .. n + 1 PROVE Sum(f, i) = Sum(g, i)
      <3>1. CASE i = 1
        BY <3>1
      <3>2. CASE i # 1
        <4>1. i - 1 \in 1 .. n /\ i - 1 \in 1 .. n + 1
          BY <3>2
        <4>2. g[i - 1] = Sum(f, i - 1) /\ f[i - 1] = Sum(f, i - 1)
          BY <2>1, <4>1
        <4> HIDE DEF g
        <4> QED BY <3>2, <4>2
      <3> QED BY <3>1, <3>2
    <2>3. g = [i \in 1 .. n + 1 |-> Sum(g, i)]
      BY <2>2
    <2>4. OK(n + 1)
      BY <2>3, ZenonT(30)
    <2> HIDE DEF OK
    <2> QED BY <2>4
  <1> HIDE DEF Good
  <1>3. Len(ss) \in Good
    BY <1>1, <1>2, NatInductionOn
  <1>4. OK(Len(ss))
    BY <1>3 DEF Good
  <1> DEFINE f == CHOOSE h : h = [i \in 1 .. Len(ss) |-> IF i = 1 THEN ss[i] ELSE h[i - 1] \o ss[i]]
  <1>5. f = [i \in 1 .. Len(ss) |-> IF i = 1 THEN ss[i] ELSE f[i - 1] \o ss[i]]
    BY <1>4
  <1>6. FlattenSeq(ss) = f[Len(ss)]
    BY DEF FlattenSeq
  <1> QED BY <1>5, <1>6

\* The bytes w are read as the frame f, and are no more than it.
Writes(parse, w, f) ==
  w \in Bytes /\ w # <<>> /\ parse[w] = [consumed |-> Len(w), frames |-> <<f>>]

\* A frame alone is read as what it is, and nothing is left.
LEMMA ParsedFrame ==
  ASSUME NEW X, NEW parse \in Parsers(X), NEW w, NEW f \in X, Writes(parse, w, f)
  PROVE  /\ Parsed(parse, <<>>) = [frames |-> <<>>, buffer |-> <<>>]
         /\ Parsed(parse, w) = [frames |-> <<f>>, buffer |-> <<>>]
  <1>1. <<>> \in Bytes /\ Len(<<>>) = 0
    BY DEF Bytes
  <1>2. Parsed(parse, <<>>) = [frames |-> <<>>, buffer |-> <<>>]
    <2>1. ASSUME parse[<<>>].consumed # 0 PROVE FALSE
      <3>1. parse[<<>>].consumed \in 1 .. Len(<<>>)
        BY <1>1, <2>1, ParserIs
      <3> QED BY <1>1, <3>1
    <2> QED BY <1>1, <2>1, ParsedStep
  <1>3. w \in Bytes /\ w # <<>> /\ parse[w] = [consumed |-> Len(w), frames |-> <<f>>]
    BY DEF Writes
  <1>4. w \o <<>> = w
    BY <1>3, ConcatEmptySeq DEF Bytes
  <1>5. Behind(w, Len(w)) = <<>>
    <2>1. Behind(w \o <<>>, Len(w)) = <<>>
      BY <1>1, <1>3, BehindPart DEF Bytes
    <2> QED BY <1>4, <2>1
  <1>6. Len(w) # 0
    BY <1>3, EmptySeq DEF Bytes
  <1>7. parse[w].consumed = Len(w) /\ parse[w].frames = <<f>>
    BY <1>3
  <1>8. Parsed(parse, w) = [frames |-> <<f>> \o Parsed(parse, <<>>).frames,
                            buffer |-> Parsed(parse, <<>>).buffer]
    <2>1. Parsed(parse, w) =
            [frames |-> parse[w].frames \o Parsed(parse, Behind(w, parse[w].consumed)).frames,
             buffer |-> Parsed(parse, Behind(w, parse[w].consumed)).buffer]
      BY <1>3, <1>6, <1>7, ParsedStep
    <2> QED BY <1>5, <1>7, <2>1
  <1>9. <<f>> \o <<>> = <<f>>
    <2>1. <<f>> \in Seq(X)
      OBVIOUS
    <2> QED BY <2>1, ConcatEmptySeq
  <1>10. Parsed(parse, w) = [frames |-> <<f>>, buffer |-> <<>>]
    BY <1>2, <1>8, <1>9
  <1> QED BY <1>2, <1>10

\* A stream of frames, read whole, is the frames written, each once and in order.
THEOREM StreamRead ==
  ASSUME NEW X, NEW parse \in Parsers(X), NEW fs \in Seq(X), NEW ws \in Seq(Bytes),
         Len(ws) = Len(fs), \A i \in 1 .. Len(fs) : Writes(parse, ws[i], fs[i])
  PROVE  /\ FlattenSeq(ws) \in Bytes
         /\ Arrived(parse, <<>>, FlattenSeq(ws)) = [frames |-> fs, buffer |-> <<>>]
  <1> DEFINE n == Len(fs)
  <1>1. n \in Nat /\ Len(ws) = n /\ \A i \in 1 .. n : fs[i] \in X /\ ws[i] \in Bytes
    BY LenProperties
  <1>2. \A i \in 1 .. n : Writes(parse, ws[i], fs[i])
    OBVIOUS
  <1> HIDE DEF n
  <1>4. <<>> \in Bytes /\ \A x \in Bytes : <<>> \o x = x
    BY ConcatEmptySeq DEF Bytes
  <1>5. CASE n = 0
    <2>1. ws = <<>> /\ fs = <<>>
      BY <1>1, <1>5, EmptySeq DEF n
    <2>2. FlattenSeq(ws) = <<>>
      BY <2>1 DEF FlattenSeq
    <2>3. <<>> \o <<>> = <<>>
      BY <1>4
    <2>4. Parsed(parse, <<>>) = [frames |-> <<>>, buffer |-> <<>>]
      <3>1. ASSUME parse[<<>>].consumed # 0 PROVE FALSE
        <4>1. parse[<<>>].consumed \in 1 .. Len(<<>>) /\ Len(<<>>) = 0
          BY <1>4, <3>1, ParserIs
        <4> QED BY <4>1
      <3> QED BY <1>4, <3>1, ParsedStep
    <2> QED BY <1>4, <2>1, <2>2, <2>3, <2>4 DEF Arrived
  <1>6. CASE n # 0
    <2>1. PICK f : /\ f = [i \in 1 .. Len(ws) |-> IF i = 1 THEN ws[i] ELSE f[i - 1] \o ws[i]]
                   /\ FlattenSeq(ws) = f[Len(ws)]
      <3>1. Len(ws) \in Nat \ {0}
        BY <1>1, <1>6
      <3> QED BY <3>1, FlattenIs
    <2> DEFINE OK(i) == /\ f[i] \in Bytes
                        /\ Parsed(parse, f[i]) = [frames |-> SubSeq(fs, 1, i), buffer |-> <<>>]
               Good == {i \in Nat : i + 1 <= n => OK(i + 1)}
    <2>2. n \in Nat /\ 1 \in 1 .. n
      BY <1>1, <1>6
    <2>3. OK(1)
      <3>1. f[1] = ws[1] /\ f[1] \in Bytes /\ fs[1] \in X /\ Writes(parse, ws[1], fs[1])
        BY <1>1, <1>2, <2>1, <2>2
      <3>2. Parsed(parse, f[1]) = [frames |-> <<fs[1]>>, buffer |-> <<>>]
        BY <3>1, ParsedFrame
      <3>3. SubSeq(fs, 1, 1) = <<fs[1]>>
        <4>1. SubSeq(fs, 1, 1) = SubSeq(fs, 1, 1 - 1) \o <<fs[1]>>
          BY <2>2, SubSeqRecursiveSecond DEF n
        <4>2. SubSeq(fs, 1, 1 - 1) = <<>>
          BY SubSeqEmpty
        <4>3. <<fs[1]>> \in Seq(X)
          BY <3>1
        <4> QED BY <4>1, <4>2, <4>3, ConcatEmptySeq
      <3> QED BY <3>1, <3>2, <3>3
    <2>4. ASSUME NEW i \in Nat, i \in Good PROVE i + 1 \in Good
      <3> SUFFICES ASSUME (i + 1) + 1 <= n PROVE OK((i + 1) + 1)
        OBVIOUS
      <3> DEFINE j == i + 1
                 k == (i + 1) + 1
                 w == ws[k]
      <3>1. j \in 1 .. n /\ k \in 1 .. n /\ k # 1 /\ k - 1 = j /\ OK(j)
        BY <2>2, <2>4
      <3>2. f[k] = f[j] \o w /\ fs[k] \in X /\ w \in Bytes /\ Writes(parse, w, fs[k])
        <4>1. f[k] = f[k - 1] \o ws[k]
          BY <1>1, <2>1, <3>1
        <4> HIDE DEF k
        <4> QED BY <1>1, <1>2, <3>1, <4>1
      <3> HIDE DEF j, k, w
      <3>3. Parsed(parse, w) = [frames |-> <<fs[k]>>, buffer |-> <<>>]
        BY <3>2, ParsedFrame
      <3>4. f[j] \in Bytes /\ Parsed(parse, f[j]) = [frames |-> SubSeq(fs, 1, j), buffer |-> <<>>]
        BY <3>1
      <3> DEFINE p == Parsed(parse, f[j])
                 q == Parsed(parse, w)
                 s == SubSeq(fs, 1, j)
      <3>5. p.frames = s /\ p.buffer = <<>> /\ q.frames = <<fs[k]>> /\ q.buffer = <<>>
        <4>1. p = [frames |-> s, buffer |-> <<>>] /\ q = [frames |-> <<fs[k]>>, buffer |-> <<>>]
          BY <3>3, <3>4
        <4> HIDE DEF p, q, s
        <4> QED BY <4>1
      <3>6. Parsed(parse, f[j] \o w) = [frames |-> p.frames \o Parsed(parse, p.buffer \o w).frames,
                                        buffer |-> Parsed(parse, p.buffer \o w).buffer]
        BY <3>2, <3>4, ParsedCut
      <3> HIDE DEF p, s
      <3>7. p.buffer \o w = w
        BY <1>4, <3>2, <3>5
      <3>8. Parsed(parse, f[k]) = [frames |-> s \o <<fs[k]>>, buffer |-> <<>>]
        BY <3>2, <3>5, <3>6, <3>7
      <3>9. s \o <<fs[k]>> = SubSeq(fs, 1, k)
        <4>1. 1 \in 1 .. Len(fs) /\ k \in 1 .. Len(fs)
          BY <2>2, <3>1 DEF n
        <4>2. SubSeq(fs, 1, k) = SubSeq(fs, 1, k - 1) \o <<fs[k]>>
          BY <4>1, SubSeqRecursiveSecond
        <4> QED BY <3>1, <4>2 DEF s
      <3>10. f[k] \in Bytes
        BY <3>2, <3>4, BytesJoin
      <3> QED BY <3>8, <3>9, <3>10 DEF k
    <2>5. 0 \in Good
      BY <2>2, <2>3
    <2> HIDE DEF Good, OK
    <2>6. \A i \in Nat : i \in Good
      BY <2>4, <2>5, NatInductionOn
    <2>7. OK(n)
      <3>1. n - 1 \in Good /\ (n - 1) + 1 = n
        BY <2>2, <2>6
      <3> QED BY <2>2, <3>1 DEF Good
    <2>8. SubSeq(fs, 1, n) = fs
      BY SubSeqFull DEF n
    <2>9. f[n] \in Bytes /\ Parsed(parse, f[n]) = [frames |-> fs, buffer |-> <<>>]
      BY <2>7, <2>8 DEF OK
    <2>10. <<>> \o f[n] = f[n]
      BY <1>4, <2>9
    <2> QED BY <1>1, <2>1, <2>9, <2>10 DEF Arrived
  <1> QED BY <1>5, <1>6

\* Bytes are what is before place k and what is behind it.
LEMMA BytesSplit ==
  ASSUME NEW b \in Bytes, NEW k \in Nat, k <= Len(b)
  PROVE  LET x == SubSeq(b, 1, k)
             y == SubSeq(b, k + 1, Len(b))
         IN  x \o y = b /\ x \in Bytes /\ y \in Bytes
  <1>1. Len(b) \in Nat /\ \A i \in 1 .. Len(b) : b[i] \in Byte
    BY DEF Bytes
  <1>2. /\ 1 \in 1 .. Len(b) + 1 /\ k \in 1 - 1 .. Len(b) /\ Len(b) \in k .. Len(b)
        /\ 1 \in Int /\ k \in Int /\ k + 1 \in Int /\ Len(b) \in Int
    BY <1>1
  <1>3. SubSeq(b, 1, k) \o SubSeq(b, k + 1, Len(b)) = SubSeq(b, 1, Len(b))
    BY <1>2, ConcatAdjacentSubSeq DEF Bytes
  <1>4. SubSeq(b, 1, Len(b)) = b
    BY SubSeqFull DEF Bytes
  <1>5. (\A i \in 1 .. k : b[i] \in Byte) /\ \A i \in k + 1 .. Len(b) : b[i] \in Byte
    BY <1>1
  <1>6. SubSeq(b, 1, k) \in Seq(Byte) /\ SubSeq(b, k + 1, Len(b)) \in Seq(Byte)
    BY <1>2, <1>5, SubSeqProperties
  <1> QED BY <1>3, <1>4, <1>6 DEF Bytes

\* Behind the bytes of a buffer, x and then y are read as both at once.
THEOREM ArrivalsCut ==
  ASSUME NEW X, NEW parse \in Parsers(X), NEW b \in Bytes, NEW x \in Bytes, NEW y \in Bytes
  PROVE  LET first == Arrived(parse, b, x)
             rest  == Arrived(parse, first.buffer, y)
         IN  Arrived(parse, b, x \o y)
               = [frames |-> first.frames \o rest.frames, buffer |-> rest.buffer]
  <1>1. Assoc(b, x, y)
    BY BytesAssoc
  <1> DEFINE a == b \o x
  <1>2. a \in Bytes
    BY BytesJoin
  <1>3. a \o y = b \o (x \o y)
    BY <1>1 DEF Assoc
  <1> HIDE DEF a
  <1>4. LET rest == Parsed(parse, Parsed(parse, a).buffer \o y)
        IN  Parsed(parse, a \o y)
              = [frames |-> Parsed(parse, a).frames \o rest.frames, buffer |-> rest.buffer]
    BY <1>2, ParsedCut
  <1>5. Arrived(parse, b, x) = Parsed(parse, a) /\ Arrived(parse, b, x \o y) = Parsed(parse, a \o y)
    BY <1>3 DEF Arrived, a
  <1> QED BY <1>4, <1>5 DEF Arrived

\* And from the first byte.
LEMMA FirstArrivals ==
  ASSUME NEW X, NEW parse \in Parsers(X), NEW x \in Bytes, NEW y \in Bytes
  PROVE  LET first == Arrived(parse, <<>>, x)
             rest  == Arrived(parse, first.buffer, y)
         IN  Arrived(parse, <<>>, x \o y)
               = [frames |-> first.frames \o rest.frames, buffer |-> rest.buffer]
  <1>1. <<>> \in Bytes
    BY DEF Bytes
  <1> QED BY <1>1, ArrivalsCut

\* However a stream of frames is cut in two, the frames written are read, each once and in
\* order, and nothing is left.
THEOREM StreamCut ==
  ASSUME NEW X, NEW parse \in Parsers(X), NEW fs \in Seq(X), NEW bytes \in Bytes,
         Arrived(parse, <<>>, bytes) = [frames |-> fs, buffer |-> <<>>],
         NEW k \in Nat, k <= Len(bytes)
  PROVE  LET first == Arrived(parse, <<>>, SubSeq(bytes, 1, k))
             rest  == Arrived(parse, first.buffer, SubSeq(bytes, k + 1, Len(bytes)))
         IN  first.frames \o rest.frames = fs /\ rest.buffer = <<>>
  <1> DEFINE x     == SubSeq(bytes, 1, k)
             y     == SubSeq(bytes, k + 1, Len(bytes))
             first == Arrived(parse, <<>>, x)
             rest  == Arrived(parse, first.buffer, y)
  <1>1. x \o y = bytes /\ x \in Bytes /\ y \in Bytes
    BY BytesSplit
  <1> HIDE DEF x, y
  <1>2. Arrived(parse, <<>>, x \o y)
          = [frames |-> first.frames \o rest.frames, buffer |-> rest.buffer]
    BY <1>1, FirstArrivals
  <1> HIDE DEF first, rest
  <1> DEFINE qs == first.frames \o rest.frames
             bs == rest.buffer
  <1>3. [frames |-> qs, buffer |-> bs] = [frames |-> fs, buffer |-> <<>>]
    BY <1>1, <1>2
  <1> HIDE DEF qs, bs
  <1>4. qs = fs /\ bs = <<>>
    BY <1>3
  <1> QED BY <1>4 DEF qs, bs, first, rest, x, y
=============================================================================
