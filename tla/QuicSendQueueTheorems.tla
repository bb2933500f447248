---------------------- MODULE QuicSendQueueTheorems ----------------------
(* Lemmas about QuicSendQueue, for every set of streams and every limit, in *)
(* the terms that the applications' proofs need: what each operation does   *)
(* to the occupancy, to the requests on their way and to the indications,   *)
(* and when QUIC admits every write.  MoqPublisher and MoqRelay instantiate *)
(* this module, so that the lemmas speak of their connections.              *)
EXTENDS QuicSendQueue, FiniteSetTheorems, FunctionTheorems, SequenceTheorems,
        WellFoundedInduction, TLAPS

\* What the applications' configurations grant: the lemmas assume it by name.
QueueLimits ==
  /\ IsFiniteSet(Streams)
  /\ SendQueueLimit \in Nat \ {0} /\ LowWaterMark \in 1 .. SendQueueLimit

-----------------------------------------------------------------------------
(* Induction.                                                              *)

\* Every non-empty set of natural numbers has a least element.
LEMMA LeastNat ==
  ASSUME NEW T \in SUBSET Nat, T # {}
  PROVE  \E x \in T : \A y \in T : x <= y
  <1> DEFINE R == {ss \in Nat \X Nat : ss[1] < ss[2]}
  <1>1. IsWellFoundedOn(R, Nat)
    BY NatLessThanWellFounded DEF OpToRel
  <1> HIDE DEF R
  <1>2. PICK x \in T : \A y \in T : <<y, x>> \notin R
    BY <1>1, WFMin
  <1>3. \A y \in T : ~(y < x)
    BY <1>2 DEF R
  <1> QED BY <1>2, <1>3

\* Induction over the natural numbers, for the members of a set.
LEMMA NatInductionOn ==
  ASSUME NEW Good, 0 \in Good, \A n \in Nat : n \in Good => n + 1 \in Good
  PROVE  \A n \in Nat : n \in Good
  <1> DEFINE Bad == {n \in Nat : n \notin Good}
  <1> SUFFICES ASSUME Bad # {} PROVE FALSE
    OBVIOUS
  <1>1. PICK n \in Bad : \A m \in Bad : n <= m
    BY LeastNat
  <1>2. n # 0 /\ n - 1 \in Nat /\ (n - 1) + 1 = n
    BY <1>1
  <1>3. n - 1 \in Good
    BY <1>1, <1>2
  <1> QED BY <1>1, <1>2, <1>3

\* Induction over the subsets of a finite set: what holds of a subset when it
\* holds of it without any one of its elements holds of all.
LEMMA SubsetInduction ==
  ASSUME NEW S, IsFiniteSet(S), NEW Good,
         \A T \in SUBSET S : (\A x \in T : T \ {x} \in Good) => T \in Good
  PROVE  \A T \in SUBSET S : T \in Good
  <1> DEFINE Bad   == {T \in SUBSET S : T \notin Good}
             Sizes == {Cardinality(T) : T \in Bad}
  <1>1. \A T \in SUBSET S : IsFiniteSet(T) /\ Cardinality(T) \in Nat
    BY FS_Subset, FS_CardinalityType
  <1> SUFFICES ASSUME Bad # {} PROVE FALSE
    OBVIOUS
  <1>2. Sizes \in SUBSET Nat /\ Sizes # {}
    BY <1>1
  <1>3. PICK n \in Sizes : \A m \in Sizes : n <= m
    BY <1>2, LeastNat
  <1>4. PICK T \in Bad : Cardinality(T) = n
    BY <1>3
  <1>5. ASSUME NEW x \in T PROVE T \ {x} \in Good
    <2>1. Cardinality(T \ {x}) = n - 1
      BY <1>1, <1>4, FS_RemoveElement
    <2>2. T \ {x} \in Bad => n <= n - 1
      BY <1>3, <2>1
    <2> QED BY <1>1, <1>4, <2>2
  <1> QED BY <1>4, <1>5

-----------------------------------------------------------------------------
(* The recursion defines the sum.                                          *)

\* One step of the recursion: the value at s, given the values at its subsets.
SumStep(f, s, g) ==
  IF s = {} THEN 0
  ELSE f[CHOOSE x \in s : TRUE] + g[s \ {CHOOSE x \in s : TRUE}]

\* A function that satisfies the recursion exists: it is extended from the
\* subsets of n - 1 elements to those of n.
LEMMA SumExists ==
  ASSUME NEW S, IsFiniteSet(S), NEW f
  PROVE  \E g : g = [s \in SUBSET S |-> SumStep(f, s, g)]
  <1> DEFINE D(n)  == {s \in SUBSET S : Cardinality(s) <= n}
             OK(n) == \E g : g = [s \in D(n) |-> SumStep(f, s, g)]
             Good  == {n \in Nat : OK(n)}
  <1>1. \A T \in SUBSET S : /\ IsFiniteSet(T) /\ Cardinality(T) \in Nat
                            /\ Cardinality(T) <= Cardinality(S)
    BY FS_Subset, FS_CardinalityType
  <1>2. \A T \in SUBSET S : Cardinality(T) = 0 => T = {}
    BY <1>1, FS_EmptySet
  <1>3. OK(0)
    <2> DEFINE g == [s \in D(0) |-> 0]
    <2>1. \A s \in D(0) : SumStep(f, s, g) = 0
      BY <1>1, <1>2 DEF SumStep
    <2>2. g = [s \in D(0) |-> SumStep(f, s, g)]
      BY <2>1
    <2> QED BY <2>2
  <1>4. ASSUME NEW n \in Nat, OK(n) PROVE OK(n + 1)
    <2>1. PICK g : g = [s \in D(n) |-> SumStep(f, s, g)]
      BY <1>4
    <2> DEFINE h == [s \in D(n + 1) |-> SumStep(f, s, g)]
    <2>2. ASSUME NEW s \in D(n + 1) PROVE SumStep(f, s, g) = SumStep(f, s, h)
      <3>1. CASE s = {}
        BY <3>1 DEF SumStep
      <3>2. CASE s # {}
        <4> DEFINE c == CHOOSE x \in s : TRUE
        <4>1. c \in s
          BY <3>2
        <4>2. s \ {c} \in D(n) /\ s \ {c} \in D(n + 1)
          <5>1. Cardinality(s \ {c}) = Cardinality(s) - 1
            BY <1>1, <4>1, FS_RemoveElement
          <5> QED BY <1>1, <5>1
        <4>3. h[s \ {c}] = SumStep(f, s \ {c}, g)
          BY <4>2
        <4> HIDE DEF h
        <4>4. g[s \ {c}] = SumStep(f, s \ {c}, g)
          BY <4>2, <2>1
        <4> QED BY <4>3, <4>4 DEF SumStep
      <3> QED BY <3>1, <3>2
    <2>3. h = [s \in D(n + 1) |-> SumStep(f, s, h)]
      BY <2>2
    <2> QED BY <2>3
  <1>5. \A n \in Nat : n \in Good
    <2>1. \A n \in Nat : n \in Good <=> OK(n)
      OBVIOUS
    <2> HIDE DEF Good, OK
    <2> QED BY <1>3, <1>4, <2>1, NatInductionOn
  <1>6. D(Cardinality(S)) = SUBSET S
    BY <1>1
  <1>7. OK(Cardinality(S))
    BY <1>1, <1>5
  <1> QED BY <1>6, <1>7

LEMMA SumUnfold ==
  ASSUME NEW S, IsFiniteSet(S), NEW f
  PROVE  \E g : /\ g = [s \in SUBSET S |-> SumStep(f, s, g)]
                /\ SumFunctionOnSet(f, S) = g[S]
  <1> DEFINE g == CHOOSE h : h = [s \in SUBSET S |-> SumStep(f, s, h)]
  <1>1. g = [s \in SUBSET S |-> SumStep(f, s, g)]
    BY SumExists
  <1>2. SumFunctionOnSet(f, S) = g[S]
    BY DEF SumFunctionOnSet, FoldFunctionOnSet, MapThenFoldSet, SumStep
  <1> QED BY <1>1, <1>2

\* The sum over a subset is the value of the recursion there.
LEMMA SumOfSubset ==
  ASSUME NEW S, IsFiniteSet(S), NEW f, NEW g, g = [s \in SUBSET S |-> SumStep(f, s, g)]
  PROVE  \A T \in SUBSET S : SumFunctionOnSet(f, T) = g[T]
  <1> SUFFICES ASSUME NEW T \in SUBSET S PROVE SumFunctionOnSet(f, T) = g[T]
    OBVIOUS
  <1>1. IsFiniteSet(T)
    BY FS_Subset
  <1>2. PICK h : /\ h = [s \in SUBSET T |-> SumStep(f, s, h)]
                 /\ SumFunctionOnSet(f, T) = h[T]
    BY <1>1, SumUnfold
  <1> DEFINE Good == {s \in SUBSET T : g[s] = h[s]}
  <1>3. ASSUME NEW s \in SUBSET T, \A x \in s : s \ {x} \in Good PROVE s \in Good
    <2>1. g[s] = SumStep(f, s, g) /\ h[s] = SumStep(f, s, h)
      BY <1>2
    <2>2. CASE s = {}
      BY <2>1, <2>2 DEF SumStep
    <2>3. CASE s # {}
      <3>1. (CHOOSE x \in s : TRUE) \in s
        BY <2>3
      <3>2. g[s \ {CHOOSE x \in s : TRUE}] = h[s \ {CHOOSE x \in s : TRUE}]
        BY <1>3, <3>1
      <3> QED BY <2>1, <3>2 DEF SumStep
    <2> QED BY <2>2, <2>3
  <1>4. T \in Good
    <2> HIDE DEF Good
    <2> QED BY <1>1, <1>3, SubsetInduction
  <1> QED BY <1>2, <1>4

-----------------------------------------------------------------------------
(* The facts.                                                              *)

\* The sum over the empty set; and one element taken out, the one the
\* recursion chooses.
LEMMA SumEmpty == \A f : SumFunctionOnSet(f, {}) = 0
  <1> TAKE f
  <1>1. PICK g : /\ g = [s \in SUBSET {} |-> SumStep(f, s, g)]
                 /\ SumFunctionOnSet(f, {}) = g[{}]
    BY SumUnfold, FS_EmptySet
  <1> QED BY <1>1 DEF SumStep

LEMMA SumChosen ==
  ASSUME NEW S, IsFiniteSet(S), NEW f, S # {}
  PROVE  \E c \in S : SumFunctionOnSet(f, S) = f[c] + SumFunctionOnSet(f, S \ {c})
  <1> DEFINE c == CHOOSE x \in S : TRUE
  <1>1. PICK g : /\ g = [s \in SUBSET S |-> SumStep(f, s, g)]
                 /\ SumFunctionOnSet(f, S) = g[S]
    BY SumUnfold
  <1>2. c \in S
    OBVIOUS
  <1>3. g[S] = SumStep(f, S, g)
    BY <1>1
  <1> HIDE DEF c
  <1>4. SumFunctionOnSet(f, S \ {c}) = g[S \ {c}]
    <2>1. \A T \in SUBSET S : SumFunctionOnSet(f, T) = g[T]
      BY <1>1, SumOfSubset
    <2> QED BY <2>1
  <1>5. g[S] = f[c] + g[S \ {c}]
    BY <1>3 DEF SumStep, c
  <1> QED BY <1>1, <1>2, <1>4, <1>5

\* The sum of integers is an integer, that of natural numbers a natural number.
LEMMA SumInt ==
  ASSUME NEW S, IsFiniteSet(S), NEW f, \A x \in S : f[x] \in Int
  PROVE  SumFunctionOnSet(f, S) \in Int
  <1> DEFINE Good == {T \in SUBSET S : SumFunctionOnSet(f, T) \in Int}
  <1>1. ASSUME NEW T \in SUBSET S, \A x \in T : T \ {x} \in Good PROVE T \in Good
    <2>1. CASE T = {}
      BY <2>1, SumEmpty
    <2>2. CASE T # {}
      <3>1. PICK c \in T : SumFunctionOnSet(f, T) = f[c] + SumFunctionOnSet(f, T \ {c})
        BY <2>2, SumChosen, FS_Subset
      <3> QED BY <1>1, <3>1
    <2> QED BY <2>1, <2>2
  <1>2. S \in Good
    <2> HIDE DEF Good
    <2>1. \A T \in SUBSET S : (\A x \in T : T \ {x} \in Good) => T \in Good
      BY <1>1
    <2> QED BY ONLY <2>1, IsFiniteSet(S), SubsetInduction
  <1> QED BY <1>2

LEMMA SumNat ==
  ASSUME NEW S, IsFiniteSet(S), NEW f, \A x \in S : f[x] \in Nat
  PROVE  SumFunctionOnSet(f, S) \in Nat
  <1> DEFINE Good == {T \in SUBSET S : SumFunctionOnSet(f, T) \in Nat}
  <1>1. ASSUME NEW T \in SUBSET S, \A x \in T : T \ {x} \in Good PROVE T \in Good
    <2>1. CASE T = {}
      BY <2>1, SumEmpty
    <2>2. CASE T # {}
      <3>1. PICK c \in T : SumFunctionOnSet(f, T) = f[c] + SumFunctionOnSet(f, T \ {c})
        BY <2>2, SumChosen, FS_Subset
      <3> QED BY <1>1, <3>1
    <2> QED BY <2>1, <2>2
  <1>2. S \in Good
    <2> HIDE DEF Good
    <2>1. \A T \in SUBSET S : (\A x \in T : T \ {x} \in Good) => T \in Good
      BY <1>1
    <2> QED BY ONLY <2>1, IsFiniteSet(S), SubsetInduction
  <1> QED BY <1>2

\* Any element may be taken out first: the order does not matter.
LEMMA SumRemove ==
  ASSUME NEW S, IsFiniteSet(S), NEW f, \A x \in S : f[x] \in Int
  PROVE  \A x \in S : SumFunctionOnSet(f, S) = f[x] + SumFunctionOnSet(f, S \ {x})
  <1> DEFINE Sum(T) == SumFunctionOnSet(f, T)
             Good   == {T \in SUBSET S : \A x \in T : Sum(T) = f[x] + Sum(T \ {x})}
  <1>0. \A T \in SUBSET S : IsFiniteSet(T) /\ Sum(T) \in Int
    BY SumInt, FS_Subset
  <1>1. ASSUME NEW T \in SUBSET S, \A x \in T : T \ {x} \in Good PROVE T \in Good
    <2> SUFFICES ASSUME NEW x \in T PROVE Sum(T) = f[x] + Sum(T \ {x})
      OBVIOUS
    <2>1. PICK c \in T : Sum(T) = f[c] + Sum(T \ {c})
      BY <1>0, SumChosen
    <2>2. CASE x # c
      <3>1. Sum(T \ {c}) = f[x] + Sum((T \ {c}) \ {x})
        BY <1>1, <2>2
      <3>2. Sum(T \ {x}) = f[c] + Sum((T \ {x}) \ {c})
        BY <1>1, <2>2
      <3>3. Sum((T \ {x}) \ {c}) = Sum((T \ {c}) \ {x})
        <4>1. (T \ {x}) \ {c} = (T \ {c}) \ {x}
          OBVIOUS
        <4> QED BY <4>1
      <3>4. /\ Sum((T \ {c}) \ {x}) \in Int /\ Sum(T) \in Int /\ Sum(T \ {x}) \in Int
            /\ Sum(T \ {c}) \in Int /\ f[x] \in Int /\ f[c] \in Int
        BY <1>0
      <3> HIDE DEF Sum
      <3> QED BY <2>1, <3>1, <3>2, <3>3, <3>4
    <2> QED BY <2>1, <2>2
  <1>2. S \in Good
    <2> HIDE DEF Good
    <2>1. \A T \in SUBSET S : (\A x \in T : T \ {x} \in Good) => T \in Good
      BY <1>1
    <2> QED BY ONLY <2>1, IsFiniteSet(S), SubsetInduction
  <1> QED BY <1>2

\* The sums of functions that agree, and that compare, element by element.
LEMMA SumSame ==
  ASSUME NEW S, IsFiniteSet(S), NEW f, NEW g, \A x \in S : f[x] = g[x]
  PROVE  SumFunctionOnSet(f, S) = SumFunctionOnSet(g, S)
  <1>1. PICK k : /\ k = [s \in SUBSET S |-> SumStep(f, s, k)]
                 /\ SumFunctionOnSet(f, S) = k[S]
    BY SumUnfold
  <1>2. \A s \in SUBSET S : SumStep(f, s, k) = SumStep(g, s, k)
    <2> TAKE s \in SUBSET S
    <2>1. s # {} => (CHOOSE x \in s : TRUE) \in S
      OBVIOUS
    <2> QED BY <2>1 DEF SumStep
  <1>3. k = [s \in SUBSET S |-> SumStep(g, s, k)]
    BY <1>1, <1>2
  <1> QED BY <1>1, <1>3, SumOfSubset

LEMMA SumCompare ==
  ASSUME NEW S, IsFiniteSet(S), NEW f, NEW g,
         \A x \in S : f[x] \in Int /\ g[x] \in Int /\ f[x] <= g[x]
  PROVE  SumFunctionOnSet(f, S) <= SumFunctionOnSet(g, S)
  <1> DEFINE Good == {T \in SUBSET S : SumFunctionOnSet(f, T) <= SumFunctionOnSet(g, T)}
  <1>0. \A T \in SUBSET S : /\ IsFiniteSet(T) /\ SumFunctionOnSet(f, T) \in Int
                            /\ SumFunctionOnSet(g, T) \in Int
    BY SumInt, FS_Subset
  <1>1. ASSUME NEW T \in SUBSET S, \A x \in T : T \ {x} \in Good PROVE T \in Good
    <2>1. CASE T = {}
      BY <2>1, SumEmpty
    <2>2. CASE T # {}
      <3>1. PICK c \in T : TRUE
        BY <2>2
      <3>2. /\ SumFunctionOnSet(f, T) = f[c] + SumFunctionOnSet(f, T \ {c})
            /\ SumFunctionOnSet(g, T) = g[c] + SumFunctionOnSet(g, T \ {c})
        BY <1>0, SumRemove
      <3> QED BY <1>0, <1>1, <3>2
    <2> QED BY <2>1, <2>2
  <1>2. S \in Good
    <2> HIDE DEF Good
    <2>1. \A T \in SUBSET S : (\A x \in T : T \ {x} \in Good) => T \in Good
      BY <1>1
    <2> QED BY ONLY <2>1, IsFiniteSet(S), SubsetInduction
  <1> QED BY <1>2

\* One value changed changes the sum by as much.
LEMMA SumChange ==
  ASSUME NEW S, IsFiniteSet(S), NEW f, NEW g, NEW c \in S,
         \A x \in S : f[x] \in Int /\ g[x] \in Int,
         \A x \in S \ {c} : f[x] = g[x]
  PROVE  SumFunctionOnSet(g, S) = SumFunctionOnSet(f, S) - f[c] + g[c]
  <1>1. IsFiniteSet(S \ {c})
    BY FS_Subset
  <1>2. SumFunctionOnSet(f, S \ {c}) = SumFunctionOnSet(g, S \ {c})
    BY <1>1, SumSame
  <1>3. /\ SumFunctionOnSet(f, S) = f[c] + SumFunctionOnSet(f, S \ {c})
        /\ SumFunctionOnSet(g, S) = g[c] + SumFunctionOnSet(g, S \ {c})
    BY SumRemove
  <1>4. SumFunctionOnSet(f, S \ {c}) \in Int
    BY <1>1, SumInt
  <1> QED BY <1>2, <1>3, <1>4

\* A sum of zeros, and a sum of natural numbers that is zero.
LEMMA SumZero ==
  ASSUME NEW S, IsFiniteSet(S), NEW f, \A x \in S : f[x] \in Nat
  PROVE  SumFunctionOnSet(f, S) = 0 <=> \A x \in S : f[x] = 0
  <1>1. ASSUME SumFunctionOnSet(f, S) = 0, NEW x \in S PROVE f[x] = 0
    <2>1. SumFunctionOnSet(f, S) = f[x] + SumFunctionOnSet(f, S \ {x})
      BY SumRemove
    <2>2. SumFunctionOnSet(f, S \ {x}) \in Nat
      BY SumNat, FS_Subset
    <2> QED BY <1>1, <2>1, <2>2
  <1>2. ASSUME \A x \in S : f[x] = 0 PROVE SumFunctionOnSet(f, S) = 0
    <2> DEFINE z == [x \in S |-> 0]
    <2>1. SumFunctionOnSet(f, S) = SumFunctionOnSet(z, S)
      BY <1>2, SumSame
    <2> DEFINE Good == {T \in SUBSET S : SumFunctionOnSet(z, T) = 0}
    <2>2. ASSUME NEW T \in SUBSET S, \A x \in T : T \ {x} \in Good PROVE T \in Good
      <3>1. CASE T = {}
        BY <3>1, SumEmpty
      <3>2. CASE T # {}
        <4>1. PICK c \in T : SumFunctionOnSet(z, T) = z[c] + SumFunctionOnSet(z, T \ {c})
          BY <3>2, SumChosen, FS_Subset
        <4> QED BY <2>2, <4>1
      <3> QED BY <3>1, <3>2
    <2>3. S \in Good
      <3> HIDE DEF Good
      <3>1. \A T \in SUBSET S : (\A x \in T : T \ {x} \in Good) => T \in Good
        BY <2>2
      <3> QED BY ONLY <3>1, IsFiniteSet(S), SubsetInduction
    <2> QED BY <2>1, <2>3
  <1> QED BY <1>1, <1>2

\* The indices may be renamed.
LEMMA SumRenamed ==
  ASSUME NEW S, IsFiniteSet(S), NEW f, NEW g, NEW b,
         \A x \in S : f[x] \in Int /\ g[b[x]] = f[x],
         \A x, y \in S : b[x] = b[y] => x = y
  PROVE  SumFunctionOnSet(g, {b[x] : x \in S}) = SumFunctionOnSet(f, S)
  <1> DEFINE Image(T) == {b[x] : x \in T}
             Good     == {T \in SUBSET S :
                            /\ IsFiniteSet(Image(T))
                            /\ SumFunctionOnSet(g, Image(T)) = SumFunctionOnSet(f, T)}
  <1>1. ASSUME NEW T \in SUBSET S, \A x \in T : T \ {x} \in Good PROVE T \in Good
    <2>1. CASE T = {}
      <3>1. Image(T) = {}
        BY <2>1
      <3> QED BY <2>1, <3>1, SumEmpty, FS_EmptySet
    <2>2. CASE T # {}
      <3>1. PICK c \in T : TRUE
        BY <2>2
      <3>2. /\ IsFiniteSet(Image(T \ {c}))
            /\ SumFunctionOnSet(g, Image(T \ {c})) = SumFunctionOnSet(f, T \ {c})
        BY <1>1
      <3>3. Image(T) = Image(T \ {c}) \cup {b[c]} /\ Image(T \ {c}) = Image(T) \ {b[c]}
        OBVIOUS
      <3>4. IsFiniteSet(Image(T)) /\ b[c] \in Image(T)
        <4> HIDE DEF Image
        <4>1. IsFiniteSet(Image(T \ {c}) \cup {b[c]})
          BY <3>2, FS_AddElement
        <4> QED BY <3>3, <4>1
      <3>5. \A y \in Image(T) : g[y] \in Int
        OBVIOUS
      <3>6. SumFunctionOnSet(g, Image(T)) = g[b[c]] + SumFunctionOnSet(g, Image(T) \ {b[c]})
        BY <3>4, <3>5, SumRemove
      <3>7. SumFunctionOnSet(f, T) = f[c] + SumFunctionOnSet(f, T \ {c})
        BY SumRemove, FS_Subset
      <3>8. g[b[c]] = f[c]
        OBVIOUS
      <3> HIDE DEF Image
      <3> QED BY <3>2, <3>3, <3>4, <3>6, <3>7, <3>8
    <2> QED BY <2>1, <2>2
  <1>2. S \in Good
    <2> HIDE DEF Good
    <2>1. \A T \in SUBSET S : (\A x \in T : T \ {x} \in Good) => T \in Good
      BY <1>1
    <2> QED BY ONLY <2>1, IsFiniteSet(S), SubsetInduction
  <1> QED BY <1>2
-----------------------------------------------------------------------------
(* Types: every operation returns a connection. *)

\* Whatever the occupancy does, WithHeld returns a connection.
LEMMA WithHeldType ==
  ASSUME NEW c \in Connections, NEW h \in [Streams -> Nat]
  PROVE  WithHeld(c, h) \in Connections
  <1> DEFINE w == WithHeld(c, h)
  <1> DEFINE new(b, q) == [c EXCEPT !.held = h, !.accept = b, !.inds = q]
  <1>1. \A b \in BOOLEAN, q \in Seq(Indications) : new(b, q) \in Connections
    BY DEF Connections
  <1>2. /\ c.accept \in BOOLEAN /\ c.inds \in Seq(Indications)
        /\ Append(c.inds, "full") \in Seq(Indications)
        /\ Append(c.inds, "drain") \in Seq(Indications)
    BY DEF Connections, Indications
  <1>3. \/ w = new(FALSE, Append(c.inds, "full"))
        \/ w = new(TRUE, Append(c.inds, "drain"))
        \/ w = new(c.accept, c.inds)
    BY DEF WithHeld
  <1> HIDE DEF w, new
  <1> QED BY <1>1, <1>2, <1>3 DEF w

\* The application's requests are appended to the connection.
LEMMA RequestsType ==
  ASSUME NEW c \in Connections
  PROVE  /\ SendControl(c) \in Connections
         /\ \A S \in SUBSET Streams : ResetStreams(c, S) \in Connections
         /\ \A s \in Streams, n \in Nat : SendData(c, s, n) \in Connections
  <1>1. \A q \in Requests :
          [c EXCEPT !.requests = Append(@, q)] \in Connections
    <2> TAKE q \in Requests
    <2>1. Append(c.requests, q) \in Seq(Requests)
      BY AppendProperties DEF Connections
    <2> QED BY <2>1 DEF Connections
  <1>2. [op |-> "control", on |-> {}, len |-> 0] \in Requests
    BY DEF Requests
  <1>3. \A S \in SUBSET Streams : [op |-> "reset", on |-> S, len |-> 0] \in Requests
    BY DEF Requests
  <1>4. \A s \in Streams, n \in Nat :
          [op |-> "data", on |-> {s}, len |-> n] \in Requests
    BY DEF Requests
  <1> QED BY <1>1, <1>2, <1>3, <1>4
          DEF SendControl, ResetStreams, SendData

\* QUIC's own steps, and the delivery of an indication.
LEMMA HandleRequestType ==
  ASSUME NEW c \in Connections, c.requests # <<>>
  PROVE  HandleRequest(c) \in Connections
  <1> DEFINE r    == Head(c.requests)
             rest == [c EXCEPT !.requests = Tail(@)]
  <1>1. /\ r \in Requests
        /\ Tail(c.requests) \in Seq(Requests)
    BY HeadTailProperties DEF Connections
  <1>2. rest \in Connections
    BY <1>1 DEF Connections
  <1>3. CASE r.op = "reset"
    <2>1. [s \in Streams |-> IF s \in r.on THEN 0 ELSE c.held[s]]
            \in [Streams -> Nat]
      BY DEF Connections
    <2> QED BY <1>2, <1>3, <2>1, WithHeldType DEF HandleRequest
  <1>4. CASE r.op = "data" /\ c.accept
    <2>1. [s \in Streams |-> IF s \in r.on THEN c.held[s] + r.len ELSE c.held[s]]
            \in [Streams -> Nat]
      BY <1>1 DEF Connections, Requests
    <2> QED BY <1>2, <1>4, <2>1, WithHeldType DEF HandleRequest
  <1>5. CASE r.op = "control" /\ c.accept
    BY <1>2, <1>5 DEF HandleRequest
  <1>6. CASE ~c.accept /\ r.op # "reset"
    <2>1. r.op \in {"data", "control"}
      BY <1>1, <1>6 DEF Requests
    <2>2. HandleRequest(c) =
            [rest EXCEPT !.inds     = Append(rest.inds, "rejected"),
                         !.rejected = rest.rejected \cup {r.op}]
      <3>1. {r.op} \ {"reset"} = {r.op}
        BY <1>6
      <3> QED BY <1>6, <3>1 DEF HandleRequest
    <2>3. Append(rest.inds, "rejected") \in Seq(Indications)
      BY <1>2, AppendProperties DEF Connections, Indications
    <2>4. rest.rejected \cup {r.op} \in SUBSET {"data", "control"}
      BY <1>2, <2>1 DEF Connections
    <2> HIDE DEF rest, r
    <2> QED BY <1>2, <2>2, <2>3, <2>4 DEF Connections
  <1> QED BY <1>1, <1>3, <1>4, <1>5, <1>6 DEF Requests, Connections

LEMMA AcknowledgeType ==
  ASSUME NEW c \in Connections, NEW s \in Streams, c.held[s] > 0
  PROVE  Acknowledge(c, s) \in Connections
  <1>1. [c.held EXCEPT ![s] = @ - 1] \in [Streams -> Nat]
    BY DEF Connections
  <1> QED BY <1>1, WithHeldType DEF Acknowledge

LEMMA TakeIndicationType ==
  ASSUME NEW c \in Connections, c.inds # <<>>
  PROVE  TakeIndication(c) \in Connections
  <1>1. Tail(c.inds) \in Seq(Indications)
    BY HeadTailProperties DEF Connections
  <1> QED BY <1>1 DEF TakeIndication, Connections

-----------------------------------------------------------------------------
(* What QUIC holds, and what it has been handed and has not handled. *)

\* The data among requests q, and its bytes.
DataAt(q)    == {i \in DOMAIN q : q[i].op = "data"}
DataBytes(q) == SumFunctionOnSet([i \in DataAt(q) |-> q[i].len], DataAt(q))

LEMMA QuicSum ==
  \A f : SumFunction(f) = SumFunctionOnSet(f, DOMAIN f)
  BY DEF SumFunction

\* The occupancy is the sum over the streams.
LEMMA HeldSum ==
  ASSUME QueueLimits, NEW h \in [Streams -> Nat]
  PROVE  SumFunction(h) = SumFunctionOnSet(h, Streams) /\ SumFunction(h) \in Nat
  BY QuicSum, SumNat DEF QueueLimits

LEMMA HeldCompare ==
  ASSUME QueueLimits, NEW h \in [Streams -> Nat], NEW k \in [Streams -> Nat],
         \A s \in Streams : h[s] <= k[s]
  PROVE  SumFunction(h) <= SumFunction(k)
  <1>1. SumFunctionOnSet(h, Streams) <= SumFunctionOnSet(k, Streams)
    BY SumCompare DEF QueueLimits
  <1> QED BY <1>1, HeldSum

LEMMA HeldChange ==
  ASSUME QueueLimits, NEW h \in [Streams -> Nat], NEW k \in [Streams -> Nat], NEW s \in Streams,
         \A u \in Streams \ {s} : h[u] = k[u]
  PROVE  SumFunction(k) = SumFunction(h) - h[s] + k[s]
  <1>1. SumFunctionOnSet(k, Streams) = SumFunctionOnSet(h, Streams) - h[s] + k[s]
    BY SumChange DEF QueueLimits
  <1> QED BY <1>1, HeldSum

LEMMA HeldZero ==
  ASSUME QueueLimits, NEW h \in [Streams -> Nat], \A s \in Streams : h[s] = 0
  PROVE  SumFunction(h) = 0
  <1>1. SumFunctionOnSet(h, Streams) = 0
    BY SumZero DEF QueueLimits
  <1> QED BY <1>1, HeldSum

\* Requests appended and taken.
LEMMA RequestAppended ==
  ASSUME NEW q \in Seq(Requests), NEW r \in Requests
  PROVE  /\ Append(q, r) \in Seq(Requests)
         /\ DOMAIN q = 1 .. Len(q) /\ DOMAIN Append(q, r) = 1 .. Len(q) + 1
         /\ Len(q) \in Nat /\ Len(Append(q, r)) = Len(q) + 1
         /\ \A i \in 1 .. Len(q) : Append(q, r)[i] = q[i]
         /\ Append(q, r)[Len(q) + 1] = r
  BY AppendProperties, LenProperties

LEMMA RequestTaken ==
  ASSUME NEW q \in Seq(Requests), q # <<>>
  PROVE  /\ Tail(q) \in Seq(Requests) /\ Head(q) = q[1]
         /\ Head(q) \in Requests
         /\ Len(q) \in Nat \ {0} /\ Len(Tail(q)) = Len(q) - 1
         /\ DOMAIN q = 1 .. Len(q) /\ DOMAIN Tail(q) = 1 .. Len(q) - 1
         /\ \A i \in 1 .. Len(q) - 1 : Tail(q)[i] = q[i + 1]
  <1>1. Head(q) = q[1]
    OBVIOUS
  <1> QED BY <1>1, HeadTailProperties, LenProperties, EmptySeq

LEMMA DataFacts ==
  ASSUME NEW q \in Seq(Requests)
  PROVE  /\ IsFiniteSet(DataAt(q)) /\ DataBytes(q) \in Nat
         /\ \A i \in DataAt(q) : q[i].len \in Nat /\ q[i].len <= DataBytes(q)
  <1> DEFINE f == [i \in DataAt(q) |-> q[i].len]
  <1>1. DOMAIN q = 1 .. Len(q) /\ Len(q) \in Nat /\ \A i \in DOMAIN q : q[i] \in Requests
    BY LenProperties
  <1>2. IsFiniteSet(DataAt(q))
    <2>1. IsFiniteSet(1 .. Len(q)) /\ DataAt(q) \in SUBSET (1 .. Len(q))
      BY <1>1, FS_Interval DEF DataAt
    <2> QED BY <2>1, FS_Subset
  <1>3. \A i \in DataAt(q) : f[i] = q[i].len /\ f[i] \in Nat
    BY <1>1 DEF DataAt, Requests
  <1> HIDE DEF f
  <1>4. SumFunctionOnSet(f, DataAt(q)) \in Nat
    BY <1>2, <1>3, SumNat
  <1>5. \A i \in DataAt(q) : f[i] <= SumFunctionOnSet(f, DataAt(q))
    <2> TAKE i \in DataAt(q)
    <2>1. SumFunctionOnSet(f, DataAt(q)) = f[i] + SumFunctionOnSet(f, DataAt(q) \ {i})
      BY <1>2, <1>3, SumRemove
    <2>2. SumFunctionOnSet(f, DataAt(q) \ {i}) \in Nat
      BY <1>2, <1>3, SumNat, FS_RemoveElement
    <2> QED BY <1>3, <2>1, <2>2
  <1> QED BY <1>2, <1>3, <1>4, <1>5 DEF DataBytes, f

\* With no request there is no data.
LEMMA NothingAsked == DataAt(<<>>) = {} /\ DataBytes(<<>>) = 0
  <1>1. DataAt(<<>>) = {}
    BY DEF DataAt
  <1> QED BY <1>1, SumEmpty DEF DataBytes

\* A request appended adds its bytes; one taken takes them away.
LEMMA DataAppended ==
  ASSUME NEW q \in Seq(Requests), NEW r \in Requests
  PROVE  DataBytes(Append(q, r)) = DataBytes(q) + IF r.op = "data" THEN r.len ELSE 0
  <1> DEFINE p == Append(q, r)
             n == Len(q) + 1
             f == [i \in DataAt(q) |-> q[i].len]
             g == [i \in DataAt(p) |-> p[i].len]
  <1>1. /\ p \in Seq(Requests) /\ p[n] = r /\ Len(q) \in Nat
        /\ DOMAIN q = 1 .. Len(q) /\ DOMAIN p = 1 .. n
        /\ \A i \in 1 .. Len(q) : p[i] = q[i]
    BY RequestAppended
  <1>2. /\ IsFiniteSet(DataAt(p)) /\ IsFiniteSet(DataAt(q))
        /\ \A i \in DataAt(p) : p[i].len \in Nat
    BY <1>1, DataFacts
  <1>0. /\ DataBytes(p) = SumFunctionOnSet(g, DataAt(p))
        /\ DataBytes(q) = SumFunctionOnSet(f, DataAt(q))
    BY DEF DataBytes
  <1> SUFFICES DataBytes(p) = DataBytes(q) + IF r.op = "data" THEN r.len ELSE 0
    OBVIOUS
  <1> HIDE DEF p
  <1>3. DataAt(p) = DataAt(q) \cup (IF r.op = "data" THEN {n} ELSE {}) /\ n \notin DataAt(q)
    BY <1>1 DEF DataAt
  <1>4. \A i \in DataAt(q) : f[i] = g[i]
    BY <1>1, <1>3 DEF DataAt
  <1>5. \A i \in DataAt(p) : g[i] \in Int /\ g[i] = p[i].len
    BY <1>2
  <1> HIDE DEF f, g, n
  <1>6. SumFunctionOnSet(f, DataAt(q)) = SumFunctionOnSet(g, DataAt(q))
    BY <1>2, <1>4, SumSame
  <1>7. CASE r.op = "data"
    <2>1. n \in DataAt(p) /\ DataAt(p) \ {n} = DataAt(q)
      BY <1>3, <1>7
    <2>2. SumFunctionOnSet(g, DataAt(p)) = g[n] + SumFunctionOnSet(g, DataAt(p) \ {n})
      BY <1>2, <1>5, <2>1, SumRemove
    <2>3. g[n] = r.len /\ g[n] \in Int
      BY <1>1, <1>5, <2>1
    <2>4. SumFunctionOnSet(g, DataAt(q)) \in Int
      BY <1>2, <1>3, <1>5, SumInt
    <2>5. SumFunctionOnSet(g, DataAt(p)) = g[n] + SumFunctionOnSet(g, DataAt(q))
      BY <2>1, <2>2
    <2> QED BY <1>0, <1>6, <1>7, <2>3, <2>4, <2>5
  <1>8. CASE r.op # "data"
    <2>1. DataAt(p) = DataAt(q)
      BY <1>3, <1>8
    <2>2. SumFunctionOnSet(g, DataAt(q)) \in Int
      BY <1>2, <1>3, <1>5, SumInt
    <2> QED BY <1>0, <1>6, <1>8, <2>1, <2>2
  <1> QED BY <1>7, <1>8

LEMMA DataTaken ==
  ASSUME NEW q \in Seq(Requests), q # <<>>
  PROVE  DataBytes(q) = DataBytes(Tail(q)) + IF Head(q).op = "data" THEN Head(q).len ELSE 0
  <1> DEFINE t == Tail(q)
             b == [i \in 2 .. Len(q) |-> i - 1]
             R == DataAt(q) \ {1}
             f == [i \in DataAt(q) |-> q[i].len]
             g == [i \in DataAt(t) |-> t[i].len]
  <1>1. /\ t \in Seq(Requests) /\ Len(q) \in Nat \ {0} /\ Head(q) = q[1]
        /\ DOMAIN q = 1 .. Len(q) /\ DOMAIN t = 1 .. Len(q) - 1
        /\ \A i \in 1 .. Len(q) - 1 : t[i] = q[i + 1]
    BY RequestTaken
  <1>2. /\ IsFiniteSet(DataAt(q)) /\ IsFiniteSet(R)
        /\ \A i \in DataAt(q) : q[i].len \in Nat
    BY DataFacts, FS_RemoveElement
  <1>0. /\ DataBytes(t) = SumFunctionOnSet(g, DataAt(t))
        /\ DataBytes(q) = SumFunctionOnSet(f, DataAt(q))
    BY DEF DataBytes
  <1> SUFFICES DataBytes(q) = DataBytes(t) + IF Head(q).op = "data" THEN Head(q).len ELSE 0
    OBVIOUS
  <1> HIDE DEF t
  <1>3. \A i \in R : i \in 2 .. Len(q) /\ b[i] = i - 1 /\ b[i] \in DataAt(t) /\ t[b[i]] = q[i]
    <2> TAKE i \in R
    <2>1. i \in 2 .. Len(q) /\ q[i].op = "data"
      BY <1>1 DEF DataAt
    <2>2. i - 1 \in 1 .. Len(q) - 1 /\ (i - 1) + 1 = i
      BY <1>1, <2>1
    <2>3. t[i - 1] = q[i]
      BY <1>1, <2>2
    <2> QED BY <1>1, <2>1, <2>2, <2>3 DEF DataAt
  <1>4. DataAt(t) = {b[i] : i \in R}
    <2>0. {b[i] : i \in R} \subseteq DataAt(t)
      <3>1. \A i \in R : b[i] \in DataAt(t)
        BY <1>3
      <3> HIDE DEF b, R
      <3> QED BY <3>1
    <2> SUFFICES ASSUME NEW j \in DataAt(t) PROVE \E i \in R : b[i] = j
      <3> HIDE DEF b, R
      <3> QED BY <2>0
    <2>1. j \in 1 .. Len(q) - 1 /\ t[j].op = "data" /\ t[j] = q[j + 1]
      BY <1>1 DEF DataAt
    <2>2. j + 1 \in 2 .. Len(q) /\ j + 1 \in DOMAIN q /\ j + 1 # 1 /\ (j + 1) - 1 = j
      BY <1>1, <2>1
    <2>4. j + 1 \in R
      BY <2>1, <2>2 DEF DataAt
    <2>3. b[j + 1] = j
      BY <2>1, <2>2
    <2> QED BY <2>3, <2>4
  <1>5. \A i \in R : f[i] \in Int /\ g[b[i]] = f[i]
    <2>1. \A i \in R : i \in DataAt(q) /\ f[i] = q[i].len
      OBVIOUS
    <2>2. \A i \in R : g[b[i]] = t[b[i]].len
      BY <1>3
    <2>3. \A i \in R : t[b[i]] = q[i]
      BY <1>3
    <2> HIDE DEF b, f, g, R
    <2> QED BY <1>2, <2>1, <2>2, <2>3
  <1>6. \A i, j \in R : b[i] = b[j] => i = j
    BY <1>3
  <1> HIDE DEF b, f, g, R
  <1>7. SumFunctionOnSet(g, DataAt(t)) = SumFunctionOnSet(f, R)
    BY <1>2, <1>4, <1>5, <1>6, SumRenamed
  <1>8. SumFunctionOnSet(f, R) \in Int
    BY <1>2, <1>5, SumInt
  <1>9. \A i \in DataAt(q) : f[i] \in Int /\ f[i] = q[i].len
    BY <1>2 DEF f
  <1>10. CASE Head(q).op = "data"
    <2>1. 1 \in DataAt(q)
      BY <1>1, <1>10 DEF DataAt
    <2>2. SumFunctionOnSet(f, DataAt(q)) = f[1] + SumFunctionOnSet(f, R)
      BY <1>2, <1>9, <2>1, SumRemove DEF R
    <2> QED BY <1>0, <1>1, <1>7, <1>8, <1>9, <1>10, <2>1, <2>2
  <1>11. CASE Head(q).op # "data"
    <2>1. R = DataAt(q)
      BY <1>1, <1>11 DEF R, DataAt
    <2> QED BY <1>0, <1>7, <1>8, <1>11, <2>1
  <1> QED BY <1>10, <1>11
-----------------------------------------------------------------------------
(* The effect of each operation on the connection.                         *)

\* p continues q with requests that carry no data.
Grown(q, p) ==
  /\ Len(q) <= Len(p)
  /\ \A i \in 1 .. Len(q) : p[i] = q[i]
  /\ \A i \in Len(q) + 1 .. Len(p) : p[i].op # "data"

\* Only requests of that kind are added to the connection.
Asked(c, d) ==
  /\ d.held = c.held /\ d.accept = c.accept /\ d.inds = c.inds /\ d.rejected = c.rejected
  /\ Grown(c.requests, d.requests)

LEMMA GrownData ==
  ASSUME NEW q \in Seq(Requests), NEW p \in Seq(Requests), Grown(q, p)
  PROVE  DataAt(p) = DataAt(q) /\ DataBytes(p) = DataBytes(q)
  <1>1. /\ DOMAIN q = 1 .. Len(q) /\ DOMAIN p = 1 .. Len(p)
        /\ Len(q) \in Nat /\ Len(p) \in Nat
    BY LenProperties
  <1>2. DataAt(p) = DataAt(q)
    BY <1>1 DEF DataAt, Grown
  <1>3. \A i \in DataAt(q) : p[i] = q[i]
    BY <1>1 DEF DataAt, Grown
  <1>4. [i \in DataAt(p) |-> p[i].len] = [i \in DataAt(q) |-> q[i].len]
    BY <1>2, <1>3
  <1> QED BY <1>2, <1>4 DEF DataBytes

LEMMA GrownSame ==
  ASSUME NEW q \in Seq(Requests)
  PROVE  Grown(q, q)
  BY LenProperties DEF Grown

LEMMA AskedTwice ==
  ASSUME NEW c \in Connections, NEW d \in Connections, NEW e \in Connections,
         Asked(c, d), Asked(d, e)
  PROVE  Asked(c, e)
  <1>1. /\ Len(c.requests) \in Nat /\ Len(d.requests) \in Nat /\ Len(e.requests) \in Nat
    BY LenProperties DEF Connections
  <1>2. Grown(c.requests, e.requests)
    BY <1>1 DEF Asked, Grown
  <1> QED BY <1>2 DEF Asked

LEMMA ControlAsked ==
  ASSUME NEW c \in Connections
  PROVE  LET d == SendControl(c) IN
         /\ d \in Connections /\ Asked(c, d)
         /\ Len(d.requests) = Len(c.requests) + 1
         /\ d.requests[Len(d.requests)] = [op |-> "control", on |-> {}, len |-> 0]
  <1> DEFINE d == SendControl(c)
             r == [op |-> "control", on |-> {}, len |-> 0]
  <1>1. r \in Requests /\ c.requests \in Seq(Requests)
    BY DEF Requests, Connections
  <1>2. /\ d.requests = Append(c.requests, r) /\ d.held = c.held /\ d.accept = c.accept
        /\ d.inds = c.inds /\ d.rejected = c.rejected
    BY DEF SendControl, Connections
  <1>3. r.op # "data"
    OBVIOUS
  <1> HIDE DEF r, d
  <1>4. Grown(c.requests, d.requests) /\ Len(d.requests) = Len(c.requests) + 1
        /\ d.requests[Len(d.requests)] = r
    BY <1>1, <1>2, <1>3, RequestAppended DEF Grown
  <1>5. d \in Connections
    BY RequestsType DEF d
  <1> QED BY <1>2, <1>4, <1>5 DEF Asked, d, r

LEMMA ResetAsked ==
  ASSUME NEW c \in Connections, NEW S \in SUBSET Streams
  PROVE  LET d == ResetStreams(c, S) IN
         /\ d \in Connections /\ Asked(c, d)
         /\ S = {} => d = c
         /\ S # {} => /\ Len(d.requests) = Len(c.requests) + 1
                      /\ d.requests[Len(d.requests)] = [op |-> "reset", on |-> S, len |-> 0]
  <1> DEFINE d == ResetStreams(c, S)
             r == [op |-> "reset", on |-> S, len |-> 0]
  <1>1. r \in Requests /\ c.requests \in Seq(Requests)
    BY DEF Requests, Connections
  <1>2. d \in Connections
    BY RequestsType
  <1>3. CASE S = {}
    <2>1. d = c
      BY <1>3 DEF ResetStreams
    <2> QED BY <1>1, <1>3, <2>1, GrownSame DEF Asked
  <1>4. CASE S # {}
    <2>1. /\ d.requests = Append(c.requests, r) /\ d.held = c.held /\ d.accept = c.accept
          /\ d.inds = c.inds /\ d.rejected = c.rejected
      BY <1>4 DEF ResetStreams, Connections
    <2>2. r.op # "data"
      OBVIOUS
    <2> HIDE DEF r, d
    <2>3. Grown(c.requests, d.requests) /\ Len(d.requests) = Len(c.requests) + 1
          /\ d.requests[Len(d.requests)] = r
      BY <1>1, <2>1, <2>2, RequestAppended DEF Grown
    <2> QED BY <1>2, <1>4, <2>1, <2>3 DEF Asked, d, r
  <1> QED BY <1>3, <1>4

LEMMA DataSent ==
  ASSUME NEW c \in Connections, NEW s \in Streams, NEW n \in Nat
  PROVE  LET d == SendData(c, s, n)
             r == [op |-> "data", on |-> {s}, len |-> n] IN
         /\ d \in Connections /\ r \in Requests
         /\ d.held = c.held /\ d.accept = c.accept
         /\ d.inds = c.inds /\ d.rejected = c.rejected
         /\ d.requests = Append(c.requests, r)
         /\ DataBytes(d.requests) = DataBytes(c.requests) + n
  <1> DEFINE d == SendData(c, s, n)
             r == [op |-> "data", on |-> {s}, len |-> n]
  <1>1. r \in Requests /\ c.requests \in Seq(Requests)
    BY DEF Requests, Connections
  <1>2. /\ d.requests = Append(c.requests, r) /\ d.held = c.held /\ d.accept = c.accept
        /\ d.inds = c.inds /\ d.rejected = c.rejected
    BY DEF SendData, Connections
  <1>3. DataBytes(Append(c.requests, r)) = DataBytes(c.requests) + IF r.op = "data" THEN r.len ELSE 0
    BY <1>1, DataAppended
  <1>4. d \in Connections
    BY RequestsType
  <1> QED BY <1>1, <1>2, <1>3, <1>4

\* Where the occupancy went: over the limit, through the low-water mark, or neither.
Filled(c, d) ==
  /\ c.accept /\ Occupancy(d) >= SendQueueLimit
  /\ ~d.accept /\ d.inds = Append(c.inds, "full")
Emptied(c, d) ==
  /\ Occupancy(c) >= LowWaterMark /\ Occupancy(d) < LowWaterMark
  /\ d.accept /\ d.inds = Append(c.inds, "drain")
Steady(c, d) ==
  /\ Occupancy(c) >= LowWaterMark => Occupancy(d) >= LowWaterMark
  /\ d.accept = c.accept /\ d.inds = c.inds

LEMMA OccupancyNat ==
  ASSUME QueueLimits, NEW c \in Connections
  PROVE  Occupancy(c) \in Nat
  <1>1. c.held \in [Streams -> Nat]
    BY DEF Connections
  <1> QED BY <1>1, HeldSum DEF Occupancy

LEMMA WithHeldEffect ==
  ASSUME QueueLimits, NEW c \in Connections, NEW h \in [Streams -> Nat]
  PROVE  LET d == WithHeld(c, h) IN
         /\ d.held = h /\ d.requests = c.requests /\ d.rejected = c.rejected
         /\ Occupancy(d) = SumFunction(h)
         /\ Filled(c, d) \/ Emptied(c, d) \/ Steady(c, d)
  <1> DEFINE d       == WithHeld(c, h)
             before  == Occupancy(c)
             after   == SumFunction(h)
             full    == c.accept /\ after >= SendQueueLimit
             drained == before >= LowWaterMark /\ after < LowWaterMark
  <1>1. /\ d.held = h /\ d.requests = c.requests /\ d.rejected = c.rejected
        /\ d.accept = IF full THEN FALSE ELSE IF drained THEN TRUE ELSE c.accept
        /\ d.inds = IF full THEN Append(c.inds, "full")
                    ELSE IF drained THEN Append(c.inds, "drain") ELSE c.inds
    BY DEF WithHeld, Connections
  <1>2. Occupancy(d) = after /\ after \in Nat /\ before \in Nat
    BY <1>1, HeldSum, OccupancyNat DEF Occupancy
  <1>3. LowWaterMark \in Nat /\ SendQueueLimit \in Nat
    BY DEF QueueLimits
  <1> HIDE DEF d, before, after
  <1>4. Filled(c, d) \/ Emptied(c, d) \/ Steady(c, d)
    <2>1. CASE full
      BY <1>1, <1>2, <2>1 DEF Filled
    <2>2. CASE ~full /\ drained
      BY <1>1, <1>2, <2>2 DEF Emptied, before
    <2>3. CASE ~full /\ ~drained
      <3>1. d.accept = c.accept /\ d.inds = c.inds
        <4> HIDE DEF full, drained
        <4> QED BY <1>1, <2>3
      <3>2. before >= LowWaterMark => after >= LowWaterMark
        BY <1>2, <1>3, <2>3
      <3> QED BY <1>2, <3>1, <3>2 DEF Steady, before
    <2> QED BY <2>1, <2>2, <2>3
  <1> QED BY <1>1, <1>2, <1>4 DEF d, after

\* QUIC handles a request: what each kind does to the queue.
LEMMA HandleEffect ==
  ASSUME QueueLimits, NEW c \in Connections, c.requests # <<>>
  PROVE  LET d == HandleRequest(c)
             r == Head(c.requests) IN
         /\ d.requests = Tail(c.requests)
         /\ r \in Requests
         /\ \/ /\ r.op = "reset" /\ d.rejected = c.rejected
               /\ d.held = [s \in Streams |-> IF s \in r.on THEN 0 ELSE c.held[s]]
               /\ Occupancy(d) <= Occupancy(c)
               /\ Filled(c, d) \/ Emptied(c, d) \/ Steady(c, d)
            \/ /\ r.op = "data" /\ c.accept /\ d.rejected = c.rejected
               /\ d.held = [s \in Streams |-> IF s \in r.on THEN c.held[s] + r.len
                                                ELSE c.held[s]]
               /\ \A s \in Streams :
                    r.on = {s} => Occupancy(d) = Occupancy(c) + r.len
               /\ Filled(c, d) \/ Emptied(c, d) \/ Steady(c, d)
            \/ /\ r.op = "control" /\ c.accept /\ d.rejected = c.rejected
               /\ d.held = c.held /\ d.accept = c.accept /\ d.inds = c.inds
            \/ /\ r.op # "reset" /\ ~c.accept
               /\ d.held = c.held /\ d.accept = c.accept /\ d.inds = Append(c.inds, "rejected")
               /\ d.rejected = c.rejected \cup {r.op}
  <1> DEFINE r    == Head(c.requests)
             d    == HandleRequest(c)
             rest == [c EXCEPT !.requests = Tail(@)]
  <1>1. r \in Requests /\ c.held \in [Streams -> Nat]
    BY HeadTailProperties DEF Connections
  <1>2. /\ rest \in Connections /\ rest.requests = Tail(c.requests)
        /\ rest.held = c.held /\ rest.accept = c.accept /\ rest.inds = c.inds
        /\ rest.rejected = c.rejected
    BY HeadTailProperties DEF Connections
  <1>3. Occupancy(rest) = Occupancy(c)
    BY <1>2 DEF Occupancy
  <1>4. \A e : /\ Filled(rest, e) <=> Filled(c, e)
               /\ Emptied(rest, e) <=> Emptied(c, e)
               /\ Steady(rest, e) <=> Steady(c, e)
    BY <1>2, <1>3 DEF Filled, Emptied, Steady
  <1>5. CASE r.op = "reset"
    <2> DEFINE h == [s \in Streams |-> IF s \in r.on THEN 0 ELSE c.held[s]]
    <2>1. h \in [Streams -> Nat] /\ \A s \in Streams : h[s] <= c.held[s]
      BY <1>1
    <2>2. d = WithHeld(rest, h)
      BY <1>5 DEF HandleRequest
    <2> HIDE DEF h, d, rest, r
    <2>3. SumFunction(h) <= Occupancy(c)
      BY <1>1, <2>1, HeldCompare DEF Occupancy
    <2>4. /\ d.held = h /\ d.requests = rest.requests /\ d.rejected = rest.rejected
          /\ Occupancy(d) = SumFunction(h)
          /\ Filled(rest, d) \/ Emptied(rest, d) \/ Steady(rest, d)
      BY <1>2, <2>1, <2>2, WithHeldEffect
    <2>5. /\ d.held = h /\ d.requests = Tail(c.requests) /\ d.rejected = c.rejected
          /\ Occupancy(d) <= Occupancy(c)
          /\ Filled(c, d) \/ Emptied(c, d) \/ Steady(c, d)
      BY <1>2, <1>4, <2>3, <2>4
    <2> QED BY <1>1, <1>5, <2>5 DEF h, d, r
  <1>6. CASE r.op = "data" /\ c.accept
    <2> DEFINE h == [s \in Streams |-> IF s \in r.on THEN c.held[s] + r.len ELSE c.held[s]]
    <2>1. h \in [Streams -> Nat] /\ r.len \in Nat
      BY <1>1 DEF Requests
    <2>2. d = WithHeld(rest, h)
      BY <1>6 DEF HandleRequest
    <2>3. ASSUME NEW s \in Streams, r.on = {s}
          PROVE  SumFunction(h) = Occupancy(c) + r.len
      <3>1. \A u \in Streams \ {s} : c.held[u] = h[u]
        BY <2>3
      <3>2. h[s] = c.held[s] + r.len /\ c.held[s] \in Nat
        BY <1>1, <2>3
      <3> HIDE DEF h
      <3>3. SumFunction(h) = SumFunction(c.held) - c.held[s] + h[s]
        BY <1>1, <2>1, <3>1, HeldChange
      <3> QED BY <1>1, <2>1, <3>2, <3>3, HeldSum DEF Occupancy
    <2> HIDE DEF h, d, rest, r
    <2>4. /\ d.held = h /\ d.requests = rest.requests /\ d.rejected = rest.rejected
          /\ Occupancy(d) = SumFunction(h)
          /\ Filled(rest, d) \/ Emptied(rest, d) \/ Steady(rest, d)
      BY <1>2, <2>1, <2>2, WithHeldEffect
    <2>5. /\ d.held = h /\ d.requests = Tail(c.requests) /\ d.rejected = c.rejected
          /\ \A s \in Streams :
               r.on = {s} => Occupancy(d) = Occupancy(c) + r.len
          /\ Filled(c, d) \/ Emptied(c, d) \/ Steady(c, d)
      BY <1>2, <1>4, <2>3, <2>4
    <2> QED BY <1>1, <1>6, <2>5 DEF h, d, r
  <1>7. CASE r.op = "control" /\ c.accept
    <2>1. d = rest
      BY <1>7 DEF HandleRequest
    <2> HIDE DEF d, rest, r
    <2> QED BY <1>1, <1>2, <1>7, <2>1 DEF d, r
  <1>8. CASE r.op # "reset" /\ ~c.accept
    <2>0. {r.op} \ {"reset"} = {r.op}
      BY <1>8
    <2>1. d = [rest EXCEPT !.inds = Append(@, "rejected"),
                           !.rejected = @ \cup {r.op}]
      BY <1>8, <2>0 DEF HandleRequest
    <2>2. /\ d.requests = rest.requests /\ d.held = rest.held /\ d.accept = rest.accept
          /\ d.inds = Append(rest.inds, "rejected")
          /\ d.rejected = rest.rejected \cup {r.op}
      BY <1>2, <2>1 DEF Connections
    <2> HIDE DEF d, rest, r
    <2> QED BY <1>1, <1>2, <1>8, <2>2 DEF d, r
  <1>9. r.op \in {"data", "reset", "control"} /\ c.accept \in BOOLEAN
    BY <1>1 DEF Requests, Connections
  <1> QED BY <1>5, <1>6, <1>7, <1>8, <1>9

\* A byte acknowledged.
LEMMA AcknowledgeEffect ==
  ASSUME QueueLimits, NEW c \in Connections, NEW s \in Streams, c.held[s] > 0
  PROVE  LET d == Acknowledge(c, s) IN
         /\ d.requests = c.requests /\ d.rejected = c.rejected
         /\ d.held = [c.held EXCEPT ![s] = @ - 1]
         /\ Occupancy(d) = Occupancy(c) - 1
         /\ Filled(c, d) \/ Emptied(c, d) \/ Steady(c, d)
  <1> DEFINE h == [c.held EXCEPT ![s] = @ - 1]
             d == Acknowledge(c, s)
  <1>1. /\ c.held \in [Streams -> Nat] /\ h \in [Streams -> Nat]
        /\ h[s] = c.held[s] - 1 /\ c.held[s] \in Nat
        /\ \A u \in Streams \ {s} : c.held[u] = h[u]
    BY DEF Connections
  <1>2. d = WithHeld(c, h)
    BY DEF Acknowledge
  <1> HIDE DEF h, d
  <1>3. SumFunction(h) = SumFunction(c.held) - c.held[s] + h[s]
    BY <1>1, HeldChange
  <1>4. SumFunction(h) = Occupancy(c) - 1
    BY <1>1, <1>3, HeldSum DEF Occupancy
  <1>5. /\ d.held = h /\ d.requests = c.requests /\ d.rejected = c.rejected
        /\ Occupancy(d) = SumFunction(h)
        /\ Filled(c, d) \/ Emptied(c, d) \/ Steady(c, d)
    BY <1>1, <1>2, WithHeldEffect
  <1> QED BY <1>4, <1>5 DEF h, d

-----------------------------------------------------------------------------
(* The pacing of a connection.                                             *)

\* The bytes QUIC will hold once it has handled every request.
Load(c) == Occupancy(c) + DataBytes(c.requests)

\* Every data request is for one stream.
OneStream(q) == \A i \in DataAt(q) : \E s \in Streams : q[i].on = {s}

\* What has been handed to QUIC and not handled was written at this instant, so it
\* is part of the b bytes that the flush loop adds to QUIC's report; and the queue
\* stays below m.
Paced(c, b, m) ==
  /\ OneStream(c.requests)
  /\ DataBytes(c.requests) <= b
  /\ Load(c) < m

\* No data is added.
LEMMA PacedAsked ==
  ASSUME NEW c \in Connections, NEW d \in Connections, NEW b, NEW m,
         d.held = c.held, Grown(c.requests, d.requests), Paced(c, b, m)
  PROVE  Paced(d, b, m)
  <1>1. c.requests \in Seq(Requests) /\ d.requests \in Seq(Requests)
    BY DEF Connections
  <1>2. /\ DataAt(d.requests) = DataAt(c.requests)
        /\ DataBytes(d.requests) = DataBytes(c.requests)
    BY <1>1, GrownData
  <1>3. \A i \in DataAt(c.requests) : d.requests[i] = c.requests[i]
    BY <1>1, LenProperties DEF Grown, DataAt
  <1>4. OneStream(d.requests)
    BY <1>2, <1>3 DEF Paced, OneStream
  <1> QED BY <1>2, <1>4 DEF Paced, Load, Occupancy

\* Indications do not count.
LEMMA PacedTaken ==
  ASSUME NEW c \in Connections, NEW b, NEW m, Paced(c, b, m)
  PROVE  Paced(TakeIndication(c), b, m)
  <1> DEFINE d == TakeIndication(c)
  <1>1. d.held = c.held /\ d.requests = c.requests
    BY DEF TakeIndication, Connections
  <1> HIDE DEF d
  <1> QED BY <1>1 DEF Paced, Load, Occupancy, d

\* A write below the limit, as the application sees it.
LEMMA PacedSent ==
  ASSUME QueueLimits, NEW c \in Connections, NEW b \in Nat, NEW k \in Nat, NEW s \in Streams,
         NEW n \in 0 .. k, Paced(c, b, SendQueueLimit + k), Occupancy(c) + b < SendQueueLimit
  PROVE  Paced(SendData(c, s, n), b + n, SendQueueLimit + k)
  <1> DEFINE d == SendData(c, s, n)
             q == c.requests
             r == [op |-> "data", on |-> {s}, len |-> n]
  <1>1. /\ d.held = c.held /\ d.requests = Append(q, r) /\ r \in Requests
        /\ DataBytes(d.requests) = DataBytes(q) + n
    BY DataSent
  <1>2. /\ q \in Seq(Requests) /\ DataBytes(q) \in Nat /\ Occupancy(c) \in Nat
        /\ SendQueueLimit \in Nat /\ n \in Nat /\ n <= k
    BY DataFacts, OccupancyNat DEF Connections, QueueLimits
  <1>3. /\ DOMAIN d.requests = 1 .. Len(q) + 1 /\ DOMAIN q = 1 .. Len(q) /\ Len(q) \in Nat
        /\ \A i \in 1 .. Len(q) : d.requests[i] = q[i]
        /\ d.requests[Len(q) + 1] = r
    BY <1>1, <1>2, RequestAppended
  <1>4. r.on = {s}
    OBVIOUS
  <1> HIDE DEF d, q, r
  <1>5. ASSUME NEW i \in DataAt(d.requests) PROVE \E u \in Streams : d.requests[i].on = {u}
    <2>1. CASE i = Len(q) + 1
      BY <1>3, <1>4, <2>1
    <2>2. CASE i # Len(q) + 1
      <3>1. i \in DataAt(q) /\ d.requests[i] = q[i]
        BY <1>3, <2>2 DEF DataAt
      <3> QED BY <3>1 DEF Paced, OneStream, q
    <2> QED BY <2>1, <2>2
  <1>6. DataBytes(q) <= b
    BY DEF Paced, q
  <1>7. DataBytes(q) + n <= b + n /\ Occupancy(c) + (DataBytes(q) + n) < SendQueueLimit + k
    BY <1>2, <1>6
  <1>8. Occupancy(d) = Occupancy(c)
    BY <1>1 DEF Occupancy
  <1> QED BY <1>1, <1>5, <1>7, <1>8 DEF Paced, Load, OneStream, d

\* Bytes that QUIC takes move from the requests to the queue.
LEMMA PacedHandled ==
  ASSUME QueueLimits, NEW c \in Connections, NEW b \in Nat, NEW m \in Nat,
         c.requests # <<>>, Paced(c, b, m)
  PROVE  Paced(HandleRequest(c), b, m)
  <1> DEFINE q == c.requests
             r == Head(q)
             d == HandleRequest(c)
             n == IF r.op = "data" THEN r.len ELSE 0
  <1>1. /\ q \in Seq(Requests) /\ Tail(q) \in Seq(Requests) /\ r = q[1]
        /\ r \in Requests /\ r.len \in Nat /\ Len(q) \in Nat \ {0}
        /\ DOMAIN q = 1 .. Len(q) /\ DOMAIN Tail(q) = 1 .. Len(q) - 1
        /\ \A i \in 1 .. Len(q) - 1 : Tail(q)[i] = q[i + 1]
    BY RequestTaken DEF Connections, Requests
  <1>2. DataBytes(q) = DataBytes(Tail(q)) + n /\ n \in Nat
    BY <1>1, DataTaken
  <1>3. r.op = "data" => \E s \in Streams : r.on = {s}
    BY <1>1 DEF Paced, OneStream, DataAt
  <1>4. d.requests = Tail(q) /\ Occupancy(d) <= Occupancy(c) + n
    <2>1. Occupancy(c) \in Nat
      BY OccupancyNat
    <2>2. /\ d.requests = Tail(q)
          /\ \/ r.op = "reset" /\ Occupancy(d) <= Occupancy(c)
             \/ r.op = "data" /\ Occupancy(d) = Occupancy(c) + r.len
             \/ d.held = c.held
      BY <1>3, HandleEffect
    <2>3. d.held = c.held => Occupancy(d) = Occupancy(c)
      BY DEF Occupancy
    <2> HIDE DEF q, r, d
    <2> QED BY <1>1, <2>1, <2>2, <2>3
  <1>5. d \in Connections
    BY HandleRequestType
  <1> HIDE DEF d, r, n
  <1>6. /\ Occupancy(c) \in Nat /\ Occupancy(d) \in Nat /\ DataBytes(q) \in Nat
        /\ DataBytes(Tail(q)) \in Nat
    BY <1>1, <1>5, OccupancyNat, DataFacts
  <1>7. DataBytes(q) <= b /\ Occupancy(c) + DataBytes(q) < m
    BY DEF Paced, Load
  <1> HIDE DEF q
  <1>8. DataBytes(Tail(q)) <= b /\ Occupancy(d) + DataBytes(Tail(q)) < m
    BY <1>2, <1>4, <1>6, <1>7
  <1>9. ASSUME NEW i \in DataAt(Tail(q)) PROVE \E s \in Streams : Tail(q)[i].on = {s}
    <2>1. i \in 1 .. Len(q) - 1 /\ Tail(q)[i] = q[i + 1] /\ Tail(q)[i].op = "data"
      BY <1>1, <1>9 DEF DataAt
    <2>2. i + 1 \in DataAt(q)
      BY <1>1, <2>1 DEF DataAt
    <2> QED BY <2>1, <2>2 DEF Paced, OneStream, q
  <1> QED BY <1>4, <1>8, <1>9 DEF Paced, Load, OneStream, d

\* A byte acknowledged makes room.
LEMMA PacedAcknowledged ==
  ASSUME QueueLimits, NEW c \in Connections, NEW b, NEW m \in Nat, NEW s \in Streams,
         c.held[s] > 0, Paced(c, b, m)
  PROVE  Paced(Acknowledge(c, s), b, m)
  <1> DEFINE d == Acknowledge(c, s)
  <1>1. d.requests = c.requests /\ Occupancy(d) = Occupancy(c) - 1
    BY AcknowledgeEffect
  <1>2. Occupancy(c) \in Nat /\ DataBytes(c.requests) \in Nat
    BY OccupancyNat, DataFacts DEF Connections
  <1> HIDE DEF d
  <1>3. Load(d) < m
    BY <1>1, <1>2 DEF Paced, Load
  <1> QED BY <1>1, <1>3 DEF Paced, d

\* A connection of which nothing has been asked at this instant: the bound is about
\* its occupancy alone, and the instant's count of bytes may start again.
LEMMA PacedInstant ==
  ASSUME QueueLimits, NEW c \in Connections, c.requests = <<>>, NEW m
  PROVE  /\ \A b : Paced(c, b, m) => Paced(c, 0, m)
         /\ Occupancy(c) < m => Paced(c, 0, m)
  <1>1. Occupancy(c) \in Nat
    BY OccupancyNat
  <1>2. Load(c) = Occupancy(c)
    BY <1>1, NothingAsked DEF Load
  <1> QED BY <1>2, NothingAsked DEF Paced, OneStream

LEMMA FreshOccupancy ==
  ASSUME QueueLimits
  PROVE  FreshConnection \in Connections /\ Occupancy(FreshConnection) = 0
  <1>1. [s \in Streams |-> 0] \in [Streams -> Nat]
    OBVIOUS
  <1>2. SumFunction([s \in Streams |-> 0]) = 0
    BY <1>1, HeldZero
  <1>3. <<>> \in Seq(Requests) /\ <<>> \in Seq(Indications)
    OBVIOUS
  <1> QED BY <1>1, <1>2, <1>3 DEF FreshConnection, Connections, Occupancy

-----------------------------------------------------------------------------
(* Admission: QUIC accepts every write.                                    *)

DrainComing(n) == \E i \in DOMAIN n : n[i] = "drain"
FullComing(n)  == \E i \in DOMAIN n : /\ n[i] = "full"
                                      /\ \A j \in DOMAIN n : j > i => n[j] # "drain"

IsLastData(q, i) == i \in DataAt(q) /\ \A j \in DataAt(q) : j <= i

\* Data on its way finds the connection accepting: all of it but the last write
\* fits below the limit.
Admits(c) ==
  /\ ~c.accept => Occupancy(c) >= LowWaterMark
  /\ DataAt(c.requests) # {} => c.accept
  /\ \A i : IsLastData(c.requests, i) => Load(c) - c.requests[i].len < SendQueueLimit

\* A connection that refuses has said "full" since its last "drain", or the
\* application, blocked, has heard it.
Blocks(c, blocked) ==
  ~c.accept => FullComing(c.inds) \/ (blocked /\ ~DrainComing(c.inds))

\* A "drain" that the application has not heard was raised at this instant, so
\* what was written since, b bytes at most, started below the low-water mark.
Signals(c, b) ==
  DrainComing(c.inds) => IF c.accept THEN Load(c) < LowWaterMark + b
                         ELSE SendQueueLimit < LowWaterMark + b

LEMMA IndicationAppended ==
  ASSUME NEW n \in Seq(Indications)
  PROVE  /\ FullComing(Append(n, "full"))
         /\ DrainComing(Append(n, "full")) <=> DrainComing(n)
         /\ FullComing(n) => FullComing(Append(n, "rejected"))
         /\ DrainComing(Append(n, "rejected")) <=> DrainComing(n)
  <1> DEFINE p == Append(n, "full")
             e == Append(n, "rejected")
  <1>1. /\ DOMAIN n = 1 .. Len(n) /\ Len(n) \in Nat /\ DOMAIN p = 1 .. Len(n) + 1
        /\ \A i \in 1 .. Len(n) : p[i] = n[i]
        /\ p[Len(n) + 1] = "full"
        /\ DOMAIN e = 1 .. Len(n) + 1 /\ e[Len(n) + 1] = "rejected"
        /\ \A i \in 1 .. Len(n) : e[i] = n[i]
    BY AppendProperties, LenProperties DEF Indications
  <1> HIDE DEF p, e
  <1>2. FullComing(p)
    BY <1>1 DEF FullComing
  <1>3. DrainComing(p) <=> DrainComing(n)
    BY <1>1 DEF DrainComing
  <1>4. FullComing(n) => FullComing(e)
    BY <1>1 DEF FullComing
  <1>5. DrainComing(e) <=> DrainComing(n)
    BY <1>1 DEF DrainComing
  <1> QED BY <1>2, <1>3, <1>4, <1>5 DEF p, e

LEMMA IndicationTaken ==
  ASSUME NEW n \in Seq(Indications), n # <<>>
  PROVE  /\ Head(n) = n[1] /\ Head(n) \in Indications
         /\ DrainComing(Tail(n)) => DrainComing(n)
         /\ Head(n) # "drain" /\ DrainComing(n) => DrainComing(Tail(n))
         /\ Head(n) = "drain" => DrainComing(n)
         /\ Head(n) # "full" /\ FullComing(n) => FullComing(Tail(n))
         /\ Head(n) = "full" /\ FullComing(n) => FullComing(Tail(n)) \/ ~DrainComing(Tail(n))
  <1> DEFINE t == Tail(n)
  <1>1. /\ Head(n) = n[1] /\ Head(n) \in Indications /\ Len(n) \in Nat \ {0}
        /\ DOMAIN n = 1 .. Len(n) /\ DOMAIN t = 1 .. Len(n) - 1
        /\ \A i \in 1 .. Len(n) - 1 : t[i] = n[i + 1]
    <2>1. Head(n) = n[1]
      OBVIOUS
    <2> QED BY <2>1, HeadTailProperties, LenProperties, EmptySeq
  <1> HIDE DEF t
  <1>2. \A i \in 2 .. Len(n) : i - 1 \in 1 .. Len(n) - 1 /\ t[i - 1] = n[i]
    BY <1>1
  <1>3. \A i \in DOMAIN n : i = 1 \/ i \in 2 .. Len(n)
    BY <1>1
  <1>4. DrainComing(t) => DrainComing(n)
    BY <1>1 DEF DrainComing
  <1>5. n[1] # "drain" /\ DrainComing(n) => DrainComing(t)
    BY <1>1, <1>2, <1>3 DEF DrainComing
  <1>6. n[1] = "drain" => DrainComing(n)
    BY <1>1 DEF DrainComing
  <1>7. ASSUME NEW i \in 2 .. Len(n), n[i] = "full", \A j \in DOMAIN n : j > i => n[j] # "drain"
        PROVE  FullComing(t)
    <2>1. i - 1 \in DOMAIN t /\ t[i - 1] = "full"
      BY <1>1, <1>2, <1>7
    <2>2. ASSUME NEW j \in DOMAIN t, j > i - 1 PROVE t[j] # "drain"
      <3>1. j + 1 \in DOMAIN n /\ j + 1 > i /\ t[j] = n[j + 1]
        BY <1>1, <2>2
      <3> QED BY <1>7, <3>1
    <2> QED BY <2>1, <2>2 DEF FullComing
  <1>8. n[1] # "full" /\ FullComing(n) => FullComing(t)
    BY <1>3, <1>7 DEF FullComing
  <1>9. ASSUME n[1] = "full", FullComing(n), ~FullComing(t) PROVE ~DrainComing(t)
    <2>1. PICK i \in DOMAIN n : n[i] = "full" /\ \A j \in DOMAIN n : j > i => n[j] # "drain"
      BY <1>9 DEF FullComing
    <2>2. i = 1
      BY <1>3, <1>7, <1>9, <2>1
    <2>3. \A j \in DOMAIN t : j + 1 \in DOMAIN n /\ j + 1 > 1 /\ t[j] = n[j + 1]
      BY <1>1
    <2> QED BY <2>1, <2>2, <2>3 DEF DrainComing
  <1> QED BY <1>1, <1>4, <1>5, <1>6, <1>8, <1>9 DEF t

\* The last data request.
LEMMA LastData ==
  ASSUME NEW q \in Seq(Requests), DataAt(q) # {}
  PROVE  \E i : IsLastData(q, i)
  <1> DEFINE T == {Len(q) - i : i \in DataAt(q)}
  <1>1. DOMAIN q = 1 .. Len(q) /\ Len(q) \in Nat
    BY LenProperties
  <1>2. \A i \in DataAt(q) : i \in 1 .. Len(q) /\ Len(q) - i \in Nat
    BY <1>1 DEF DataAt
  <1>3. T \in SUBSET Nat /\ T # {}
    BY <1>2
  <1>4. PICK m \in T : \A n \in T : m <= n
    BY <1>3, LeastNat
  <1>5. PICK i \in DataAt(q) : m = Len(q) - i
    BY <1>4
  <1>6. ASSUME NEW j \in DataAt(q) PROVE j <= i
    <2>1. Len(q) - i <= Len(q) - j
      BY <1>4, <1>5
    <2> HIDE DEF T
    <2> QED BY <1>1, <1>2, <2>1
  <1> QED BY <1>6 DEF IsLastData

LEMMA DataOfTail ==
  ASSUME NEW q \in Seq(Requests), q # <<>>
  PROVE  /\ \A i \in DataAt(Tail(q)) : i + 1 \in DataAt(q) /\ Tail(q)[i] = q[i + 1]
         /\ \A i : IsLastData(Tail(q), i) => /\ IsLastData(q, i + 1)
                                             /\ Tail(q)[i] = q[i + 1]
  <1>1. /\ Len(q) \in Nat \ {0}
        /\ DOMAIN q = 1 .. Len(q) /\ DOMAIN Tail(q) = 1 .. Len(q) - 1
        /\ \A i \in 1 .. Len(q) - 1 : Tail(q)[i] = q[i + 1]
    BY RequestTaken
  <1>2. \A i \in DataAt(Tail(q)) : i + 1 \in DataAt(q) /\ Tail(q)[i] = q[i + 1]
    BY <1>1 DEF DataAt
  <1>3. ASSUME NEW i, IsLastData(Tail(q), i) PROVE IsLastData(q, i + 1)
    <2>1. i \in DataAt(Tail(q)) /\ i \in 1 .. Len(q) - 1
      BY <1>1, <1>3 DEF IsLastData, DataAt
    <2>2. ASSUME NEW j \in DataAt(q), j # 1 PROVE j <= i + 1
      <3>1. j \in 2 .. Len(q) /\ j - 1 \in 1 .. Len(q) - 1 /\ (j - 1) + 1 = j /\ q[j].op = "data"
        BY <1>1, <2>2 DEF DataAt
      <3>2. Tail(q)[j - 1] = q[j]
        BY <1>1, <3>1
      <3>3. j - 1 \in DataAt(Tail(q))
        BY <1>1, <3>1, <3>2 DEF DataAt
      <3>4. j - 1 <= i
        BY <1>3, <3>3 DEF IsLastData
      <3> QED BY <2>1, <3>1, <3>4
    <2>3. \A j \in DataAt(q) : j <= i + 1
      BY <1>1, <2>1, <2>2
    <2> QED BY <1>2, <2>1, <2>3 DEF IsLastData
  <1> QED BY <1>2, <1>3 DEF IsLastData

\* Requests without data change none of this.
LEMMA AdmitsAsked ==
  ASSUME NEW c \in Connections, NEW d \in Connections, Asked(c, d)
  PROVE  /\ Admits(c) => Admits(d)
         /\ \A b : Signals(c, b) => Signals(d, b)
         /\ \A k : Blocks(c, k) => Blocks(d, k)
  <1>1. /\ c.requests \in Seq(Requests) /\ d.requests \in Seq(Requests)
        /\ Grown(c.requests, d.requests)
    BY DEF Connections, Asked
  <1>2. /\ DataAt(d.requests) = DataAt(c.requests)
        /\ DataBytes(d.requests) = DataBytes(c.requests)
    BY <1>1, GrownData
  <1>3. \A i \in DataAt(c.requests) : d.requests[i] = c.requests[i]
    BY <1>1, LenProperties DEF Grown, DataAt
  <1>4. /\ Occupancy(d) = Occupancy(c) /\ d.accept = c.accept /\ d.inds = c.inds
    BY DEF Asked, Occupancy
  <1> QED BY <1>2, <1>3, <1>4 DEF Admits, Signals, Blocks, Load, IsLastData

\* The queue moves: what is left on its way was counted before.
LEMMA AdmitsMoved ==
  ASSUME QueueLimits, NEW c \in Connections, NEW d \in Connections, NEW b \in Nat, NEW k,
         Admits(c), Signals(c, b), Blocks(c, k),
         Filled(c, d) \/ Emptied(c, d) \/ Steady(c, d),
         Load(d) <= Load(c), DataBytes(d.requests) <= b,
         DataAt(d.requests) # {} => c.accept /\ Occupancy(d) < SendQueueLimit,
         \A i : IsLastData(d.requests, i) => Load(d) - d.requests[i].len < SendQueueLimit
  PROVE  Admits(d) /\ Signals(d, b) /\ Blocks(d, k)
  <1>1. /\ Occupancy(c) \in Nat /\ Occupancy(d) \in Nat
        /\ DataBytes(c.requests) \in Nat /\ DataBytes(d.requests) \in Nat
        /\ c.inds \in Seq(Indications)
        /\ LowWaterMark \in Nat /\ SendQueueLimit \in Nat /\ LowWaterMark <= SendQueueLimit
    BY OccupancyNat, DataFacts DEF Connections, QueueLimits
  <1>2. CASE Filled(c, d)
    <2>1. /\ c.accept /\ ~d.accept /\ Occupancy(d) >= SendQueueLimit
          /\ d.inds = Append(c.inds, "full")
      BY <1>2 DEF Filled
    <2>2. FullComing(d.inds) /\ (DrainComing(d.inds) <=> DrainComing(c.inds))
      BY <1>1, <2>1, IndicationAppended
    <2>3. DataAt(d.requests) = {}
      BY <1>1, <2>1
    <2>4. Admits(d)
      BY <1>1, <2>1, <2>3 DEF Admits, IsLastData
    <2>5. Signals(d, b)
      BY <1>1, <2>1, <2>2 DEF Signals, Load
    <2> QED BY <2>2, <2>4, <2>5 DEF Blocks
  <1>3. CASE Emptied(c, d)
    <2>1. d.accept /\ Occupancy(d) < LowWaterMark
      BY <1>3 DEF Emptied
    <2>2. Signals(d, b)
      BY <1>1, <2>1 DEF Signals, Load
    <2> QED BY <2>1, <2>2 DEF Admits, Blocks
  <1>4. CASE Steady(c, d)
    <2>1. /\ d.accept = c.accept /\ d.inds = c.inds
          /\ Occupancy(c) >= LowWaterMark => Occupancy(d) >= LowWaterMark
      BY <1>4 DEF Steady
    <2>2. Signals(d, b)
      BY <1>1, <2>1 DEF Signals, Load
    <2>3. Blocks(d, k)
      BY <2>1 DEF Blocks
    <2>4. Admits(d)
      BY <2>1 DEF Admits
    <2> QED BY <2>2, <2>3, <2>4
  <1> QED BY <1>2, <1>3, <1>4

LEMMA AdmitsHandled ==
  ASSUME QueueLimits, NEW c \in Connections, NEW b \in Nat, NEW k, c.requests # <<>>,
         Admits(c), Signals(c, b), Blocks(c, k), OneStream(c.requests),
         DataBytes(c.requests) <= b
  PROVE  LET d == HandleRequest(c) IN
         /\ Admits(d) /\ Signals(d, b) /\ Blocks(d, k)
         /\ \/ d.rejected = c.rejected
            \/ /\ Head(c.requests).op = "control" /\ ~c.accept
               /\ d.rejected = c.rejected \cup {"control"}
  <1> DEFINE q == c.requests
             r == Head(q)
             d == HandleRequest(c)
  <1>1. /\ q \in Seq(Requests) /\ r = q[1] /\ r \in Requests /\ r.len \in Nat
        /\ Tail(q) \in Seq(Requests) /\ Len(q) \in Nat \ {0} /\ DOMAIN q = 1 .. Len(q)
    BY RequestTaken DEF Connections, Requests
  <1>2. d \in Connections
    BY HandleRequestType
  <1>3. r.op = "data" => c.accept /\ \E s \in Streams : r.on = {s}
    <2>1. r.op = "data" => 1 \in DataAt(q)
      BY <1>1 DEF DataAt
    <2> QED BY <1>1, <2>1 DEF Admits, OneStream
  <1>4. /\ d.requests = Tail(q)
        /\ \/ /\ r.op = "reset" /\ Occupancy(d) <= Occupancy(c) /\ d.rejected = c.rejected
              /\ Filled(c, d) \/ Emptied(c, d) \/ Steady(c, d)
           \/ /\ r.op = "data" /\ c.accept /\ Occupancy(d) = Occupancy(c) + r.len
              /\ d.rejected = c.rejected
              /\ Filled(c, d) \/ Emptied(c, d) \/ Steady(c, d)
           \/ /\ r.op = "control" /\ d.held = c.held /\ d.accept = c.accept
              /\ \/ d.inds = c.inds /\ d.rejected = c.rejected
                 \/ /\ ~c.accept /\ d.inds = Append(c.inds, "rejected")
                    /\ d.rejected = c.rejected \cup {"control"}
    <2>1. r.op \in {"data", "reset", "control"}
      BY <1>1 DEF Requests
    <2>2. r.op = "data" => c.accept /\ \E s \in Streams : r.on = {s}
      BY <1>3
    <2> QED BY <2>1, <2>2, HandleEffect
  <1> SUFFICES Admits(d) /\ Signals(d, b) /\ Blocks(d, k)
    <2>1. \/ d.rejected = c.rejected
          \/ r.op = "control" /\ ~c.accept /\ d.rejected = c.rejected \cup {"control"}
      BY <1>4
    <2> QED BY <2>1
  <1>5. DataBytes(q) = DataBytes(Tail(q)) + IF r.op = "data" THEN r.len ELSE 0
    BY <1>1, DataTaken
  <1>6. /\ Occupancy(c) \in Nat /\ Occupancy(d) \in Nat
        /\ DataBytes(q) \in Nat /\ DataBytes(Tail(q)) \in Nat
        /\ \A i \in DataAt(Tail(q)) : /\ Tail(q)[i].len \in Nat
                                      /\ Tail(q)[i].len <= DataBytes(Tail(q))
        /\ LowWaterMark \in Nat /\ SendQueueLimit \in Nat
    <2>1. Occupancy(c) \in Nat /\ Occupancy(d) \in Nat
      BY <1>2, OccupancyNat
    <2>2. LowWaterMark \in Nat /\ SendQueueLimit \in Nat
      BY DEF QueueLimits
    <2> HIDE DEF q, r, d
    <2> QED BY <1>1, <2>1, <2>2, DataFacts
  <1>7. /\ \A i \in DataAt(Tail(q)) : i + 1 \in DataAt(q)
        /\ \A i : IsLastData(Tail(q), i) => /\ IsLastData(q, i + 1)
                                            /\ Tail(q)[i] = q[i + 1]
    BY <1>1, DataOfTail
  <1>8. \A i : IsLastData(q, i) => Load(c) - q[i].len < SendQueueLimit
    BY DEF Admits
  <1>9. DataAt(Tail(q)) # {} => c.accept
    <2>1. DataAt(Tail(q)) # {} => DataAt(q) # {}
      BY <1>7
    <2> QED BY <2>1 DEF Admits
  <1>10. Load(c) = Occupancy(c) + DataBytes(q) /\ Load(d) = Occupancy(d) + DataBytes(Tail(q))
    BY <1>4 DEF Load
  <1>11. r.op = "control" => Occupancy(d) = Occupancy(c)
    BY <1>4 DEF Occupancy
  <1> HIDE DEF q, r, d
  <1>12. Load(d) <= Load(c) /\ DataBytes(Tail(q)) <= b /\ Load(c) \in Nat /\ Load(d) \in Nat
    <2>1. DataBytes(q) <= b
      BY DEF q
    <2>2. Occupancy(d) <= Occupancy(c) + IF r.op = "data" THEN r.len ELSE 0
      BY <1>1, <1>4, <1>6, <1>11
    <2> DEFINE now == Occupancy(d)
               was == Occupancy(c)
               n   == IF r.op = "data" THEN r.len ELSE 0
    <2>3. n \in Nat
      BY <1>1
    <2> HIDE DEF now, was, n
    <2>4. /\ now \in Nat /\ was \in Nat /\ DataBytes(q) \in Nat /\ DataBytes(Tail(q)) \in Nat
          /\ now <= was + n /\ DataBytes(q) = DataBytes(Tail(q)) + n
          /\ Load(c) = was + DataBytes(q) /\ Load(d) = now + DataBytes(Tail(q))
      BY <1>5, <1>6, <1>10, <2>2 DEF now, was, n
    <2> QED BY <2>1, <2>3, <2>4
  <1>13. \A i : IsLastData(Tail(q), i) => Load(d) - Tail(q)[i].len < SendQueueLimit
    <2> SUFFICES ASSUME NEW i, IsLastData(Tail(q), i)
                 PROVE  Load(d) - Tail(q)[i].len < SendQueueLimit
      OBVIOUS
    <2>1. Load(c) - Tail(q)[i].len < SendQueueLimit
      BY <1>7, <1>8
    <2>2. Tail(q)[i].len \in Nat
      BY <1>6 DEF IsLastData
    <2> DEFINE len == Tail(q)[i].len
    <2> HIDE DEF len
    <2>3. Load(c) - len < SendQueueLimit /\ len \in Nat /\ SendQueueLimit \in Nat
      BY <1>6, <2>1, <2>2 DEF len
    <2>4. Load(d) - len < SendQueueLimit
      BY <1>12, <2>3
    <2> QED BY <2>4 DEF len
  <1>14. DataAt(Tail(q)) # {} => c.accept /\ Occupancy(d) < SendQueueLimit
    <2> SUFFICES ASSUME DataAt(Tail(q)) # {} PROVE Occupancy(d) < SendQueueLimit
      BY <1>9
    <2>1. PICK i : IsLastData(Tail(q), i)
      BY <1>1, LastData
    <2>2. Load(d) - Tail(q)[i].len < SendQueueLimit
      BY <1>13, <2>1
    <2>3. Tail(q)[i].len \in Nat /\ Tail(q)[i].len <= DataBytes(Tail(q))
      BY <1>6, <2>1 DEF IsLastData
    <2> DEFINE len == Tail(q)[i].len
    <2> HIDE DEF len
    <2>4. /\ Load(d) - len < SendQueueLimit /\ len \in Nat /\ len <= DataBytes(Tail(q))
          /\ SendQueueLimit \in Nat /\ Occupancy(d) \in Nat /\ DataBytes(Tail(q)) \in Nat
      BY <1>6, <2>2, <2>3 DEF len
    <2> QED BY <1>10, <2>4
  <1>15. CASE r.op = "control"
    <2>1. /\ d.accept = c.accept
          /\ DrainComing(d.inds) <=> DrainComing(c.inds)
          /\ FullComing(c.inds) => FullComing(d.inds)
      <3>1. d.accept = c.accept /\ (d.inds = c.inds \/ d.inds = Append(c.inds, "rejected"))
        BY <1>4, <1>15
      <3>2. c.inds \in Seq(Indications)
        BY DEF Connections
      <3> QED BY ONLY <3>1, <3>2, IndicationAppended
    <2>2. Occupancy(d) = Occupancy(c) /\ Load(d) = Load(c)
      BY <1>5, <1>6, <1>10, <1>11, <1>15
    <2> QED BY <1>4, <1>9, <1>13, <2>1, <2>2 DEF Admits, Signals, Blocks
  <1>16. CASE r.op # "control"
    BY <1>2, <1>4, <1>12, <1>13, <1>14, <1>16, AdmitsMoved
  <1> QED BY <1>15, <1>16

LEMMA AdmitsAcknowledged ==
  ASSUME QueueLimits, NEW c \in Connections, NEW b \in Nat, NEW k, NEW s \in Streams, c.held[s] > 0,
         c.requests = <<>>, Admits(c), Signals(c, b), Blocks(c, k)
  PROVE  LET d == Acknowledge(c, s) IN
         Admits(d) /\ Signals(d, b) /\ Blocks(d, k) /\ d.rejected = c.rejected
  <1> DEFINE d == Acknowledge(c, s)
  <1>1. /\ d.requests = <<>> /\ d.rejected = c.rejected
        /\ Occupancy(d) = Occupancy(c) - 1
        /\ Filled(c, d) \/ Emptied(c, d) \/ Steady(c, d)
    BY AcknowledgeEffect
  <1>2. d \in Connections
    BY AcknowledgeType
  <1> HIDE DEF d
  <1>3. DataAt(<<>>) = {} /\ DataBytes(<<>>) = 0
    BY SumEmpty DEF DataAt, DataBytes
  <1>4. Load(d) <= Load(c) /\ DataBytes(d.requests) <= b
    BY <1>1, <1>2, <1>3, OccupancyNat DEF Load
  <1>5. /\ DataAt(d.requests) = {} /\ \A i : ~IsLastData(d.requests, i)
    BY <1>1, <1>3 DEF IsLastData
  <1>6. Admits(d) /\ Signals(d, b) /\ Blocks(d, k)
    BY <1>1, <1>2, <1>4, <1>5, AdmitsMoved
  <1> QED BY <1>1, <1>6 DEF d

\* A write below the limit is the last data, and all before it fits below the limit.
LEMMA AdmitsSent ==
  ASSUME QueueLimits, NEW c \in Connections, NEW b \in Nat, NEW k, NEW s \in Streams, NEW n \in Nat,
         Admits(c), Signals(c, b), c.accept, Load(c) < SendQueueLimit
  PROVE  LET d == SendData(c, s, n) IN
         Admits(d) /\ Signals(d, b + n) /\ Blocks(d, k) /\ d.rejected = c.rejected
  <1> DEFINE d == SendData(c, s, n)
             q == c.requests
             r == [op |-> "data", on |-> {s}, len |-> n]
  <1>1. /\ d.held = c.held /\ d.accept = c.accept /\ d.inds = c.inds /\ d.rejected = c.rejected
        /\ d.requests = Append(q, r) /\ r \in Requests
        /\ DataBytes(d.requests) = DataBytes(q) + n
    BY DataSent
  <1>2. q \in Seq(Requests)
    BY DEF Connections
  <1>3. /\ DOMAIN q = 1 .. Len(q) /\ DOMAIN d.requests = 1 .. Len(q) + 1 /\ Len(q) \in Nat
        /\ d.requests[Len(q) + 1] = r
    BY <1>1, <1>2, RequestAppended
  <1>4. r.op = "data" /\ r.len = n
    OBVIOUS
  <1> HIDE DEF d, q, r
  <1>5. Occupancy(d) = Occupancy(c) /\ Occupancy(c) \in Nat /\ DataBytes(q) \in Nat
    BY <1>1, <1>2, OccupancyNat, DataFacts DEF Occupancy
  <1>6. Load(d) = Load(c) + n /\ Load(c) \in Nat
    BY <1>1, <1>5 DEF Load, q
  <1>7. \A i : IsLastData(d.requests, i) => i = Len(q) + 1
    BY <1>3, <1>4 DEF IsLastData, DataAt
  <1>8. Admits(d)
    <2>1. \A i : IsLastData(d.requests, i) => Load(d) - d.requests[i].len < SendQueueLimit
      BY <1>3, <1>4, <1>6, <1>7
    <2> QED BY <1>1, <2>1 DEF Admits
  <1>9. Signals(d, b + n)
    BY <1>1, <1>6 DEF Signals, QueueLimits
  <1>10. Blocks(d, k)
    BY <1>1 DEF Blocks
  <1> QED BY <1>1, <1>8, <1>9, <1>10 DEF d

\* The application takes an indication: "full" blocks it, "drain" frees it.
LEMMA AdmitsTaken ==
  ASSUME NEW c \in Connections, NEW b \in Nat, NEW k \in BOOLEAN, c.inds # <<>>,
         Admits(c), Signals(c, b), Blocks(c, k)
  PROVE  LET d == TakeIndication(c) IN
         /\ Admits(d) /\ Signals(d, b) /\ d.rejected = c.rejected
         /\ d.requests = c.requests /\ d.held = c.held /\ d.accept = c.accept
         /\ Head(c.inds) # "drain" => Blocks(d, k \/ Head(c.inds) = "full")
         /\ Head(c.inds) = "drain" => /\ Blocks(d, FALSE)
                                      /\ ~c.accept => SendQueueLimit < LowWaterMark + b
  <1> DEFINE d == TakeIndication(c)
  <1>1. /\ d.requests = c.requests /\ d.held = c.held /\ d.accept = c.accept
        /\ d.inds = Tail(c.inds) /\ d.rejected = c.rejected
    BY DEF TakeIndication, Connections
  <1>2. c.inds \in Seq(Indications)
    BY DEF Connections
  <1> HIDE DEF d
  <1>3. Load(d) = Load(c) /\ Occupancy(d) = Occupancy(c)
    BY <1>1 DEF Load, Occupancy
  <1>4. Admits(d)
    BY <1>1, <1>3 DEF Admits
  <1>5. Signals(d, b)
    BY <1>1, <1>2, <1>3, IndicationTaken DEF Signals
  <1>6. Head(c.inds) # "drain" => Blocks(d, k \/ Head(c.inds) = "full")
    <2> SUFFICES ASSUME Head(c.inds) # "drain", ~c.accept
                 PROVE  \/ FullComing(Tail(c.inds))
                        \/ (k \/ Head(c.inds) = "full") /\ ~DrainComing(Tail(c.inds))
      BY <1>1 DEF Blocks
    <2>1. CASE FullComing(c.inds)
      BY <1>2, <2>1, IndicationTaken
    <2>2. CASE k /\ ~DrainComing(c.inds)
      BY <1>2, <2>2, IndicationTaken
    <2> QED BY <2>1, <2>2 DEF Blocks
  <1>7. ASSUME Head(c.inds) = "drain"
        PROVE  Blocks(d, FALSE) /\ (~c.accept => SendQueueLimit < LowWaterMark + b)
    <2>1. DrainComing(c.inds) /\ (FullComing(c.inds) => FullComing(Tail(c.inds)))
      BY <1>2, <1>7, IndicationTaken
    <2> QED BY <1>1, <2>1 DEF Blocks, Signals
  <1> QED BY <1>1, <1>4, <1>5, <1>6, <1>7 DEF d
-----------------------------------------------------------------------------
(* Streams: what QUIC holds belongs to an open stream. *)

\* QUIC holds bytes of stream s, or will when it has handled the requests.
Owed(c, s) == c.held[s] > 0 \/ \E i \in DataAt(c.requests) : s \in c.requests[i].on

\* A reset of s follows all its data.
ResetComing(q, s) ==
  \E i \in DOMAIN q : /\ q[i].op = "reset" /\ s \in q[i].on
                      /\ \A j \in DataAt(q) : s \in q[j].on => j < i

\* Every stream with bytes is open, or about to be reset.
OwedOpen(c, open) == \A s \in Streams : Owed(c, s) => s \in open \/ ResetComing(c.requests, s)

LEMMA OwedAsked ==
  ASSUME NEW c \in Connections, NEW d \in Connections, Asked(c, d),
         NEW open, NEW left, OwedOpen(c, open),
         \A s \in open \ left : \E i \in Len(c.requests) + 1 .. Len(d.requests) :
           d.requests[i].op = "reset" /\ s \in d.requests[i].on
  PROVE  OwedOpen(d, left)
  <1> DEFINE q == c.requests
             p == d.requests
  <1>1. /\ q \in Seq(Requests) /\ p \in Seq(Requests) /\ Grown(q, p)
        /\ d.held = c.held
    BY DEF Connections, Asked
  <1>2. DataAt(p) = DataAt(q)
    BY <1>1, GrownData
  <1>3. /\ DOMAIN q = 1 .. Len(q) /\ DOMAIN p = 1 .. Len(p) /\ Len(q) \in Nat /\ Len(p) \in Nat
        /\ Len(q) <= Len(p) /\ \A i \in 1 .. Len(q) : p[i] = q[i]
    BY <1>1, LenProperties DEF Grown
  <1>4. \A i \in DataAt(q) : i \in 1 .. Len(q) /\ p[i] = q[i]
    BY <1>3 DEF DataAt
  <1> SUFFICES ASSUME NEW s \in Streams, Owed(d, s), s \notin left
               PROVE  ResetComing(p, s)
    BY DEF OwedOpen
  <1>5. Owed(c, s)
    BY <1>1, <1>2, <1>4 DEF Owed
  <1>6. CASE s \in open
    <2>1. PICK i \in Len(q) + 1 .. Len(p) : p[i].op = "reset" /\ s \in p[i].on
      BY <1>6
    <2>2. i \in DOMAIN p /\ \A j \in DataAt(p) : j < i
      BY <1>2, <1>3, <1>4
    <2> QED BY <2>1, <2>2 DEF ResetComing
  <1>7. CASE ResetComing(q, s)
    <2>1. PICK i \in DOMAIN q : /\ q[i].op = "reset" /\ s \in q[i].on
                                /\ \A j \in DataAt(q) : s \in q[j].on => j < i
      BY <1>7 DEF ResetComing
    <2>2. i \in DOMAIN p /\ p[i] = q[i]
      BY <1>3
    <2> QED BY <1>2, <1>4, <2>1, <2>2 DEF ResetComing
  <1> QED BY <1>5, <1>6, <1>7 DEF OwedOpen

LEMMA OwedSent ==
  ASSUME NEW c \in Connections, NEW s \in Streams, NEW n \in Nat, NEW open,
         s \in open, OwedOpen(c, open)
  PROVE  OwedOpen(SendData(c, s, n), open)
  <1> DEFINE d == SendData(c, s, n)
             q == c.requests
             p == d.requests
             r == [op |-> "data", on |-> {s}, len |-> n]
  <1>1. /\ d.held = c.held /\ p = Append(q, r) /\ r \in Requests
        /\ q \in Seq(Requests)
    BY DataSent DEF Connections
  <1>2. /\ DOMAIN q = 1 .. Len(q) /\ DOMAIN p = 1 .. Len(q) + 1 /\ Len(q) \in Nat
        /\ p[Len(q) + 1] = r /\ \A i \in 1 .. Len(q) : p[i] = q[i]
    BY <1>1, RequestAppended
  <1>3. r.on = {s}
    OBVIOUS
  <1> HIDE DEF d, r
  <1> SUFFICES ASSUME NEW u \in Streams, Owed(d, u), u \notin open
               PROVE  ResetComing(p, u)
    BY DEF OwedOpen, d
  <1>4. u # s
    OBVIOUS
  <1>5. \A i \in DataAt(p) : u \in p[i].on => i \in DataAt(q) /\ p[i] = q[i]
    BY <1>2, <1>3, <1>4 DEF DataAt
  <1>6. Owed(c, u)
    BY <1>1, <1>5 DEF Owed
  <1>7. PICK i \in DOMAIN q : /\ q[i].op = "reset" /\ u \in q[i].on
                              /\ \A j \in DataAt(q) : u \in q[j].on => j < i
    BY <1>6 DEF OwedOpen, ResetComing
  <1>8. i \in DOMAIN p /\ p[i] = q[i]
    BY <1>2
  <1> QED BY <1>5, <1>7, <1>8 DEF ResetComing

LEMMA OwedHandled ==
  ASSUME QueueLimits, NEW c \in Connections, NEW open, OwedOpen(c, open), c.requests # <<>>,
         Head(c.requests).op # "reset" => c.accept
  PROVE  OwedOpen(HandleRequest(c), open)
  <1> DEFINE d == HandleRequest(c)
             q == c.requests
             r == Head(q)
             t == Tail(q)
  <1>1. /\ q \in Seq(Requests) /\ Len(q) \in Nat \ {0} /\ r = q[1]
        /\ DOMAIN q = 1 .. Len(q) /\ DOMAIN t = 1 .. Len(q) - 1
        /\ \A i \in 1 .. Len(q) - 1 : t[i] = q[i + 1]
    BY RequestTaken DEF Connections
  <1>2. /\ d.requests = t
        /\ \/ /\ r.op = "reset"
              /\ d.held = [s \in Streams |-> IF s \in r.on THEN 0 ELSE c.held[s]]
           \/ /\ r.op = "data"
              /\ d.held = [s \in Streams |-> IF s \in r.on THEN c.held[s] + r.len ELSE c.held[s]]
           \/ r.op = "control" /\ d.held = c.held
    BY HandleEffect
  <1>3. \A i \in DataAt(t) : i + 1 \in DataAt(q) /\ t[i] = q[i + 1]
    BY <1>1, DataOfTail
  <1> HIDE DEF d, q, r, t
  <1> SUFFICES ASSUME NEW s \in Streams, Owed(d, s), s \notin open
               PROVE  ResetComing(t, s)
    BY <1>2 DEF OwedOpen, d
  <1>4. Owed(c, s)
    <2>1. CASE d.held[s] > 0
      <3>1. c.held[s] > 0 \/ (r.op = "data" /\ s \in r.on)
        BY <1>2, <2>1
      <3>2. r.op = "data" => 1 \in DataAt(q)
        BY <1>1 DEF DataAt
      <3> QED BY <1>1, <3>1, <3>2 DEF Owed, q
    <2>2. CASE \E i \in DataAt(t) : s \in t[i].on
      BY <1>3, <2>2 DEF Owed, q
    <2> QED BY <1>2, <2>1, <2>2 DEF Owed
  <1>5. PICK i \in DOMAIN q : /\ q[i].op = "reset" /\ s \in q[i].on
                              /\ \A j \in DataAt(q) : s \in q[j].on => j < i
    BY <1>4 DEF OwedOpen, ResetComing, q
  <1>6. i # 1
    <2> SUFFICES ASSUME i = 1 PROVE FALSE
      OBVIOUS
    <2>1. r.op = "reset" /\ s \in r.on /\ d.held[s] = 0
      BY <1>1, <1>2, <1>5
    <2>2. PICK j \in DataAt(t) : s \in t[j].on
      BY <1>2, <2>1 DEF Owed
    <2>3. j \in 1 .. Len(q) - 1
      BY <1>1 DEF DataAt
    <2>4. j + 1 < 1
      BY <1>3, <1>5, <2>2
    <2> QED BY <2>3, <2>4
  <1>7. i - 1 \in DOMAIN t /\ t[i - 1] = q[i]
    BY <1>1, <1>5, <1>6
  <1>8. ASSUME NEW j \in DataAt(t), s \in t[j].on PROVE j < i - 1
    <2>1. j \in 1 .. Len(q) - 1
      BY <1>1 DEF DataAt
    <2>2. j + 1 < i
      BY <1>3, <1>5, <1>8
    <2> QED BY <1>1, <1>5, <2>1, <2>2
  <1> QED BY <1>5, <1>7, <1>8 DEF ResetComing

LEMMA OwedAcknowledged ==
  ASSUME QueueLimits, NEW c \in Connections, NEW open, OwedOpen(c, open),
         NEW u \in Streams, c.held[u] > 0
  PROVE  OwedOpen(Acknowledge(c, u), open)
  <1> DEFINE d == Acknowledge(c, u)
  <1>1. d.requests = c.requests /\ d.held = [c.held EXCEPT ![u] = @ - 1]
    BY AcknowledgeEffect
  <1>2. c.held \in [Streams -> Nat]
    BY DEF Connections
  <1> HIDE DEF d
  <1>3. \A s \in Streams : d.held[s] > 0 => c.held[s] > 0
    BY <1>1, <1>2
  <1>4. \A s \in Streams : Owed(d, s) => Owed(c, s)
    BY <1>1, <1>3 DEF Owed
  <1> QED BY <1>1, <1>4 DEF OwedOpen, d


\* The requests that d adds to c reset every stream of S.
Closes(c, d, S) ==
  \A s \in S : \E i \in Len(c.requests) + 1 .. Len(d.requests) :
    d.requests[i].op = "reset" /\ s \in d.requests[i].on

LEMMA ResetCloses ==
  ASSUME NEW c \in Connections, NEW S \in SUBSET Streams
  PROVE  Closes(c, ResetStreams(c, S), S)
  <1> DEFINE d == ResetStreams(c, S)
             r == [op |-> "reset", on |-> S, len |-> 0]
  <1>1. S # {} => Len(d.requests) = Len(c.requests) + 1 /\ d.requests[Len(d.requests)] = r
    BY ResetAsked
  <1>2. Len(c.requests) \in Nat
    BY LenProperties DEF Connections
  <1>3. r.op = "reset" /\ r.on = S
    OBVIOUS
  <1> HIDE DEF d, r
  <1>4. S # {} => Len(d.requests) \in Len(c.requests) + 1 .. Len(d.requests)
    BY <1>1, <1>2
  <1> QED BY <1>1, <1>3, <1>4 DEF Closes, d

LEMMA ClosesAsked ==
  ASSUME NEW c \in Connections, NEW d \in Connections, NEW e \in Connections,
         Asked(c, d), Asked(d, e), NEW S
  PROVE  Closes(c, d, S) \/ Closes(d, e, S) => Closes(c, e, S)
  <1>1. /\ Len(c.requests) \in Nat /\ Len(d.requests) \in Nat /\ Len(e.requests) \in Nat
        /\ Len(c.requests) <= Len(d.requests) /\ Len(d.requests) <= Len(e.requests)
        /\ \A i \in 1 .. Len(d.requests) : e.requests[i] = d.requests[i]
    BY LenProperties DEF Connections, Asked, Grown
  <1>2. ASSUME Closes(c, d, S) PROVE Closes(c, e, S)
    <2>1. \A i \in Len(c.requests) + 1 .. Len(d.requests) :
             i \in Len(c.requests) + 1 .. Len(e.requests) /\ e.requests[i] = d.requests[i]
      BY <1>1
    <2> QED BY <1>2, <2>1 DEF Closes
  <1>3. ASSUME Closes(d, e, S) PROVE Closes(c, e, S)
    <2>1. \A i \in Len(d.requests) + 1 .. Len(e.requests) :
             i \in Len(c.requests) + 1 .. Len(e.requests)
      BY <1>1
    <2> QED BY <1>3, <2>1 DEF Closes
  <1> QED BY <1>2, <1>3

-----------------------------------------------------------------------------
(* Control frames among the requests. *)

AllControl(q)      == \A i \in DOMAIN q : q[i].op = "control"
NoControl(q)       == \A i \in DOMAIN q : q[i].op # "control"
OnlyLastControl(q) == \A i \in DOMAIN q : i < Len(q) => q[i].op # "control"

LEMMA ControlTaken ==
  ASSUME NEW q \in Seq(Requests), q # <<>>
  PROVE  /\ AllControl(q) => AllControl(Tail(q)) /\ Head(q).op = "control"
         /\ NoControl(q) => NoControl(Tail(q)) /\ Head(q).op # "control"
         /\ OnlyLastControl(q) => OnlyLastControl(Tail(q))
         /\ OnlyLastControl(q) /\ Head(q).op = "control" => Len(q) = 1
  <1>1. /\ Len(q) \in Nat \ {0} /\ Head(q) = q[1] /\ Len(Tail(q)) = Len(q) - 1
        /\ DOMAIN q = 1 .. Len(q) /\ DOMAIN Tail(q) = 1 .. Len(q) - 1
        /\ \A i \in 1 .. Len(q) - 1 : Tail(q)[i] = q[i + 1]
    BY RequestTaken
  <1>2. \A i \in DOMAIN Tail(q) : i + 1 \in DOMAIN q /\ Tail(q)[i] = q[i + 1]
    BY <1>1
  <1>3. AllControl(q) => AllControl(Tail(q)) /\ Head(q).op = "control"
    BY <1>1, <1>2 DEF AllControl
  <1>4. NoControl(q) => NoControl(Tail(q)) /\ Head(q).op # "control"
    BY <1>1, <1>2 DEF NoControl
  <1>5. OnlyLastControl(q) => OnlyLastControl(Tail(q))
    BY <1>1, <1>2 DEF OnlyLastControl
  <1>6. OnlyLastControl(q) /\ Head(q).op = "control" => Len(q) = 1
    BY <1>1 DEF OnlyLastControl
  <1> QED BY <1>3, <1>4, <1>5, <1>6

\* Requests of one kind added to q.
LEMMA ControlAppended ==
  ASSUME NEW q \in Seq(Requests), NEW r \in Requests
  PROVE  /\ AllControl(q) /\ r.op = "control" => AllControl(Append(q, r))
         /\ NoControl(q) /\ r.op # "control" => NoControl(Append(q, r))
         /\ NoControl(q) => OnlyLastControl(Append(q, r))
  <1>1. /\ DOMAIN q = 1 .. Len(q) /\ DOMAIN Append(q, r) = 1 .. Len(q) + 1
        /\ Len(q) \in Nat /\ Len(Append(q, r)) = Len(q) + 1
        /\ \A i \in 1 .. Len(q) : Append(q, r)[i] = q[i]
        /\ Append(q, r)[Len(q) + 1] = r
    BY RequestAppended
  <1>2. \A i \in 1 .. Len(q) + 1 : i \in 1 .. Len(q) \/ i = Len(q) + 1
    BY <1>1
  <1> QED BY <1>1, <1>2 DEF AllControl, NoControl, OnlyLastControl

\* ResetStreams and SendControl, as requests appended.
LEMMA ControlAfter ==
  ASSUME NEW c \in Connections, NEW S \in SUBSET Streams
  PROVE  /\ NoControl(c.requests) => NoControl(ResetStreams(c, S).requests)
         /\ NoControl(c.requests) => OnlyLastControl(SendControl(c).requests)
         /\ AllControl(c.requests) => AllControl(SendControl(c).requests)
  <1> DEFINE r == [op |-> "reset", on |-> S, len |-> 0]
             k == [op |-> "control", on |-> {}, len |-> 0]
  <1>1. r \in Requests /\ k \in Requests /\ c.requests \in Seq(Requests)
        /\ r.op = "reset" /\ k.op = "control"
    BY DEF Requests, Connections
  <1>2. /\ SendControl(c).requests = Append(c.requests, k)
        /\ \/ ResetStreams(c, S).requests = c.requests
           \/ ResetStreams(c, S).requests = Append(c.requests, r)
    BY DEF SendControl, ResetStreams, Connections
  <1> HIDE DEF r, k
  <1> QED BY <1>1, <1>2, ControlAppended

=============================================================================
