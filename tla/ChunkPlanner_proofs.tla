------------------------- MODULE ChunkPlanner_proofs -------------------------
(***************************************************************************)
(* For every input and any number of its points, files, axes and workers,  *)
(* every budget and every target: the plan has the largest voxels that fit *)
(* the target, none in another, its estimates add up to the input, it      *)
(* keeps the budget, and the table leads every point to a chunk that it    *)
(* lies in.                                                                *)
(*                                                                         *)
(* A point's voxel on a level is that of its voxel on any level below,     *)
(* halved: so the populations of a level are the sums of those below, and  *)
(* a merge can be said without the counters.  The invariant says that the  *)
(* merged counts are those populations, wherever they fit the target, and  *)
(* that the chunks are the pieces of the roots of the levels merged so     *)
(* far.  A root is a voxel that fits while the one above it does not; a    *)
(* point is in one root only.  All properties are drawn from this.         *)
(*                                                                         *)
(* The first parts are about sums, powers and lists of lists, each of      *)
(* which is a function that is known by its first value and its steps.     *)
(***************************************************************************)
EXTENDS ChunkPlanner, SequenceTheorems, FiniteSetTheorems, WellFoundedInduction, TLAPS

\* A nonempty set of naturals has a least element.
LEMMA Least ==
    ASSUME NEW T, T \subseteq Nat, T # {}
    PROVE  \E n \in T : \A m \in T : n <= m
<1> DEFINE R == OpToRel(<, Nat)
<1>1. IsWellFoundedOn(R, Nat)
  BY NatLessThanWellFounded
<1>2. \A x, y \in Nat : <<x, y>> \in R <=> x < y
  BY DEF OpToRel
<1> HIDE DEF R
<1>3. PICK x \in T : \A y \in T : ~(<<y, x>> \in R)
  BY <1>1, WFMin
<1>4. \A y \in T : ~(y < x)
  BY <1>2, <1>3
<1> QED
  BY <1>4

\* u has the sums of the prefixes of s up to the n-th.
PrefixSums(s, n, u) ==
    /\ u \in [0 .. n -> Nat] /\ u[0] = 0
    /\ \A i \in 1 .. n : u[i] = u[i - 1] + s[i]

\* There are prefix sums: take the least prefix without any.
LEMMA PrefixSumsExist ==
    ASSUME NEW s \in Seq(Nat), NEW n \in 0 .. Len(s)
    PROVE  \E u : PrefixSums(s, n, u)
<1> DEFINE P(m) == \E u : PrefixSums(s, m, u)
           B == {m \in 0 .. Len(s) : ~P(m)}
<1>1. SUFFICES ASSUME B # {} PROVE FALSE
  BY DEF B
<1>2. Len(s) \in Nat /\ \A i \in 1 .. Len(s) : s[i] \in Nat
  BY LenProperties, ElementOfSeq
<1>3. B \subseteq Nat
  BY <1>2
<1> HIDE DEF B
<1>4. PICK m \in B : \A k \in B : m <= k
  BY <1>1, <1>3, Least
<1>5. m \in 0 .. Len(s) /\ ~P(m)
  BY <1>4 DEF B
<1>6. m # 0
  <2>1. PrefixSums(s, 0, [i \in 0 .. 0 |-> 0])
    BY DEF PrefixSums
  <2> QED
    BY <1>5, <2>1
<1>7. P(m - 1)
  <2>1. m - 1 \in 0 .. Len(s) /\ m - 1 \notin B
    BY <1>2, <1>4, <1>5, <1>6
  <2> QED
    BY <2>1 DEF B
<1>8. PICK u : PrefixSums(s, m - 1, u)
  BY <1>7
<1> DEFINE v == [i \in 0 .. m |-> IF i < m THEN u[i] ELSE u[m - 1] + s[m]]
<1>9. m \in Nat \ {0} /\ m - 1 \in Nat /\ s[m] \in Nat
  BY <1>2, <1>5, <1>6
<1>10. u \in [0 .. m - 1 -> Nat] /\ u[0] = 0 /\ \A i \in 1 .. m - 1 : u[i] = u[i - 1] + s[i]
  BY <1>8 DEF PrefixSums
<1>11. PrefixSums(s, m, v)
  <2>1. v \in [0 .. m -> Nat]
    BY <1>9, <1>10
  <2>2. v[0] = 0
    BY <1>9, <1>10
  <2>3. ASSUME NEW i \in 1 .. m PROVE v[i] = v[i - 1] + s[i]
    <3>1. CASE i < m
      BY <1>9, <1>10, <3>1
    <3>2. CASE i = m
      BY <1>9, <1>10, <3>2
    <3> QED
      BY <1>9, <3>1, <3>2
  <2> QED
    BY <2>1, <2>2, <2>3 DEF PrefixSums
<1> QED
  BY <1>5, <1>11

\* The sum of a list is the last of its prefix sums.
LEMMA SumIs ==
    ASSUME NEW s \in Seq(Nat)
    PROVE  \E u : PrefixSums(s, Len(s), u) /\ SumOf(s) = u[Len(s)]
<1> DEFINE F(u) == [n \in 0 .. Len(s) |-> IF n = 0 THEN 0 ELSE u[n - 1] + s[n]]
           U == CHOOSE u : u = F(u)
<1>1. Len(s) \in Nat
  BY LenProperties
<1>2. PICK u : PrefixSums(s, Len(s), u)
  BY <1>1, PrefixSumsExist
<1>3. u = F(u)
  BY <1>1, <1>2 DEF PrefixSums
<1>4. U = F(U)
  BY <1>3
<1>5. SumOf(s) = U[Len(s)]
  BY DEF SumOf
<1> HIDE DEF U
<1> DEFINE B == {n \in 0 .. Len(s) : U[n] # u[n]}
<1>6. ASSUME NEW n \in 0 .. Len(s) PROVE U[n] = u[n]
  <2> SUFFICES ASSUME B # {} PROVE FALSE
    BY <1>6
  <2>1. B \subseteq Nat
    BY <1>1
  <2> HIDE DEF B
  <2>2. PICK m \in B : \A k \in B : m <= k
    BY <2>1, Least
  <2>3. m \in 0 .. Len(s) /\ U[m] # u[m] /\ m \in Nat
    BY <1>1, <2>2 DEF B
  <2>4. U[m] = IF m = 0 THEN 0 ELSE U[m - 1] + s[m]
    BY <1>4, <2>3
  <2>5. u[m] = IF m = 0 THEN 0 ELSE u[m - 1] + s[m]
    BY <1>3, <2>3
  <2>6. m # 0
    BY <2>3, <2>4, <2>5
  <2>7. m - 1 \in 0 .. Len(s) /\ m - 1 \notin B
    BY <1>1, <2>2, <2>3, <2>6
  <2>8. U[m - 1] = u[m - 1]
    BY <2>7 DEF B
  <2> QED
    BY <2>3, <2>4, <2>5, <2>6, <2>8
<1>7. U[Len(s)] = u[Len(s)]
  BY <1>1, <1>6
<1> QED
  BY <1>2, <1>5, <1>7

LEMMA SumIsNat ==
    ASSUME NEW s \in Seq(Nat)
    PROVE  SumOf(s) \in Nat
<1>1. PICK u : PrefixSums(s, Len(s), u) /\ SumOf(s) = u[Len(s)]
  BY SumIs
<1>2. Len(s) \in Nat
  BY LenProperties
<1> QED
  BY <1>1, <1>2 DEF PrefixSums

\* The first n of the sets together.
Joined(P, n) == UNION {P[i] : i \in 1 .. n}

\* Sets that are apart have together as many elements as they have one by one.
LEMMA SumCounts ==
    ASSUME NEW s \in Seq(Nat), NEW P,
           \A i \in 1 .. Len(s) : IsFiniteSet(P[i]) /\ Cardinality(P[i]) = s[i],
           \A i, j \in 1 .. Len(s) : i # j => P[i] \cap P[j] = {}
    PROVE  Cardinality(Joined(P, Len(s))) = SumOf(s)
<1> DEFINE All(n) == Joined(P, n)
           Counted(n, u) == IsFiniteSet(All(n)) /\ Cardinality(All(n)) = u[n]
<1>1. PICK u : PrefixSums(s, Len(s), u) /\ SumOf(s) = u[Len(s)]
  BY SumIs
<1>2. Len(s) \in Nat
  BY LenProperties
<1> DEFINE B == {n \in 0 .. Len(s) : ~Counted(n, u)}
<1>3. SUFFICES ASSUME B # {} PROVE FALSE
  <2>1. Len(s) \notin B => Counted(Len(s), u)
    BY <1>2
  <2> QED
    BY <1>1, <2>1
<1>4. B \subseteq Nat
  BY <1>2
<1> HIDE DEF B
<1>5. PICK m \in B : \A k \in B : m <= k
  BY <1>3, <1>4, Least
<1>6. m \in 0 .. Len(s) /\ ~Counted(m, u) /\ m \in Nat
  BY <1>2, <1>5 DEF B
<1>7. m # 0
  <2>1. All(0) = {}
    BY DEF Joined
  <2>2. u[0] = 0
    BY <1>1 DEF PrefixSums
  <2> QED
    BY <1>6, <2>1, <2>2, FS_EmptySet
<1>8. m \in 1 .. Len(s) /\ m - 1 \in 0 .. Len(s) /\ m - 1 \notin B
  BY <1>2, <1>5, <1>6, <1>7
<1>9. Counted(m - 1, u)
  BY <1>8 DEF B
<1>10. All(m) = All(m - 1) \cup P[m]
  <2>1. 1 .. m = (1 .. m - 1) \cup {m}
    BY <1>6, <1>8
  <2> QED
    BY <2>1 DEF Joined
<1>11. All(m - 1) \cap P[m] = {}
  BY <1>2, <1>8 DEF Joined
<1>12. IsFiniteSet(P[m]) /\ Cardinality(P[m]) = s[m]
  BY <1>8
<1>13. u[m] = u[m - 1] + s[m] /\ u[m - 1] \in Nat /\ s[m] \in Nat
  BY <1>1, <1>8, ElementOfSeq DEF PrefixSums
<1> HIDE DEF All
<1>14. /\ IsFiniteSet(All(m))
       /\ Cardinality(All(m)) = Cardinality(All(m - 1)) + Cardinality(P[m]) - Cardinality({})
  <2> DEFINE X == All(m - 1)
             Y == P[m]
  <2>1. IsFiniteSet(X) /\ IsFiniteSet(Y)
    BY <1>9, <1>12
  <2>2. X \cap Y = {} /\ All(m) = X \cup Y
    BY <1>10, <1>11
  <2> HIDE DEF X, Y
  <2>3. /\ IsFiniteSet(X \cup Y)
        /\ Cardinality(X \cup Y) = Cardinality(X) + Cardinality(Y) - Cardinality(X \cap Y)
    BY <2>1, FS_Union
  <2> QED
    BY <2>2, <2>3 DEF X, Y
<1>15. Cardinality({}) = 0
  BY FS_EmptySet
<1>16. Cardinality(All(m)) = u[m]
  BY <1>9, <1>12, <1>13, <1>14, <1>15
<1> QED
  BY <1>6, <1>14, <1>16

\* A list of n things is a function on 1 .. n.
LEMMA FunctionIsList ==
    ASSUME NEW S, NEW n \in Nat, NEW f \in [1 .. n -> S]
    PROVE  f \in Seq(S) /\ Len(f) = n /\ DOMAIN f = 1 .. n
<1>1. f \in Seq(S)
  <2>1. Seq(S) = UNION {[1 .. m -> S] : m \in Nat}
    BY SeqDef
  <2> QED
    BY <2>1, Zenon
<1>2. Len(f) \in Nat /\ DOMAIN f = 1 .. Len(f)
  BY <1>1, LenProperties
<1>3. DOMAIN f = 1 .. n
  OBVIOUS
<1>4. Len(f) = n
  <2> DEFINE m == Len(f)
  <2>1. m \in Nat /\ 1 .. n = 1 .. m
    BY <1>2, <1>3
  <2> HIDE DEF m
  <2>2. CASE n = 0
    <3>1. 1 \notin 1 .. m
      BY <2>1, <2>2
    <3> QED
      BY <2>1, <2>2, <3>1 DEF m
  <2>3. CASE n # 0
    <3>1. n \in 1 .. m
      BY <2>1, <2>3
    <3>2. m \in 1 .. n
      BY <2>1, <3>1
    <3> QED
      BY <3>1, <3>2 DEF m
  <2> QED
    BY <2>2, <2>3
<1> QED
  BY <1>1, <1>3, <1>4

\* A sum can be taken in two parts.
LEMMA SumSplits ==
    ASSUME NEW n \in Nat, NEW m \in 0 .. n, NEW f \in [1 .. n -> Nat]
    PROVE  SumOf(f) = SumOf([i \in 1 .. m |-> f[i]]) + SumOf([i \in 1 .. n - m |-> f[m + i]])
<1> DEFINE g == [i \in 1 .. m |-> f[i]]
           h == [i \in 1 .. n - m |-> f[m + i]]
<1>1. m \in Nat /\ n - m \in Nat
  OBVIOUS
<1>2. f \in Seq(Nat) /\ Len(f) = n
  BY FunctionIsList
<1>3. g \in Seq(Nat) /\ Len(g) = m
  <2>1. g \in [1 .. m -> Nat]
    OBVIOUS
  <2> HIDE DEF g
  <2> QED
    BY <1>1, <2>1, FunctionIsList
<1>4. h \in Seq(Nat) /\ Len(h) = n - m
  <2>1. h \in [1 .. n - m -> Nat]
    OBVIOUS
  <2> HIDE DEF h
  <2> QED
    BY <1>1, <2>1, FunctionIsList
<1>5. \A i \in 1 .. m : g[i] = f[i]
  OBVIOUS
<1>6. \A i \in 1 .. n - m : h[i] = f[m + i]
  OBVIOUS
<1> HIDE DEF g, h
<1>7. PICK u : PrefixSums(f, n, u) /\ SumOf(f) = u[n]
  BY <1>2, SumIs
<1>8. PICK v : PrefixSums(g, m, v) /\ SumOf(g) = v[m]
  BY <1>3, SumIs
<1>9. PICK w : PrefixSums(h, n - m, w) /\ SumOf(h) = w[n - m]
  BY <1>4, SumIs
<1>10. /\ u \in [0 .. n -> Nat] /\ u[0] = 0 /\ \A i \in 1 .. n : u[i] = u[i - 1] + f[i]
       /\ v \in [0 .. m -> Nat] /\ v[0] = 0 /\ \A i \in 1 .. m : v[i] = v[i - 1] + g[i]
       /\ w \in [0 .. n - m -> Nat] /\ w[0] = 0 /\ \A i \in 1 .. n - m : w[i] = w[i - 1] + h[i]
  BY <1>7, <1>8, <1>9 DEF PrefixSums
<1> DEFINE B == {i \in 0 .. n : u[i] # IF i <= m THEN v[i] ELSE v[m] + w[i - m]}
<1>11. B = {}
  <2> SUFFICES ASSUME B # {} PROVE FALSE
    OBVIOUS
  <2>1. B \subseteq Nat
    OBVIOUS
  <2> HIDE DEF B
  <2>2. PICK i \in B : \A k \in B : i <= k
    BY <2>1, Least
  <2>3. i \in 0 .. n /\ u[i] # IF i <= m THEN v[i] ELSE v[m] + w[i - m]
    BY <2>2 DEF B
  <2>4. i # 0
    BY <1>10, <2>3
  <2>5. i - 1 \in 0 .. n /\ i - 1 \notin B
    BY <2>2, <2>3, <2>4
  <2>6. u[i - 1] = IF i - 1 <= m THEN v[i - 1] ELSE v[m] + w[i - 1 - m]
    BY <2>5 DEF B
  <2>7. CASE i <= m
    <3>1. i \in 1 .. m /\ i \in 1 .. n /\ i - 1 <= m
      BY <2>3, <2>4, <2>7
    <3>2. u[i] = u[i - 1] + f[i] /\ v[i] = v[i - 1] + g[i] /\ g[i] = f[i]
      BY <1>5, <1>10, <3>1
    <3> QED
      BY <2>3, <2>6, <2>7, <3>1, <3>2
  <2>8. CASE i = m + 1
    <3>1. i \in 1 .. n /\ 1 \in 1 .. n - m /\ i - 1 = m /\ i - m = 1
      BY <2>3, <2>8
    <3>2. u[i] = u[m] + f[i] /\ w[1] = w[0] + h[1] /\ h[1] = f[m + 1]
      <4>1. u[i] = u[i - 1] + f[i]
        BY <1>10, <3>1
      <4>2. w[1] = w[0] + h[1]
        <5>1. \A k \in 1 .. n - m : w[k] = w[k - 1] + h[k]
          BY <1>9 DEF PrefixSums
        <5>2. \A k \in 1 .. n - m : k = 1 => w[k] = w[0] + h[k]
          BY <5>1
        <5> QED
          BY <3>1, <5>2
      <4>3. h[1] = f[m + 1]
        BY <1>6, <3>1
      <4> QED
        BY <3>1, <4>1, <4>2, <4>3
    <3>3. u[m] = v[m] /\ u[i] # v[m] + w[1]
      BY <2>3, <2>6, <2>8, <3>1
    <3>4. f[i] \in Nat
      BY <3>1
    <3> QED
      BY <1>10, <2>8, <3>2, <3>3, <3>4
  <2>9. CASE i > m + 1
    <3>1. i \in 1 .. n /\ i - m \in 1 .. n - m /\ i - m - 1 \in 0 .. n - m /\ ~(i <= m) /\ ~(i - 1 <= m)
          /\ i - 1 - m = i - m - 1 /\ m + (i - m) = i
      BY <2>3, <2>9
    <3>2. u[i] = u[i - 1] + f[i] /\ w[i - m] = w[i - m - 1] + h[i - m] /\ h[i - m] = f[i]
      BY <1>6, <1>10, <3>1
    <3>3. u[i - 1] = v[m] + w[i - m - 1] /\ u[i] # v[m] + w[i - m]
      BY <2>3, <2>6, <3>1
    <3>4. f[i] \in Nat
      BY <3>1
    <3>5. v[m] \in Nat
      <4>1. m \in 0 .. m
        BY <1>1
      <4> QED
        BY <1>10, <4>1
    <3>6. w[i - m - 1] \in Nat
      BY <1>10, <3>1
    <3> QED
      BY <3>2, <3>3, <3>4, <3>5, <3>6
  <2> QED
    BY <2>3, <2>7, <2>8, <2>9
<1>12. u[n] = IF n <= m THEN v[n] ELSE v[m] + w[n - m]
  BY <1>11
<1>13. u[n] = v[m] + w[n - m]
  <2>1. CASE n <= m
    <3>1. n = m /\ n - m = 0
      BY <2>1
    <3>2. m \in 0 .. m
      BY <1>1
    <3>3. v[m] \in Nat
      BY <1>10, <3>2
    <3> QED
      BY <1>10, <1>12, <3>1, <3>3
  <2> QED
    BY <1>12, <2>1
<1>14. SumOf(f) = SumOf(g) + SumOf(h)
  BY <1>7, <1>8, <1>9, <1>13
<1> QED
  BY <1>14 DEF g, h

\* What holds at 0, and at the next one of every number it holds at, holds
\* throughout an interval from 0: T is where it holds.
LEMMA Climb ==
    ASSUME NEW d \in Nat, NEW T, 0 \in T, \A i \in 1 .. d : i - 1 \in T => i \in T
    PROVE  \A i \in 0 .. d : i \in T
<1> DEFINE B == {i \in 0 .. d : i \notin T}
<1>1. SUFFICES ASSUME B # {} PROVE FALSE
  OBVIOUS
<1>2. B \subseteq Nat
  OBVIOUS
<1> HIDE DEF B
<1>3. PICK i \in B : \A k \in B : i <= k
  BY <1>1, <1>2, Least
<1>4. i \in 0 .. d /\ i \notin T
  BY <1>3 DEF B
<1>5. i # 0
  BY <1>4
<1>6. i \in 1 .. d /\ i - 1 \in 0 .. d /\ i - 1 \notin B
  BY <1>3, <1>4, <1>5
<1>7. i - 1 \in T
  BY <1>6 DEF B
<1> QED
  BY <1>4, <1>6, <1>7

(***************************************************************************)
(* Powers                                                                  *)
(***************************************************************************)
\* u has the powers of n up to the d-th.
Powers(n, d, u) ==
    /\ u \in [0 .. d -> Nat] /\ u[0] = 1
    /\ \A i \in 1 .. d : u[i] = n * u[i - 1]

LEMMA PowersExist ==
    ASSUME NEW n \in Nat, NEW d \in Nat
    PROVE  \E u : Powers(n, d, u)
<1> DEFINE T == {i \in Nat : \E u : Powers(n, i, u)}
<1>1. 0 \in T
  <2>1. Powers(n, 0, [i \in 0 .. 0 |-> 1])
    BY DEF Powers
  <2> QED
    BY <2>1
<1>2. ASSUME NEW i \in 1 .. d, i - 1 \in T PROVE i \in T
  <2>1. PICK u : Powers(n, i - 1, u)
    BY <1>2
  <2>2. /\ u \in [0 .. i - 1 -> Nat] /\ u[0] = 1
        /\ \A k \in 1 .. i - 1 : u[k] = n * u[k - 1]
    BY <2>1 DEF Powers
  <2> DEFINE v == [k \in 0 .. i |-> IF k = i THEN n * u[i - 1] ELSE u[k]]
  <2>3. n * u[i - 1] \in Nat
    BY <2>2
  <2>4. v \in [0 .. i -> Nat]
    BY <2>2, <2>3
  <2>5. v[0] = 1
    BY <2>2
  <2>6. ASSUME NEW k \in 1 .. i PROVE v[k] = n * v[k - 1]
    <3>1. k \in 0 .. i /\ k - 1 \in 0 .. i /\ k - 1 # i
      OBVIOUS
    <3>2. v[k - 1] = u[k - 1] /\ v[k] = IF k = i THEN n * u[i - 1] ELSE u[k]
      BY <3>1
    <3>3. k # i => k \in 1 .. i - 1
      OBVIOUS
    <3> HIDE DEF v
    <3> QED
      BY <2>2, <3>2, <3>3
  <2> HIDE DEF v
  <2>7. Powers(n, i, v)
    BY <2>4, <2>5, <2>6 DEF Powers
  <2> QED
    BY <2>7
<1> HIDE DEF T
<1>3. d \in T
  BY <1>1, <1>2, Climb
<1> QED
  BY <1>3 DEF T

LEMMA PowersAgree ==
    ASSUME NEW n \in Nat, NEW d \in Nat, NEW u, NEW v,
           u[0] = v[0],
           \A i \in 1 .. d : u[i] = n * u[i - 1], \A i \in 1 .. d : v[i] = n * v[i - 1]
    PROVE  u[d] = v[d]
<1> DEFINE T == {i \in Nat : u[i] = v[i]}
<1>1. 0 \in T
  OBVIOUS
<1>2. \A i \in 1 .. d : i - 1 \in T => i \in T
  OBVIOUS
<1> HIDE DEF T
<1>3. d \in T
  BY <1>1, <1>2, Climb
<1> QED
  BY <1>3 DEF T

LEMMA PowIs ==
    ASSUME NEW n \in Nat, NEW d \in Nat
    PROVE  \E u : Powers(n, d, u) /\ Pow(n, d) = u[d]
<1> DEFINE F(u) == [i \in 0 .. d |-> IF i = 0 THEN 1 ELSE n * u[i - 1]]
           U == CHOOSE u : u = F(u)
<1>1. PICK u : Powers(n, d, u)
  BY PowersExist
<1>2. u = F(u)
  BY <1>1 DEF Powers
<1>3. U = F(U)
  BY <1>2
<1>4. Pow(n, d) = U[d]
  BY DEF Pow
<1> HIDE DEF U
<1>5. U[0] = 1 /\ \A i \in 1 .. d : U[i] = n * U[i - 1]
  BY <1>3
<1>6. U[d] = u[d]
  <2>1. u[0] = 1 /\ \A i \in 1 .. d : u[i] = n * u[i - 1]
    BY <1>1 DEF Powers
  <2>2. U[0] = u[0]
    BY <1>5, <2>1
  <2> QED
    BY <1>5, <2>1, <2>2, PowersAgree
<1> QED
  BY <1>1, <1>4, <1>6

\* The equations of a power.
LEMMA PowZero ==
    ASSUME NEW n \in Nat
    PROVE  Pow(n, 0) = 1
<1>1. PICK u : Powers(n, 0, u) /\ Pow(n, 0) = u[0]
  BY PowIs
<1> QED
  BY <1>1 DEF Powers

LEMMA PowNext ==
    ASSUME NEW n \in Nat, NEW d \in Nat
    PROVE  Pow(n, d + 1) = n * Pow(n, d) /\ Pow(n, d) \in Nat
<1>1. PICK u : Powers(n, d, u) /\ Pow(n, d) = u[d]
  BY PowIs
<1>2. PICK v : Powers(n, d + 1, v) /\ Pow(n, d + 1) = v[d + 1]
  BY PowIs
<1>3. u[d] = v[d]
  <2>1. u[0] = 1 /\ \A i \in 1 .. d : u[i] = n * u[i - 1]
    BY <1>1 DEF Powers
  <2>2. v[0] = 1 /\ \A i \in 1 .. d + 1 : v[i] = n * v[i - 1]
    BY <1>2 DEF Powers
  <2>3. u[0] = v[0]
    BY <2>1, <2>2
  <2>4. \A i \in 1 .. d : v[i] = n * v[i - 1]
    BY <2>2
  <2>5. \A i \in 1 .. d : u[i] = n * u[i - 1]
    BY <2>1
  <2> QED
    BY <2>3, <2>4, <2>5, PowersAgree, SMTT(30)
<1>4. v[d + 1] = n * v[d] /\ u[d] \in Nat
  BY <1>1, <1>2 DEF Powers
<1> QED
  BY <1>1, <1>2, <1>3, <1>4

LEMMA PowPositive ==
    ASSUME NEW n \in Nat \ {0}, NEW d \in Nat
    PROVE  Pow(n, d) \in Nat \ {0}
<1> DEFINE T == {i \in Nat : Pow(n, i) \in Nat \ {0}}
<1>1. 0 \in T
  BY PowZero
<1>2. ASSUME NEW i \in 1 .. d, i - 1 \in T PROVE i \in T
  <2>1. Pow(n, (i - 1) + 1) = n * Pow(n, i - 1) /\ Pow(n, i - 1) \in Nat
    BY PowNext
  <2>2. Pow(n, i) = n * Pow(n, i - 1) /\ Pow(n, i - 1) \in Nat \ {0}
    BY <1>2, <2>1
  <2> QED
    BY <2>2
<1> HIDE DEF T
<1>3. d \in T
  BY <1>1, <1>2, Climb
<1> QED
  BY <1>3 DEF T

LEMMA PowAdds ==
    ASSUME NEW n \in Nat, NEW j \in Nat, NEW k \in Nat
    PROVE  Pow(n, j + k) = Pow(n, j) * Pow(n, k)
<1> DEFINE T == {i \in Nat : Pow(n, j + i) = Pow(n, j) * Pow(n, i)}
<1>0. Pow(n, j) \in Nat
  BY PowNext
<1>1. 0 \in T
  BY <1>0, PowZero
<1>2. ASSUME NEW i \in 1 .. k, i - 1 \in T PROVE i \in T
  <2>1. Pow(n, (j + (i - 1)) + 1) = n * Pow(n, j + (i - 1))
    BY PowNext
  <2>2. Pow(n, (i - 1) + 1) = n * Pow(n, i - 1) /\ Pow(n, i - 1) \in Nat
    BY PowNext
  <2>3. Pow(n, j + (i - 1)) = Pow(n, j) * Pow(n, i - 1)
    BY <1>2
  <2>4. (i - 1) + 1 = i /\ (j + (i - 1)) + 1 = j + i
    OBVIOUS
  <2>5. Pow(n, j + i) = n * (Pow(n, j) * Pow(n, i - 1)) /\ Pow(n, i) = n * Pow(n, i - 1)
    BY <2>1, <2>2, <2>3, <2>4
  <2> DEFINE x == Pow(n, j)
             y == Pow(n, i - 1)
  <2>6. x \in Nat /\ y \in Nat
    BY <1>0, <2>2
  <2> HIDE DEF x, y
  <2>7. n * (x * y) = x * (n * y)
    BY <2>6
  <2> QED
    BY <2>5, <2>7 DEF x, y
<1> HIDE DEF T
<1>3. k \in T
  BY <1>1, <1>2, Climb
<1> QED
  BY <1>3 DEF T

LEMMA PowOne ==
    ASSUME NEW n \in Nat
    PROVE  Pow(n, 1) = n
<1>1. Pow(n, 0 + 1) = n * Pow(n, 0)
  BY PowNext
<1> QED
  BY <1>1, PowZero

(***************************************************************************)
(* Division                                                                *)
(***************************************************************************)
LEMMA DivMod ==
    ASSUME NEW x \in Int, NEW n \in Nat \ {0}
    PROVE  /\ x \div n \in Int /\ x % n \in 0 .. n - 1
           /\ x = n * (x \div n) + (x % n)
OBVIOUS

\* Between two multiples there is none.
LEMMA DivUnique ==
    ASSUME NEW n \in Nat \ {0}, NEW q \in Int, NEW r \in 0 .. n - 1,
           NEW p \in Int, NEW s \in 0 .. n - 1, n * q + r = n * p + s
    PROVE  q = p /\ r = s
<1>1. n * (q - p) = s - r
  OBVIOUS
<1>2. CASE q > p
  <2>1. n * (q - p) >= n
    BY <1>2
  <2> QED
    BY <1>1, <2>1
<1>3. CASE q < p
  <2>1. n * (p - q) >= n
    BY <1>3
  <2>2. n * (p - q) = r - s
    OBVIOUS
  <2> QED
    BY <2>1, <2>2
<1> QED
  BY <1>2, <1>3

\* A quotient and a remainder are known by what they make.
LEMMA DivIs ==
    ASSUME NEW x \in Int, NEW n \in Nat \ {0}, NEW q \in Int, NEW r \in 0 .. n - 1,
           x = n * q + r
    PROVE  x \div n = q /\ x % n = r
<1>1. /\ x \div n \in Int /\ x % n \in 0 .. n - 1
      /\ x = n * (x \div n) + (x % n)
  BY DivMod
<1> DEFINE p == x \div n
           s == x % n
<1>2. p \in Int /\ s \in 0 .. n - 1 /\ n * q + r = n * p + s
  BY <1>1
<1> HIDE DEF p, s
<1>3. q = p /\ r = s
  BY <1>2, DivUnique
<1> QED
  BY <1>3 DEF p, s

\* To divide by two numbers is to divide by their product.
LEMMA DivDiv ==
    ASSUME NEW x \in Int, NEW n \in Nat \ {0}, NEW m \in Nat \ {0}
    PROVE  (x \div n) \div m = x \div (n * m)
<1> DEFINE q == x \div n
           r == x % n
<1>1. q \in Int /\ r \in 0 .. n - 1 /\ x = n * q + r
  BY DivMod
<1> HIDE DEF q, r
<1> DEFINE p == q \div m
           s == q % m
<1>2. p \in Int /\ s \in 0 .. m - 1 /\ q = m * p + s
  BY <1>1, DivMod
<1> HIDE DEF p, s
<1>3. n * m \in Nat \ {0}
  OBVIOUS
<1>4. n * s + r \in 0 .. n * m - 1
  <2>1. n * s <= n * (m - 1)
    BY <1>2
  <2>2. n * (m - 1) = n * m - n /\ n * s \in Nat
    BY <1>2
  <2> QED
    BY <1>1, <1>3, <2>1, <2>2
<1>5. x = (n * m) * p + (n * s + r)
  BY <1>1, <1>2
<1>6. x \div (n * m) = p
  BY <1>3, <1>4, <1>5, <1>2, DivIs
<1> QED
  BY <1>6 DEF p, q

\* Division respects the order.
LEMMA DivOrder ==
    ASSUME NEW x \in Int, NEW y \in Int, NEW n \in Nat \ {0}, x <= y
    PROVE  x \div n <= y \div n
<1> DEFINE q == x \div n
           r == x % n
           p == y \div n
           s == y % n
<1>1. q \in Int /\ r \in 0 .. n - 1 /\ x = n * q + r
  BY DivMod
<1>2. p \in Int /\ s \in 0 .. n - 1 /\ y = n * p + s
  BY DivMod
<1> HIDE DEF q, r, p, s
<1>3. SUFFICES ASSUME p < q PROVE FALSE
  BY <1>1, <1>2 DEF p, q
<1>4. n * (q - p) >= n
  BY <1>1, <1>2, <1>3
<1>5. n * (q - p) = n * q - n * p
  BY <1>1, <1>2
<1> QED
  BY <1>1, <1>2, <1>4, <1>5

(***************************************************************************)
(* Lists of lists                                                          *)
(***************************************************************************)
\* u has the first n of the lists ss, one behind the other.
Concats(ss, n, u, T) ==
    /\ u \in [0 .. n -> Seq(T)] /\ u[0] = <<>>
    /\ \A i \in 1 .. n : u[i] = u[i - 1] \o ss[i]

LEMMA ConcatsExist ==
    ASSUME NEW T, NEW n \in Nat, NEW ss, \A i \in 1 .. n : ss[i] \in Seq(T)
    PROVE  \E u : Concats(ss, n, u, T)
<1> DEFINE H == {i \in Nat : \E u : Concats(ss, i, u, T)}
<1>1. 0 \in H
  <2>1. <<>> \in Seq(T)
    BY EmptySeq
  <2>2. Concats(ss, 0, [i \in 0 .. 0 |-> <<>>], T)
    BY <2>1 DEF Concats
  <2> QED
    BY <2>2
<1>2. ASSUME NEW i \in 1 .. n, i - 1 \in H PROVE i \in H
  <2>1. PICK u : Concats(ss, i - 1, u, T)
    BY <1>2
  <2>2. u \in [0 .. i - 1 -> Seq(T)] /\ u[0] = <<>>
    BY <2>1 DEF Concats
  <2>3. \A k \in 1 .. i - 1 : u[k] = u[k - 1] \o ss[k]
    BY <2>1 DEF Concats
  <2> DEFINE new == u[i - 1] \o ss[i]
             v == [k \in 0 .. i |-> IF k = i THEN new ELSE u[k]]
  <2>4. new \in Seq(T)
    BY <2>2, ConcatProperties
  <2> HIDE DEF new
  <2>5. v \in [0 .. i -> Seq(T)] /\ v[0] = <<>>
    BY <2>2, <2>4
  <2>6. ASSUME NEW k \in 1 .. i PROVE v[k] = v[k - 1] \o ss[k]
    <3>1. k \in 0 .. i /\ k - 1 \in 0 .. i /\ k - 1 # i
      OBVIOUS
    <3>2. v[k - 1] = u[k - 1] /\ v[k] = IF k = i THEN new ELSE u[k]
      BY <3>1
    <3>3. k # i => k \in 1 .. i - 1
      OBVIOUS
    <3> HIDE DEF v
    <3> QED
      BY <2>3, <3>2, <3>3 DEF new
  <2> HIDE DEF v
  <2>7. Concats(ss, i, v, T)
    BY <2>5, <2>6 DEF Concats
  <2> QED
    BY <2>7
<1> HIDE DEF H
<1>3. \A i \in 0 .. n : i \in H
  BY <1>1, <1>2, Climb, Zenon
<1>4. n \in H
  BY <1>3
<1> QED
  BY <1>4 DEF H

LEMMA ConcatIs ==
    ASSUME NEW T, NEW ss \in Seq(Seq(T))
    PROVE  \E u : Concats(ss, Len(ss), u, T) /\ Concat(ss) = u[Len(ss)]
<1> DEFINE n == Len(ss)
           F(u) == [i \in 0 .. n |-> IF i = 0 THEN <<>> ELSE u[i - 1] \o ss[i]]
           U == CHOOSE u : u = F(u)
<1>0. n \in Nat /\ \A i \in 1 .. n : ss[i] \in Seq(T)
  BY LenProperties, ElementOfSeq
<1>1. PICK u : Concats(ss, n, u, T)
  <2> HIDE DEF n
  <2> QED
    BY <1>0, ConcatsExist
<1>2. u = F(u)
  <2>1. u = [i \in 0 .. n |-> u[i]] /\ u[0] = <<>>
    BY <1>1 DEF Concats
  <2>2. \A i \in 1 .. n : u[i] = u[i - 1] \o ss[i]
    BY <1>1 DEF Concats
  <2> HIDE DEF n
  <2>3. \A i \in 0 .. n : i # 0 => i \in 1 .. n
    BY <1>0
  <2>4. \A i \in 0 .. n : u[i] = IF i = 0 THEN <<>> ELSE u[i - 1] \o ss[i]
    BY <2>1, <2>2, <2>3, Zenon
  <2> QED
    BY <2>1, <2>4, Zenon
<1>3. U = F(U)
  BY <1>2
<1>4. Concat(ss) = U[n]
  BY DEF Concat
<1> HIDE DEF n
<1>5. U[0] = <<>> /\ \A i \in 1 .. n : U[i] = U[i - 1] \o ss[i]
  <2>1. 0 \in 0 .. n /\ \A i \in 1 .. n : i \in 0 .. n /\ i # 0
    BY <1>0
  <2> HIDE DEF U
  <2>2. \A i \in 0 .. n : U[i] = IF i = 0 THEN <<>> ELSE U[i - 1] \o ss[i]
    BY <1>3, Zenon
  <2> QED
    BY <2>1, <2>2, Zenon
<1> HIDE DEF U
<1>6. u[0] = <<>> /\ \A i \in 1 .. n : u[i] = u[i - 1] \o ss[i]
  BY <1>1 DEF Concats
<1> DEFINE H == {i \in Nat : U[i] = u[i]}
<1>7. 0 \in H
  BY <1>5, <1>6
<1>8. ASSUME NEW i \in 1 .. n, i - 1 \in H PROVE i \in H
  <2>1. U[i] = U[i - 1] \o ss[i]
    BY <1>5
  <2>2. u[i] = u[i - 1] \o ss[i]
    BY <1>6
  <2>3. U[i - 1] = u[i - 1] /\ i \in Nat
    BY <1>0, <1>8
  <2> QED
    BY <2>1, <2>2, <2>3
<1> HIDE DEF H
<1>9. n \in H
  <2>1. \A i \in 0 .. n : i \in H
    BY <1>0, <1>7, <1>8, Climb
  <2> QED
    BY <1>0, <2>1
<1>10. U[n] = u[n]
  BY <1>9 DEF H
<1> QED
  BY <1>1, <1>4, <1>10 DEF n

LEMMA ConcatIsList ==
    ASSUME NEW T, NEW ss \in Seq(Seq(T))
    PROVE  Concat(ss) \in Seq(T)
<1>1. PICK u : Concats(ss, Len(ss), u, T) /\ Concat(ss) = u[Len(ss)]
  BY ConcatIs
<1>2. Len(ss) \in Nat
  BY LenProperties
<1> QED
  BY <1>1, <1>2 DEF Concats

\* The elements of two lists, one behind the other.
LEMMA TwoLists ==
    ASSUME NEW T, NEW s \in Seq(T), NEW t \in Seq(T)
    PROVE  /\ s \o t \in Seq(T) /\ Len(s) \in Nat /\ Len(t) \in Nat
           /\ Len(s \o t) = Len(s) + Len(t)
           /\ \A j \in 1 .. Len(s) : (s \o t)[j] = s[j]
           /\ \A j \in 1 .. Len(t) : (s \o t)[Len(s) + j] = t[j]
<1>1. s \o t \in Seq(T) /\ Len(s \o t) = Len(s) + Len(t)
  BY ConcatProperties
<1>2. Len(s) \in Nat /\ Len(t) \in Nat
  BY LenProperties
<1>3. \A j \in 1 .. Len(s) + Len(t) : (s \o t)[j] = IF j <= Len(s) THEN s[j] ELSE t[j - Len(s)]
  BY ConcatProperties
<1>4. ASSUME NEW j \in 1 .. Len(t) PROVE (s \o t)[Len(s) + j] = t[j]
  <2>1. Len(s) + j \in 1 .. Len(s) + Len(t) /\ ~(Len(s) + j <= Len(s)) /\ (Len(s) + j) - Len(s) = j
    BY <1>2
  <2> QED
    BY <1>3, <2>1
<1>5. ASSUME NEW j \in 1 .. Len(s) PROVE (s \o t)[j] = s[j]
  BY <1>2, <1>3
<1> QED
  BY <1>1, <1>2, <1>4, <1>5

LEMMA ListsOfLists ==
    ASSUME NEW T, NEW ss \in Seq(Seq(T))
    PROVE  Len(ss) \in Nat /\ \A k \in 1 .. Len(ss) : ss[k] \in Seq(T)
BY LenProperties, ElementOfSeq

\* The i-th list takes the places from off[i - 1] + 1 to off[i].
Places(ss, off) ==
    /\ off \in [0 .. Len(ss) -> Nat] /\ off[0] = 0 /\ off[Len(ss)] = Len(Concat(ss))
    /\ \A i \in 1 .. Len(ss) : off[i] = off[i - 1] + Len(ss[i])
    /\ \A i \in 1 .. Len(ss) : \A j \in 1 .. Len(ss[i]) : Concat(ss)[off[i - 1] + j] = ss[i][j]

LEMMA ConcatPlaces ==
    ASSUME NEW T, NEW ss \in Seq(Seq(T))
    PROVE  \E off : Places(ss, off)
<1>1. PICK u : Concats(ss, Len(ss), u, T) /\ Concat(ss) = u[Len(ss)]
  BY ConcatIs
<1> DEFINE n == Len(ss)
           off == [k \in 0 .. n |-> Len(u[k])]
           size == [k \in 1 .. n |-> Len(ss[k])]
<1>2. n \in Nat
  BY ListsOfLists
<1>3. \A k \in 1 .. n : ss[k] \in Seq(T)
  BY ListsOfLists
<1>4. u \in [0 .. n -> Seq(T)] /\ u[0] = <<>> /\ \A k \in 1 .. n : u[k] = u[k - 1] \o ss[k]
  BY <1>1 DEF Concats
<1>5. Concat(ss) = u[n]
  BY <1>1
<1> HIDE DEF n
<1>6. off \in [0 .. n -> Nat] /\ \A k \in 0 .. n : off[k] = Len(u[k])
  <2>1. ASSUME NEW k \in 0 .. n PROVE Len(u[k]) \in Nat
    BY <1>4, LenProperties
  <2> QED
    BY <2>1
<1>7. size \in [1 .. n -> Nat] /\ \A k \in 1 .. n : size[k] = Len(ss[k])
  <2>1. ASSUME NEW k \in 1 .. n PROVE Len(ss[k]) \in Nat
    BY <1>3, LenProperties
  <2> QED
    BY <2>1
<1> HIDE DEF off, size
<1>8. off[0] = 0
  BY <1>2, <1>4, <1>6, EmptySeq
<1>9. ASSUME NEW k \in 1 .. n
      PROVE  /\ off[k] = off[k - 1] + size[k]
             /\ \A j \in 1 .. off[k - 1] : u[k][j] = u[k - 1][j]
             /\ \A j \in 1 .. size[k] : u[k][off[k - 1] + j] = ss[k][j]
  <2>1. k \in 0 .. n /\ k - 1 \in 0 .. n
    BY <1>2
  <2> DEFINE s == u[k - 1]
             t == ss[k]
  <2>2. s \in Seq(T) /\ t \in Seq(T)
    BY <1>3, <1>4, <2>1
  <2>3. u[k] = s \o t
    BY <1>4
  <2>4. off[k] = Len(s \o t) /\ off[k - 1] = Len(s) /\ size[k] = Len(t)
    BY <1>6, <1>7, <2>1, <2>3
  <2> HIDE DEF s, t
  <2>5. /\ s \o t \in Seq(T) /\ Len(s) \in Nat /\ Len(t) \in Nat
        /\ Len(s \o t) = Len(s) + Len(t)
        /\ \A j \in 1 .. Len(s) : (s \o t)[j] = s[j]
        /\ \A j \in 1 .. Len(t) : (s \o t)[Len(s) + j] = t[j]
    BY <2>2, TwoLists
  <2>6. /\ off[k] = off[k - 1] + size[k]
        /\ \A j \in 1 .. off[k - 1] : u[k][j] = s[j]
        /\ \A j \in 1 .. size[k] : u[k][off[k - 1] + j] = t[j]
    BY <2>3, <2>4, <2>5
  <2> QED
    BY <2>6 DEF s, t
<1> DEFINE H == {m \in Nat : \A k \in 0 .. m : /\ off[k] <= off[m]
                                              /\ \A j \in 1 .. off[k] : u[m][j] = u[k][j]}
<1>10. 0 \in H
  BY <1>8
<1>11. ASSUME NEW m \in 1 .. n, m - 1 \in H PROVE m \in H
  <2>1. m \in Nat /\ m - 1 \in 0 .. n /\ m \in 0 .. n
    BY <1>2
  <2>2. off[m - 1] \in Nat /\ off[m] \in Nat /\ size[m] \in Nat /\ off[m] = off[m - 1] + size[m]
    BY <1>6, <1>7, <1>9, <2>1
  <2>3. ASSUME NEW k \in 0 .. m
        PROVE  off[k] <= off[m] /\ \A j \in 1 .. off[k] : u[m][j] = u[k][j]
    <3>1. CASE k = m
      BY <2>2, <3>1
    <3>2. CASE k # m
      <4>1. k \in 0 .. m - 1 /\ k \in 0 .. n
        BY <1>2, <3>2
      <4>2. off[k] <= off[m - 1] /\ \A j \in 1 .. off[k] : u[m - 1][j] = u[k][j]
        BY <1>11, <4>1
      <4>3. off[k] \in Nat
        BY <1>6, <4>1
      <4>4. \A j \in 1 .. off[m - 1] : u[m][j] = u[m - 1][j]
        BY <1>9
      <4>5. ASSUME NEW j \in 1 .. off[k] PROVE u[m][j] = u[k][j]
        <5>1. j \in 1 .. off[m - 1]
          BY <2>2, <4>2, <4>3
        <5> QED
          BY <4>2, <4>4, <5>1
      <4>6. off[k] <= off[m]
        BY <2>2, <4>2, <4>3
      <4> QED
        BY <4>5, <4>6
    <3> QED
      BY <3>1, <3>2
  <2> QED
    BY <2>1, <2>3
<1> HIDE DEF H
<1>12. \A m \in 0 .. n : m \in H
  BY <1>2, <1>10, <1>11, Climb
<1>13. n \in H
  BY <1>2, <1>12
<1>14. \A k \in 0 .. n : \A j \in 1 .. off[k] : u[n][j] = u[k][j]
  BY <1>13 DEF H
<1>15. ASSUME NEW i \in 1 .. n, NEW j \in 1 .. size[i]
       PROVE  Concat(ss)[off[i - 1] + j] = ss[i][j]
  <2>1. i \in 0 .. n /\ i - 1 \in 0 .. n
    BY <1>2
  <2>2. off[i - 1] \in Nat /\ size[i] \in Nat /\ off[i] = off[i - 1] + size[i]
    BY <1>6, <1>7, <1>9, <2>1
  <2>3. off[i - 1] + j \in 1 .. off[i]
    BY <2>2
  <2>4. u[n][off[i - 1] + j] = u[i][off[i - 1] + j]
    BY <1>14, <2>1, <2>3
  <2>5. u[i][off[i - 1] + j] = ss[i][j]
    BY <1>9
  <2> QED
    BY <1>5, <2>4, <2>5
<1>16. off[n] = Len(Concat(ss))
  BY <1>2, <1>5, <1>6
<1>17. Places(ss, off)
  <2>1. \A i \in 1 .. n : off[i] = off[i - 1] + Len(ss[i])
    BY <1>7, <1>9
  <2>2. \A i \in 1 .. n : \A j \in 1 .. Len(ss[i]) : Concat(ss)[off[i - 1] + j] = ss[i][j]
    BY <1>7, <1>15
  <2> QED
    BY <1>6, <1>8, <1>16, <2>1, <2>2 DEF Places, n
<1> QED
  BY <1>17

\* Every place is in some list.
LEMMA PlaceFound ==
    ASSUME NEW T, NEW ss \in Seq(Seq(T)), NEW off, Places(ss, off),
           NEW p \in 1 .. Len(Concat(ss))
    PROVE  \E i \in 1 .. Len(ss) : p - off[i - 1] \in 1 .. Len(ss[i])
<1> DEFINE n == Len(ss)
<1>1. n \in Nat /\ off \in [0 .. n -> Nat] /\ off[0] = 0 /\ p \in 1 .. off[n]
  BY ListsOfLists DEF Places
<1>2. \A i \in 1 .. n : off[i] = off[i - 1] + Len(ss[i])
  BY DEF Places
<1>3. \A i \in 1 .. n : Len(ss[i]) \in Nat
  BY ListsOfLists, LenProperties
<1> HIDE DEF n
<1> DEFINE B == {i \in 0 .. n : p <= off[i]}
<1>4. B \subseteq Nat /\ n \in B
  <2>1. off[n] \in Nat /\ p <= off[n]
    BY <1>1
  <2> QED
    BY <1>1, <2>1
<1> HIDE DEF B
<1>5. PICK i \in B : \A k \in B : i <= k
  BY <1>4, Least
<1>6. i \in 0 .. n /\ p <= off[i]
  BY <1>5 DEF B
<1>7. i # 0
  BY <1>1, <1>6
<1>8. i \in 1 .. n /\ i - 1 \in 0 .. n /\ i - 1 \notin B
  BY <1>1, <1>5, <1>6, <1>7
<1>9. ~(p <= off[i - 1])
  BY <1>8 DEF B
<1>10. off[i - 1] \in Nat /\ off[i] = off[i - 1] + Len(ss[i]) /\ Len(ss[i]) \in Nat
  BY <1>1, <1>2, <1>3, <1>8
<1>11. p - off[i - 1] \in 1 .. Len(ss[i])
  BY <1>1, <1>6, <1>9, <1>10
<1> QED
  BY <1>8, <1>11 DEF n

\* Where the i-th list is found: from place b + 1 on.
FoundAt(list, piece, b) ==
    \A j \in 1 .. Len(piece) : b + j \in 1 .. Len(list) /\ list[b + j] = piece[j]

\* Every list is found somewhere, whole.
LEMMA ConcatHasAll ==
    ASSUME NEW T, NEW ss \in Seq(Seq(T)), NEW i \in 1 .. Len(ss)
    PROVE  \E b \in Nat : FoundAt(Concat(ss), ss[i], b)
<1>1. PICK off : Places(ss, off)
  BY ConcatPlaces
<1> DEFINE n == Len(ss)
<1>2. n \in Nat /\ off \in [0 .. n -> Nat] /\ off[n] = Len(Concat(ss))
  BY <1>1, ListsOfLists DEF Places
<1>3. \A k \in 1 .. n : off[k] = off[k - 1] + Len(ss[k])
  BY <1>1 DEF Places
<1>4. \A k \in 1 .. n : Len(ss[k]) \in Nat
  BY ListsOfLists, LenProperties
<1>5. \A j \in 1 .. Len(ss[i]) : Concat(ss)[off[i - 1] + j] = ss[i][j]
  BY <1>1 DEF Places
<1>6. i \in 1 .. n
  OBVIOUS
<1> HIDE DEF n
<1> DEFINE H == {m \in Nat : i + m <= n => off[i] <= off[i + m]}
<1>7. 0 \in H
  BY <1>2, <1>6
<1>8. ASSUME NEW m \in 1 .. n - i, m - 1 \in H PROVE m \in H
  <2>1. i + m \in 1 .. n /\ (i + m) - 1 = i + (m - 1) /\ i + (m - 1) \in 0 .. n
    BY <1>2, <1>6
  <2>2. off[i + m] = off[i + (m - 1)] + Len(ss[i + m]) /\ Len(ss[i + m]) \in Nat
    BY <1>3, <1>4, <2>1
  <2>3. off[i] <= off[i + (m - 1)]
    BY <1>2, <1>6, <1>8, <2>1
  <2>4. off[i] \in Nat /\ off[i + (m - 1)] \in Nat /\ off[i + m] \in Nat
    BY <1>2, <1>6, <2>1
  <2> QED
    BY <2>2, <2>3, <2>4
<1> HIDE DEF H
<1>9. n - i \in Nat
  BY <1>2, <1>6
<1>10. \A m \in 0 .. n - i : m \in H
  BY <1>7, <1>8, <1>9, Climb
<1>11. n - i \in H
  BY <1>9, <1>10
<1>12. off[i] <= off[n]
  BY <1>2, <1>6, <1>11 DEF H
<1>13. off[i - 1] \in Nat /\ off[i] = off[i - 1] + Len(ss[i]) /\ Len(ss[i]) \in Nat
  BY <1>2, <1>3, <1>4, <1>6
<1>14. \A j \in 1 .. Len(ss[i]) : off[i - 1] + j \in 1 .. Len(Concat(ss))
  BY <1>2, <1>12, <1>13
<1>15. FoundAt(Concat(ss), ss[i], off[i - 1])
  BY <1>5, <1>14 DEF FoundAt
<1> QED
  BY <1>13, <1>15

\* Nothing else is found.
LEMMA ConcatHasOnly ==
    ASSUME NEW T, NEW ss \in Seq(Seq(T)), NEW p \in 1 .. Len(Concat(ss))
    PROVE  \E i \in 1 .. Len(ss) : \E j \in 1 .. Len(ss[i]) : Concat(ss)[p] = ss[i][j]
<1>1. PICK off : Places(ss, off)
  BY ConcatPlaces
<1>2. PICK i \in 1 .. Len(ss) : p - off[i - 1] \in 1 .. Len(ss[i])
  BY <1>1, PlaceFound
<1>3. Concat(ss)[off[i - 1] + (p - off[i - 1])] = ss[i][p - off[i - 1]]
  BY <1>1, <1>2 DEF Places
<1>4. off[i - 1] + (p - off[i - 1]) = p
  <2>1. Len(Concat(ss)) \in Nat
    BY ConcatIsList, LenProperties
  <2>2. i - 1 \in 0 .. Len(ss) /\ Len(ss) \in Nat
    BY ListsOfLists
  <2>3. off[i - 1] \in Nat
    BY <1>1, <2>2 DEF Places
  <2> QED
    BY <2>1, <2>3
<1> QED
  BY <1>2, <1>3, <1>4

LEMMA SumJoins ==
    ASSUME NEW s \in Seq(Nat), NEW t \in Seq(Nat)
    PROVE  SumOf(s \o t) = SumOf(s) + SumOf(t)
<1> DEFINE f == s \o t
           m == Len(s)
           n == Len(f)
<1>1. /\ f \in Seq(Nat) /\ m \in Nat /\ Len(t) \in Nat /\ n = m + Len(t)
      /\ \A j \in 1 .. m : f[j] = s[j]
      /\ \A j \in 1 .. Len(t) : f[m + j] = t[j]
  BY TwoLists
<1>2. s = [i \in 1 .. m |-> s[i]] /\ t = [i \in 1 .. Len(t) |-> t[i]] /\ f \in [1 .. n -> Nat]
  <2>1. s \in [1 .. Len(s) -> Nat] /\ t \in [1 .. Len(t) -> Nat]
    BY LenProperties
  <2>2. f \in [1 .. Len(f) -> Nat]
    BY <1>1, LenProperties
  <2> QED
    BY <2>1, <2>2
<1> HIDE DEF f, m, n
<1>3. n \in Nat /\ m \in 0 .. n /\ n - m = Len(t)
  BY <1>1
<1>4. SumOf(f) = SumOf([i \in 1 .. m |-> f[i]]) + SumOf([i \in 1 .. n - m |-> f[m + i]])
  BY <1>2, <1>3, SumSplits
<1>5. [i \in 1 .. m |-> f[i]] = s
  <2>1. [i \in 1 .. m |-> f[i]] = [i \in 1 .. m |-> s[i]]
    BY <1>1
  <2> QED
    BY <1>2, <2>1
<1>6. [i \in 1 .. n - m |-> f[m + i]] = t
  <2>1. [i \in 1 .. n - m |-> f[m + i]] = [i \in 1 .. Len(t) |-> t[i]]
    BY <1>1, <1>3
  <2> QED
    BY <1>2, <2>1
<1> QED
  BY <1>4, <1>5, <1>6 DEF f

\* The points of the chunks of a list.
Weights(list) == [i \in 1 .. Len(list) |-> list[i].points]

LEMMA WeightsAreNumbers ==
    ASSUME NEW T, \A e \in T : e.points \in Nat, NEW s \in Seq(T)
    PROVE  Weights(s) \in Seq(Nat) /\ Len(Weights(s)) = Len(s) /\ SumOf(Weights(s)) \in Nat
<1>1. Len(s) \in Nat /\ \A i \in 1 .. Len(s) : s[i] \in T
  BY LenProperties, ElementOfSeq
<1>2. Weights(s) \in [1 .. Len(s) -> Nat]
  BY <1>1 DEF Weights
<1>3. Weights(s) \in Seq(Nat) /\ Len(Weights(s)) = Len(s)
  BY <1>1, <1>2, FunctionIsList
<1> QED
  BY <1>3, SumIsNat

LEMMA WeightsJoin ==
    ASSUME NEW T, \A e \in T : e.points \in Nat, NEW s \in Seq(T), NEW t \in Seq(T)
    PROVE  SumOf(Weights(s \o t)) = SumOf(Weights(s)) + SumOf(Weights(t))
<1> DEFINE f == s \o t
           x == Weights(s)
           y == Weights(t)
<1>1. /\ f \in Seq(T) /\ Len(s) \in Nat /\ Len(t) \in Nat /\ Len(f) = Len(s) + Len(t)
      /\ \A j \in 1 .. Len(s) : f[j] = s[j]
      /\ \A j \in 1 .. Len(t) : f[Len(s) + j] = t[j]
  BY TwoLists
<1>2. x \in Seq(Nat) /\ Len(x) = Len(s) /\ y \in Seq(Nat) /\ Len(y) = Len(t)
  BY WeightsAreNumbers
<1> HIDE DEF f, x, y
<1>3. x \in Seq(Nat)
  BY <1>2
<1>4. y \in Seq(Nat)
  BY <1>2
<1>5. /\ x \o y \in Seq(Nat) /\ Len(x) \in Nat /\ Len(y) \in Nat
      /\ Len(x \o y) = Len(x) + Len(y)
      /\ \A j \in 1 .. Len(x) : (x \o y)[j] = x[j]
      /\ \A j \in 1 .. Len(y) : (x \o y)[Len(x) + j] = y[j]
  BY <1>3, <1>4, TwoLists
<1>6. \A j \in 1 .. Len(s) : x[j] = s[j].points
  BY DEF Weights, x
<1>7. \A j \in 1 .. Len(t) : y[j] = t[j].points
  BY DEF Weights, y
<1>8. Weights(f) = [i \in 1 .. Len(f) |-> f[i].points]
  BY DEF Weights
<1>9. x \o y = [i \in 1 .. Len(f) |-> (x \o y)[i]]
  <2>1. x \o y \in [1 .. Len(x \o y) -> Nat]
    BY <1>5, LenProperties
  <2> QED
    BY <1>1, <1>2, <1>5, <2>1
<1>10. ASSUME NEW i \in 1 .. Len(f) PROVE f[i].points = (x \o y)[i]
  <2>1. CASE i <= Len(s)
    <3>1. i \in 1 .. Len(s)
      BY <1>1, <2>1
    <3>2. f[i] = s[i]
      BY <1>1, <3>1
    <3>3. (x \o y)[i] = x[i]
      BY <1>2, <1>5, <3>1
    <3>4. x[i] = s[i].points
      BY <1>6, <3>1
    <3> QED
      BY <3>2, <3>3, <3>4
  <2>2. CASE ~(i <= Len(s))
    <3> DEFINE j == i - Len(s)
    <3>1. j \in 1 .. Len(t) /\ Len(s) + j = i
      BY <1>1, <2>2
    <3> HIDE DEF j
    <3>2. f[i] = t[j]
      BY <1>1, <3>1
    <3>3. (x \o y)[i] = y[j]
      BY <1>2, <1>5, <3>1
    <3>4. y[j] = t[j].points
      BY <1>7, <3>1
    <3> QED
      BY <3>2, <3>3, <3>4
  <2> QED
    BY <2>1, <2>2
<1>11. Weights(f) = x \o y
  BY <1>8, <1>9, <1>10
<1>12. SumOf(x \o y) = SumOf(x) + SumOf(y)
  BY <1>2, SumJoins
<1> QED
  BY <1>11, <1>12 DEF f, x, y

LEMMA ConcatWeighs ==
    ASSUME NEW T, \A e \in T : e.points \in Nat, NEW ss \in Seq(Seq(T))
    PROVE  SumOf(Weights(Concat(ss))) = SumOf([i \in 1 .. Len(ss) |-> SumOf(Weights(ss[i]))])
<1>1. PICK u : Concats(ss, Len(ss), u, T) /\ Concat(ss) = u[Len(ss)]
  BY ConcatIs
<1> DEFINE n == Len(ss)
           f == [i \in 1 .. n |-> SumOf(Weights(ss[i]))]
<1>2. n \in Nat
  BY ListsOfLists
<1>3. \A k \in 1 .. n : ss[k] \in Seq(T)
  BY ListsOfLists
<1>4. u \in [0 .. n -> Seq(T)] /\ u[0] = <<>> /\ \A k \in 1 .. n : u[k] = u[k - 1] \o ss[k]
  BY <1>1 DEF Concats
<1>5. Concat(ss) = u[n]
  BY <1>1
<1> HIDE DEF n
<1>6. f \in [1 .. n -> Nat] /\ \A i \in 1 .. n : f[i] = SumOf(Weights(ss[i]))
  BY <1>3, WeightsAreNumbers
<1> HIDE DEF f
<1>7. f \in Seq(Nat) /\ Len(f) = n
  BY <1>2, <1>6, FunctionIsList
<1>8. PICK v : PrefixSums(f, n, v) /\ SumOf(f) = v[n]
  BY <1>7, SumIs
<1>9. v[0] = 0 /\ \A i \in 1 .. n : v[i] = v[i - 1] + f[i]
  BY <1>8 DEF PrefixSums
<1> DEFINE H == {k \in Nat : SumOf(Weights(u[k])) = v[k]}
<1>10. 0 \in H
  <2>1. <<>> \in Seq(Nat) /\ Len(<<>>) = 0
    BY EmptySeq
  <2>2. PICK x : PrefixSums(<<>>, 0, x) /\ SumOf(<<>>) = x[0]
    BY <2>1, SumIs
  <2>3. SumOf(<<>>) = 0
    BY <2>2 DEF PrefixSums
  <2>4. Weights(<<>>) = <<>>
    <3>1. Weights(<<>>) = [i \in 1 .. 0 |-> <<>>[i].points]
      BY <2>1 DEF Weights
    <3>2. \A i \in 1 .. 0 : FALSE
      OBVIOUS
    <3>3. Weights(<<>>) \in [1 .. 0 -> Nat]
      BY <3>1, <3>2
    <3>4. Weights(<<>>) \in Seq(Nat) /\ Len(Weights(<<>>)) = 0
      BY <3>3, FunctionIsList
    <3> QED
      BY <3>4, EmptySeq
  <2> QED
    BY <1>4, <1>9, <2>3, <2>4
<1>11. ASSUME NEW k \in 1 .. n, k - 1 \in H PROVE k \in H
  <2>1. k \in Nat /\ k - 1 \in 0 .. n
    BY <1>2
  <2>2. u[k - 1] \in Seq(T) /\ ss[k] \in Seq(T) /\ u[k] = u[k - 1] \o ss[k]
    BY <1>3, <1>4, <2>1
  <2>3. SumOf(Weights(u[k])) = SumOf(Weights(u[k - 1])) + SumOf(Weights(ss[k]))
    <3> DEFINE s == u[k - 1]
               t == ss[k]
    <3>1. s \in Seq(T) /\ t \in Seq(T) /\ u[k] = s \o t
      BY <2>2
    <3> HIDE DEF s, t
    <3>2. SumOf(Weights(s \o t)) = SumOf(Weights(s)) + SumOf(Weights(t))
      BY <3>1, WeightsJoin
    <3> QED
      BY <3>1, <3>2 DEF s, t
  <2>4. SumOf(Weights(u[k - 1])) = v[k - 1]
    BY <1>11
  <2>5. v[k] = v[k - 1] + f[k] /\ f[k] = SumOf(Weights(ss[k]))
    BY <1>6, <1>9
  <2> QED
    BY <2>1, <2>3, <2>4, <2>5
<1> HIDE DEF H
<1>12. \A k \in 0 .. n : k \in H
  BY <1>2, <1>10, <1>11, Climb
<1>13. n \in H
  BY <1>2, <1>12
<1> QED
  BY <1>5, <1>8, <1>13 DEF H, f, n

\* The voxel of a chunk, and lists of chunks of which no two have the same.
Voxel(c) == <<c.level, c.cell>>

Apart(s, t) == \A p \in 1 .. Len(s) : \A q \in 1 .. Len(t) : Voxel(s[p]) # Voxel(t[q])

Distinct(s) == \A p, q \in 1 .. Len(s) : Voxel(s[p]) = Voxel(s[q]) => p = q

LEMMA ConcatDistinct ==
    ASSUME NEW T, NEW ss \in Seq(Seq(T)),
           \A i \in 1 .. Len(ss) : Distinct(ss[i]),
           \A i, k \in 1 .. Len(ss) : i # k => Apart(ss[i], ss[k])
    PROVE  Distinct(Concat(ss))
<1>1. PICK off : Places(ss, off)
  BY ConcatPlaces
<1>2. SUFFICES ASSUME NEW p \in 1 .. Len(Concat(ss)), NEW q \in 1 .. Len(Concat(ss)),
                      Voxel(Concat(ss)[p]) = Voxel(Concat(ss)[q])
               PROVE  p = q
  BY DEF Distinct
<1>3. ASSUME NEW x \in 1 .. Len(Concat(ss))
      PROVE  \E i \in 1 .. Len(ss) : /\ x - off[i - 1] \in 1 .. Len(ss[i])
                                     /\ off[i - 1] \in Nat
                                     /\ Concat(ss)[x] = ss[i][x - off[i - 1]]
  <2>1. PICK i \in 1 .. Len(ss) : x - off[i - 1] \in 1 .. Len(ss[i])
    BY <1>1, PlaceFound
  <2>2. Concat(ss)[off[i - 1] + (x - off[i - 1])] = ss[i][x - off[i - 1]]
    BY <1>1, <2>1 DEF Places
  <2>3. i - 1 \in 0 .. Len(ss) /\ Len(ss) \in Nat
    BY ListsOfLists
  <2>4. off[i - 1] \in Nat
    BY <1>1, <2>3 DEF Places
  <2>5. Len(Concat(ss)) \in Nat
    BY ConcatIsList, LenProperties
  <2>6. off[i - 1] + (x - off[i - 1]) = x
    BY <2>4, <2>5
  <2> QED
    BY <2>1, <2>2, <2>4, <2>6
<1>4. PICK i \in 1 .. Len(ss) : /\ p - off[i - 1] \in 1 .. Len(ss[i])
                                /\ off[i - 1] \in Nat
                                /\ Concat(ss)[p] = ss[i][p - off[i - 1]]
  BY <1>3
<1>5. PICK k \in 1 .. Len(ss) : /\ q - off[k - 1] \in 1 .. Len(ss[k])
                                /\ off[k - 1] \in Nat
                                /\ Concat(ss)[q] = ss[k][q - off[k - 1]]
  BY <1>3
<1>6. i = k
  BY <1>2, <1>4, <1>5 DEF Apart
<1>7. p - off[i - 1] = q - off[i - 1]
  BY <1>2, <1>4, <1>5, <1>6 DEF Distinct
<1>8. p \in Int /\ q \in Int
  OBVIOUS
<1> QED
  BY <1>4, <1>7, <1>8

(***************************************************************************)
(* Digits                                                                  *)
(***************************************************************************)
LEMMA ModNext ==
    ASSUME NEW x \in Nat, NEW p \in Nat \ {0}, NEW n \in Nat \ {0}
    PROVE  x % (n * p) = (x % p) + p * ((x \div p) % n)
<1> DEFINE q == x \div p
           r == x % p
           o == q \div n
           s == q % n
<1>1. q \in Int /\ r \in 0 .. p - 1 /\ x = p * q + r
  BY DivMod
<1> HIDE DEF q, r
<1>2. o \in Int /\ s \in 0 .. n - 1 /\ q = n * o + s
  BY <1>1, DivMod
<1> HIDE DEF o, s
<1>3. p * q = (n * p) * o + p * s
  BY <1>1, <1>2
<1>4. p * s <= p * (n - 1) /\ p * s >= 0 /\ p * (n - 1) = n * p - p
  BY <1>2
<1>5. r + p * s \in 0 .. (n * p) - 1 /\ n * p \in Nat \ {0} /\ p * s \in Int
  BY <1>1, <1>2, <1>4
<1>6. x = (n * p) * o + (r + p * s)
  BY <1>1, <1>2, <1>3, <1>5
<1>7. x % (n * p) = r + p * s
  <2> DEFINE m == n * p
             d == r + p * s
  <2>1. m \in Nat \ {0} /\ d \in 0 .. m - 1 /\ x = m * o + d
    BY <1>5, <1>6
  <2> HIDE DEF m, d
  <2>2. x % m = d
    BY <1>2, <2>1, DivIs
  <2> QED
    BY <2>2 DEF m, d
<1> QED
  BY <1>7 DEF q, r, s

LEMMA DigitStays ==
    ASSUME NEW x \in Nat, NEW p \in Nat \ {0}, NEW n \in Nat \ {0}, NEW y \in Nat
    PROVE  ((x + p * (n * y)) \div p) % n = (x \div p) % n
<1> DEFINE q == x \div p
           r == x % p
           o == q \div n
           s == q % n
<1>1. q \in Int /\ r \in 0 .. p - 1 /\ x = p * q + r
  BY DivMod
<1> HIDE DEF q, r
<1>2. o \in Int /\ s \in 0 .. n - 1 /\ q = n * o + s
  BY <1>1, DivMod
<1> HIDE DEF o, s
<1> DEFINE w == n * y
           z == x + p * w
<1>3. w \in Nat
  OBVIOUS
<1>4. q + w = n * (o + y) + s
  BY <1>2
<1> HIDE DEF w
<1>5. z = p * (q + w) + r /\ q + w \in Int /\ z \in Int
  BY <1>1, <1>3
<1> HIDE DEF z
<1>6. z \div p = q + w
  <2> DEFINE v == q + w
  <2>1. v \in Int /\ z = p * v + r
    BY <1>5
  <2> HIDE DEF v
  <2>2. z \div p = v
    BY <1>1, <1>5, <2>1, DivIs
  <2> QED
    BY <2>2 DEF v
<1>7. (q + w) % n = s
  <2> DEFINE v == q + w
             k == o + y
  <2>1. v \in Int /\ k \in Int /\ v = n * k + s
    BY <1>2, <1>4, <1>5
  <2> HIDE DEF v, k
  <2>2. v % n = s
    BY <1>2, <2>1, DivIs
  <2> QED
    BY <2>2 DEF v
<1> QED
  BY <1>6, <1>7 DEF z, w, q, s

LEMMA DimsNat == Dims \in Nat \ {0}
BY PlannerAssumption

\* The terms of an index.
Terms(cell, n) == [a \in Axes |-> cell[a] * Pow(n, a - 1)]

LEMMA TermsAreNumbers ==
    ASSUME NEW n \in Nat \ {0}, NEW t \in [Axes -> 0 .. n - 1]
    PROVE  /\ Terms(t, n) \in Seq(Nat) /\ Len(Terms(t, n)) = Dims
           /\ \A a \in 1 .. Dims : /\ Terms(t, n)[a] = t[a] * Pow(n, a - 1)
                                   /\ Pow(n, a - 1) \in Nat \ {0} /\ t[a] \in 0 .. n - 1
<1>1. ASSUME NEW a \in 1 .. Dims
      PROVE  Pow(n, a - 1) \in Nat \ {0} /\ t[a] \in 0 .. n - 1 /\ t[a] * Pow(n, a - 1) \in Nat
  <2>1. a - 1 \in Nat /\ t[a] \in 0 .. n - 1
    BY DimsNat DEF Axes
  <2>2. Pow(n, a - 1) \in Nat \ {0}
    BY <2>1, PowPositive
  <2> QED
    BY <2>1, <2>2
<1>2. Terms(t, n) \in [1 .. Dims -> Nat] /\ \A a \in 1 .. Dims : Terms(t, n)[a] = t[a] * Pow(n, a - 1)
  BY <1>1 DEF Terms, Axes
<1>3. Terms(t, n) \in Seq(Nat) /\ Len(Terms(t, n)) = Dims
  BY <1>2, DimsNat, FunctionIsList
<1> QED
  BY <1>1, <1>2, <1>3

LEMMA IndexOfDigits ==
    ASSUME NEW n \in Nat \ {0}, NEW i \in 0 .. Pow(n, Dims) - 1
    PROVE  CellIndex([a \in Axes |-> (i \div Pow(n, a - 1)) % n], n) = i
<1> DEFINE t == [a \in Axes |-> (i \div Pow(n, a - 1)) % n]
<1>0. Pow(n, Dims) \in Nat \ {0} /\ i \in Nat
  BY DimsNat, PowPositive
<1>1. t \in [Axes -> 0 .. n - 1]
  <2>1. ASSUME NEW a \in Axes PROVE (i \div Pow(n, a - 1)) % n \in 0 .. n - 1
    <3>1. Pow(n, a - 1) \in Nat \ {0}
      <4>1. a - 1 \in Nat
        BY DimsNat DEF Axes
      <4> QED
        BY <4>1, PowPositive
    <3>2. i \div Pow(n, a - 1) \in Int
      <4> DEFINE p == Pow(n, a - 1)
      <4>1. p \in Nat \ {0}
        BY <3>1
      <4> HIDE DEF p
      <4>2. i \div p \in Int
        BY <1>0, <4>1, DivMod
      <4> QED
        BY <4>2 DEF p
    <3> QED
      BY <3>2, DivMod
  <2> QED
    BY <2>1
<1>2. \A a \in 1 .. Dims : t[a] = (i \div Pow(n, a - 1)) % n
  BY DEF Axes
<1> HIDE DEF t
<1> DEFINE f == Terms(t, n)
<1>3. f \in Seq(Nat) /\ Len(f) = Dims
  BY <1>1, TermsAreNumbers
<1>4. \A a \in 1 .. Dims : f[a] = t[a] * Pow(n, a - 1) /\ Pow(n, a - 1) \in Nat \ {0} /\ t[a] \in 0 .. n - 1
  BY <1>1, TermsAreNumbers
<1> HIDE DEF f
<1>5. PICK u : PrefixSums(f, Dims, u) /\ SumOf(f) = u[Dims]
  BY <1>3, SumIs
<1>6. u \in [0 .. Dims -> Nat] /\ u[0] = 0 /\ \A a \in 1 .. Dims : u[a] = u[a - 1] + f[a]
  BY <1>5 DEF PrefixSums
<1> DEFINE H == {m \in Nat : u[m] = i % Pow(n, m)}
<1>7. 0 \in H
  <2>1. i % 1 = 0
    BY <1>0
  <2> QED
    BY <1>6, <2>1, PowZero
<1>8. ASSUME NEW m \in 1 .. Dims, m - 1 \in H PROVE m \in H
  <2> DEFINE p == Pow(n, m - 1)
  <2>1. m - 1 \in Nat /\ m \in Nat /\ (m - 1) + 1 = m
    BY DimsNat
  <2>2. Pow(n, m) = n * p /\ p \in Nat \ {0}
    <3>1. Pow(n, (m - 1) + 1) = n * Pow(n, m - 1)
      BY <2>1, PowNext
    <3> QED
      BY <2>1, <3>1, PowPositive
  <2>3. u[m] = u[m - 1] + f[m] /\ f[m] = t[m] * p /\ t[m] = (i \div p) % n
    BY <1>2, <1>4, <1>6
  <2>4. u[m - 1] = i % p
    BY <1>8
  <2> HIDE DEF p
  <2>5. i % (n * p) = (i % p) + p * ((i \div p) % n)
    BY <1>0, <2>2, ModNext
  <2>6. t[m] \in Int
    BY <1>4
  <2>7. p * t[m] = t[m] * p
    BY <2>2, <2>6
  <2> QED
    BY <2>1, <2>2, <2>3, <2>4, <2>5, <2>7
<1> HIDE DEF H
<1>9. \A m \in 0 .. Dims : m \in H
  BY DimsNat, <1>7, <1>8, Climb
<1>10. Dims \in H
  BY DimsNat, <1>9
<1>11. u[Dims] = i % Pow(n, Dims)
  BY <1>10 DEF H
<1>12. i % Pow(n, Dims) = i
  BY <1>0
<1> QED
  BY <1>5, <1>11, <1>12 DEF CellIndex, f, Terms, t

LEMMA DigitsOfIndex ==
    ASSUME NEW n \in Nat \ {0}, NEW t \in [Axes -> 0 .. n - 1]
    PROVE  /\ CellIndex(t, n) \in 0 .. Pow(n, Dims) - 1
           /\ \A a \in Axes : (CellIndex(t, n) \div Pow(n, a - 1)) % n = t[a]
<1> DEFINE f == Terms(t, n)
<1>3. f \in Seq(Nat) /\ Len(f) = Dims
  BY TermsAreNumbers
<1>4. \A a \in 1 .. Dims : f[a] = t[a] * Pow(n, a - 1) /\ Pow(n, a - 1) \in Nat \ {0} /\ t[a] \in 0 .. n - 1
  BY TermsAreNumbers
<1> HIDE DEF f
<1>5. PICK u : PrefixSums(f, Dims, u) /\ SumOf(f) = u[Dims]
  BY <1>3, SumIs
<1>6. u \in [0 .. Dims -> Nat] /\ u[0] = 0 /\ \A a \in 1 .. Dims : u[a] = u[a - 1] + f[a]
  BY <1>5 DEF PrefixSums
<1> DEFINE H == {m \in 0 .. Dims : /\ u[m] \in 0 .. Pow(n, m) - 1
                                   /\ \A a \in 1 .. m : (u[m] \div Pow(n, a - 1)) % n = t[a]}
<1>7. 0 \in H
  BY <1>6, PowZero, DimsNat
<1>8. ASSUME NEW m \in 1 .. Dims, m - 1 \in H PROVE m \in H
  <2> DEFINE p == Pow(n, m - 1)
             x == u[m - 1]
             d == t[m]
  <2>1. m - 1 \in Nat /\ m \in Nat /\ (m - 1) + 1 = m /\ m \in 0 .. Dims
    BY DimsNat
  <2>2. Pow(n, m) = n * p /\ p \in Nat \ {0}
    <3>1. Pow(n, (m - 1) + 1) = n * Pow(n, m - 1)
      BY <2>1, PowNext
    <3> QED
      BY <2>1, <3>1, PowPositive
  <2>3. u[m] = x + d * p /\ d \in 0 .. n - 1
    BY <1>4, <1>6
  <2>4. x \in 0 .. p - 1
    BY <1>8
  <2>5. \A a \in 1 .. m - 1 : (x \div Pow(n, a - 1)) % n = t[a]
    BY <1>8
  <2> HIDE DEF p, x, d
  <2>6. d * p <= (n - 1) * p /\ d * p >= 0 /\ (n - 1) * p = n * p - p /\ d * p \in Int /\ n * p \in Int
    BY <2>2, <2>3
  <2>7. x + d * p \in 0 .. (n * p) - 1
    BY <2>2, <2>4, <2>6
  <2>8. (u[m] \div p) % n = d
    <3>1. x + d * p = p * d + x
      BY <2>2, <2>3, <2>4
    <3>2. (x + d * p) \div p = d
      <4> DEFINE z == x + d * p
      <4>1. z \in Int /\ z = p * d + x
        BY <2>7, <3>1
      <4>2. p \in Nat \ {0}
        BY <2>2
      <4>3. d \in Int
        BY <2>3
      <4> HIDE DEF z
      <4>4. z \div p = d
        BY <2>4, <4>1, <4>2, <4>3, DivIs
      <4> QED
        BY <4>4 DEF z
    <3>3. d % n = d
      BY <2>3
    <3> QED
      BY <2>3, <3>2, <3>3
  <2>9. ASSUME NEW a \in 1 .. m - 1 PROVE (u[m] \div Pow(n, a - 1)) % n = t[a]
    <3> DEFINE c == Pow(n, a - 1)
               e == Pow(n, m - 1 - a)
    <3>1. a - 1 \in Nat /\ m - 1 - a \in Nat /\ m - 1 = (a - 1) + ((m - 1 - a) + 1)
      BY <2>1
    <3>2. p = c * (n * e) /\ c \in Nat \ {0} /\ e \in Nat \ {0}
      <4>1. Pow(n, (m - 1 - a) + 1) = n * e
        BY <3>1, PowNext
      <4>2. Pow(n, (a - 1) + ((m - 1 - a) + 1)) = c * Pow(n, (m - 1 - a) + 1)
        <5>1. (m - 1 - a) + 1 \in Nat
          BY <3>1
        <5> QED
          BY <3>1, <5>1, PowAdds
      <4>3. c \in Nat \ {0}
        BY <3>1, PowPositive
      <4>4. e \in Nat \ {0}
        BY <3>1, PowPositive
      <4>5. p = Pow(n, (a - 1) + ((m - 1 - a) + 1))
        BY <3>1 DEF p
      <4> QED
        BY <4>1, <4>2, <4>3, <4>4, <4>5
    <3> HIDE DEF c, e
    <3>3. d * p = c * (n * (e * d)) /\ e * d \in Nat
      BY <2>3, <3>2
    <3>4. ((x + c * (n * (e * d))) \div c) % n = (x \div c) % n
      <4> DEFINE y == e * d
      <4>1. y \in Nat
        BY <3>3
      <4>2. x \in Nat
        BY <2>4
      <4>3. c \in Nat \ {0}
        BY <3>2
      <4> HIDE DEF y
      <4>4. ((x + c * (n * y)) \div c) % n = (x \div c) % n
        BY <4>1, <4>2, <4>3, DigitStays
      <4> QED
        BY <4>4 DEF y
    <3>5. (x \div c) % n = t[a]
      BY <2>5 DEF c
    <3> QED
      BY <2>3, <3>3, <3>4, <3>5 DEF c
  <2>10. \A a \in 1 .. m : (u[m] \div Pow(n, a - 1)) % n = t[a]
    <3>1. \A a \in 1 .. m : a = m \/ a \in 1 .. m - 1
      BY <2>1
    <3>2. (u[m] \div Pow(n, m - 1)) % n = t[m]
      BY <2>8 DEF p, d
    <3> QED
      BY <2>9, <3>1, <3>2
  <2>11. u[m] \in 0 .. Pow(n, m) - 1
    BY <2>2, <2>3, <2>7
  <2> QED
    BY <2>1, <2>10, <2>11
<1> HIDE DEF H
<1>9. \A m \in 0 .. Dims : m \in H
  BY DimsNat, <1>7, <1>8, Climb
<1>10. Dims \in H
  BY DimsNat, <1>9
<1>11. CellIndex(t, n) = u[Dims]
  BY <1>5 DEF CellIndex, f, Terms
<1> QED
  BY <1>10, <1>11 DEF H, Axes

(***************************************************************************)
(* Voxels                                                                  *)
(***************************************************************************)
Cells == [Axes -> Int]

LEMMA TwoPowers ==
    ASSUME NEW k \in Nat
    PROVE  Pow(2, k) \in Nat \ {0} /\ Parts(k) \in Nat \ {0}
<1> DEFINE n == Pow(2, k)
<1>1. 2 \in Nat \ {0}
  OBVIOUS
<1>2. n \in Nat \ {0}
  BY <1>1, PowPositive
<1> HIDE DEF n
<1>3. Dims \in Nat
  BY DimsNat
<1>4. Pow(n, Dims) \in Nat \ {0}
  BY <1>2, <1>3, PowPositive
<1> QED
  BY <1>2, <1>4 DEF Parts, n

LEMMA OnePower == Pow(2, 0) = 1 /\ Pow(2, 1) = 2 /\ Parts(0) = 1
<1>1. Pow(2, 0) = 1 /\ Pow(2, 1) = 2
  BY PowZero, PowOne
<1> DEFINE H == {d \in Nat : Pow(1, d) = 1}
<1>2. 0 \in H
  BY PowZero
<1>3. ASSUME NEW d \in 1 .. Dims, d - 1 \in H PROVE d \in H
  <2>1. d - 1 \in Nat /\ (d - 1) + 1 = d /\ d \in Nat
    BY DimsNat
  <2>2. Pow(1, (d - 1) + 1) = 1 * Pow(1, d - 1)
    BY <2>1, PowNext
  <2>3. Pow(1, d - 1) = 1
    BY <1>3
  <2> QED
    BY <2>1, <2>2, <2>3
<1> HIDE DEF H
<1>4. \A d \in 0 .. Dims : d \in H
  BY <1>2, <1>3, DimsNat, Climb
<1>5. Dims \in H
  BY <1>4, DimsNat
<1>6. Pow(1, Dims) = 1
  BY <1>5 DEF H
<1> QED
  BY <1>1, <1>6 DEF Parts

\* Where the i-th of the voxels below is.
LEMMA BelowIs ==
    ASSUME NEW k \in Nat, NEW cell \in Cells, NEW i \in 0 .. Parts(k) - 1
    PROVE  /\ Below(cell, k, i) \in Cells
           /\ Up(Below(cell, k, i), k) = cell
           /\ SubOctantIndex(Below(cell, k, i), k) = i
<1> DEFINE n == Pow(2, k)
           d == [a \in Axes |-> (i \div Pow(n, a - 1)) % n]
           c == Below(cell, k, i)
<1>1. n \in Nat \ {0} /\ i \in Nat /\ i \in 0 .. Pow(n, Dims) - 1
  BY TwoPowers DEF Parts
<1>2. c = [a \in Axes |-> cell[a] * n + d[a]]
  BY DEF Below
<1> HIDE DEF n, c
<1>3. ASSUME NEW a \in Axes PROVE d[a] \in 0 .. n - 1
  <2> DEFINE p == Pow(n, a - 1)
             q == i \div p
  <2>1. p \in Nat \ {0}
    <3>1. a - 1 \in Nat
      BY DimsNat DEF Axes
    <3> QED
      BY <1>1, <3>1, PowPositive
  <2>2. d[a] = q % n
    OBVIOUS
  <2> HIDE DEF p
  <2>3. q \in Int
    BY <1>1, <2>1, DivMod
  <2> HIDE DEF q
  <2>4. q % n \in 0 .. n - 1
    BY <1>1, <2>3, DivMod
  <2> QED
    BY <2>2, <2>4
<1>4. CellIndex(d, n) = i
  BY <1>1, IndexOfDigits
<1> HIDE DEF d
<1>5. ASSUME NEW a \in Axes
      PROVE  c[a] \in Int /\ c[a] \div n = cell[a] /\ c[a] % n = d[a]
  <2> DEFINE q == cell[a]
             r == d[a]
             x == c[a]
  <2>1. q \in Int
    BY DEF Cells
  <2>2. r \in 0 .. n - 1
    BY <1>3
  <2>3. x = q * n + r
    BY <1>2
  <2>4. n \in Nat \ {0}
    BY <1>1
  <2> HIDE DEF q, r, x
  <2>5. x \in Int /\ x = n * q + r
    BY <2>1, <2>2, <2>3, <2>4
  <2>6. x \div n = q /\ x % n = r
    BY <2>1, <2>2, <2>4, <2>5, DivIs
  <2> QED
    BY <2>5, <2>6 DEF q, r, x
<1>6. c \in Cells
  BY <1>2, <1>5 DEF Cells
<1>7. Up(c, k) = cell
  <2>1. Up(c, k) = [a \in Axes |-> cell[a]]
    BY <1>5 DEF Up, n
  <2> QED
    BY <2>1 DEF Cells
<1>8. SubOctantIndex(c, k) = i
  <2>1. [a \in Axes |-> c[a] % n] = [a \in Axes |-> d[a]]
    BY <1>5
  <2>2. d = [a \in Axes |-> d[a]]
    BY DEF d
  <2> QED
    BY <1>4, <2>1, <2>2 DEF SubOctantIndex, n
<1> QED
  BY <1>6, <1>7, <1>8 DEF c

LEMMA BelowDistinct ==
    ASSUME NEW k \in Nat, NEW cell \in Cells, NEW i \in 0 .. Parts(k) - 1, NEW j \in 0 .. Parts(k) - 1,
           Below(cell, k, i) = Below(cell, k, j)
    PROVE  i = j
<1>1. SubOctantIndex(Below(cell, k, i), k) = i
  BY BelowIs
<1>2. SubOctantIndex(Below(cell, k, j), k) = j
  BY BelowIs
<1> QED
  BY <1>1, <1>2

\* Every voxel is found by its index.
LEMMA BelowAll ==
    ASSUME NEW k \in Nat, NEW c \in Cells
    PROVE  /\ SubOctantIndex(c, k) \in 0 .. Parts(k) - 1
           /\ Below(Up(c, k), k, SubOctantIndex(c, k)) = c
<1> DEFINE n == Pow(2, k)
           t == [a \in Axes |-> c[a] % n]
           i == SubOctantIndex(c, k)
<1>1. n \in Nat \ {0}
  BY TwoPowers
<1>2. i = CellIndex(t, n)
  BY DEF SubOctantIndex
<1> HIDE DEF n, i
<1>3. ASSUME NEW a \in Axes
      PROVE  c[a] % n \in 0 .. n - 1 /\ c[a] \in Int /\ c[a] \div n \in Int
             /\ c[a] = n * (c[a] \div n) + (c[a] % n)
  <2> DEFINE x == c[a]
  <2>1. x \in Int
    BY DEF Cells
  <2> HIDE DEF x
  <2>2. x % n \in 0 .. n - 1 /\ x \div n \in Int /\ x = n * (x \div n) + (x % n)
    BY <1>1, <2>1, DivMod
  <2> QED
    BY <2>1, <2>2 DEF x
<1>4. t \in [Axes -> 0 .. n - 1]
  BY <1>3
<1>5. \A a \in Axes : t[a] = c[a] % n
  OBVIOUS
<1> HIDE DEF t
<1>6. i \in 0 .. Pow(n, Dims) - 1
  BY <1>1, <1>2, <1>4, DigitsOfIndex
<1>7. \A a \in Axes : (i \div Pow(n, a - 1)) % n = t[a]
  BY <1>1, <1>2, <1>4, DigitsOfIndex
<1>8. Below(Up(c, k), k, i) = [a \in Axes |-> (c[a] \div n) * n + (c[a] % n)]
  BY <1>5, <1>7 DEF Below, Up, n
<1>9. ASSUME NEW a \in Axes PROVE (c[a] \div n) * n + (c[a] % n) = c[a]
  <2> DEFINE q == c[a] \div n
             r == c[a] % n
  <2>1. q \in Int /\ r \in 0 .. n - 1 /\ c[a] = n * q + r /\ c[a] \in Int
    BY <1>3
  <2> HIDE DEF q, r
  <2>2. q * n + r = c[a]
    BY <1>1, <2>1
  <2> QED
    BY <2>2 DEF q, r
<1>10. Below(Up(c, k), k, i) = c
  <2>1. c = [a \in Axes |-> c[a]]
    BY DEF Cells
  <2> QED
    BY <1>8, <1>9, <2>1
<1> QED
  BY <1>6, <1>10 DEF i, n, Parts

LEMMA UpIs ==
    ASSUME NEW c \in Cells, NEW j \in Nat, NEW k \in Nat
    PROVE  /\ Up(c, j) \in Cells
           /\ Up(c, 0) = c
           /\ Up(Up(c, j), k) = Up(c, j + k)
<1> DEFINE n == Pow(2, j)
           m == Pow(2, k)
<1>1. n \in Nat \ {0} /\ m \in Nat \ {0}
  BY TwoPowers
<1>2. Pow(2, j + k) = n * m
  BY PowAdds
<1> HIDE DEF n, m
<1>3. ASSUME NEW a \in Axes
      PROVE c[a] \div n \in Int /\ c[a] \div 1 = c[a] /\ (c[a] \div n) \div m = c[a] \div (n * m)
  <2> DEFINE x == c[a]
  <2>1. x \in Int
    BY DEF Cells
  <2> HIDE DEF x
  <2>2. x \div n \in Int /\ x \div 1 = x
    BY <1>1, <2>1, DivMod
  <2>3. (x \div n) \div m = x \div (n * m)
    BY <1>1, <2>1, DivDiv
  <2> QED
    BY <2>2, <2>3 DEF x
<1>4. Up(c, j) \in Cells
  BY <1>3 DEF Up, Cells, n
<1>5. Up(c, 0) = c
  <2>1. Up(c, 0) = [a \in Axes |-> c[a]]
    BY <1>3, OnePower DEF Up
  <2> QED
    BY <2>1 DEF Cells
<1>6. Up(Up(c, j), k) = Up(c, j + k)
  <2>1. Up(Up(c, j), k) = [a \in Axes |-> (c[a] \div n) \div m]
    BY DEF Up, n, m
  <2>2. Up(c, j + k) = [a \in Axes |-> c[a] \div (n * m)]
    BY <1>2 DEF Up
  <2> QED
    BY <1>3, <2>1, <2>2
<1> QED
  BY <1>4, <1>5, <1>6

LEMMA GridCells ==
    ASSUME NEW l \in Nat
    PROVE  Grid(l) \subseteq Cells
BY TwoPowers DEF Grid, Cells

\* The voxel above is in the grid above and those below in the grid below.
LEMMA GridUp ==
    ASSUME NEW l \in Nat, NEW k \in Nat, NEW c \in Cells
    PROVE  Up(c, k) \in Grid(l) <=> c \in Grid(l + k)
<1> DEFINE n == Pow(2, k)
           m == Pow(2, l)
<1>1. n \in Nat \ {0} /\ m \in Nat \ {0} /\ Pow(2, l + k) = m * n
  BY TwoPowers, PowAdds
<1> HIDE DEF n, m
<1>2. ASSUME NEW a \in Axes
      PROVE  c[a] \div n \in 0 .. m - 1 <=> c[a] \in 0 .. (m * n) - 1
  <2> DEFINE q == c[a] \div n
             r == c[a] % n
             x == c[a]
  <2>1. x \in Int
    BY DEF Cells
  <2>2. q \in Int /\ r \in 0 .. n - 1 /\ x = n * q + r
    <3> HIDE DEF x
    <3>1. x \div n \in Int /\ x % n \in 0 .. n - 1 /\ x = n * (x \div n) + (x % n)
      BY <1>1, <2>1, DivMod
    <3> QED
      BY <3>1 DEF x
  <2> HIDE DEF q, r, x
  <2>3. CASE q \in 0 .. m - 1
    <3>1. n * q <= n * (m - 1) /\ n * (m - 1) = m * n - n /\ n * q >= 0
      BY <1>1, <2>3
    <3>2. x \in 0 .. (m * n) - 1
      BY <1>1, <2>1, <2>2, <3>1
    <3> QED
      BY <2>3, <3>2 DEF q, x
  <2>4. CASE q < 0
    <3>1. n * q <= n * (-1) /\ n * (-1) = -n
      BY <1>1, <2>2, <2>4
    <3>2. x < 0
      BY <1>1, <2>1, <2>2, <3>1
    <3> QED
      BY <2>4, <3>2, <2>1, <2>2, <1>1 DEF q, x
  <2>5. CASE q >= m
    <3>1. n * q >= n * m /\ n * m = m * n /\ m * n \in Int /\ n * q \in Int
      BY <1>1, <2>2, <2>5
    <3>2. x >= m * n
      BY <1>1, <2>1, <2>2, <3>1
    <3>3. q \notin 0 .. m - 1 /\ x \notin 0 .. (m * n) - 1
      BY <1>1, <2>1, <2>2, <2>5, <3>1, <3>2
    <3> QED
      BY <3>3 DEF q, x
  <2> QED
    BY <1>1, <2>2, <2>3, <2>4, <2>5
<1>3. Up(c, k) \in Grid(l) <=> \A a \in Axes : c[a] \div n \in 0 .. m - 1
  BY DEF Up, Grid, n, m
<1>4. c \in Grid(l + k) <=> \A a \in Axes : c[a] \in 0 .. (m * n) - 1
  BY <1>1 DEF Grid, Cells
<1> QED
  BY <1>2, <1>3, <1>4

LEMMA GridBelow ==
    ASSUME NEW l \in Nat, NEW k \in Nat, NEW cell \in Grid(l), NEW i \in 0 .. Parts(k) - 1
    PROVE  Below(cell, k, i) \in Grid(l + k)
<1>1. cell \in Cells
  BY GridCells
<1>2. Below(cell, k, i) \in Cells /\ Up(Below(cell, k, i), k) = cell
  BY <1>1, BelowIs
<1> QED
  BY <1>2, GridUp

LEMMA GridOfRoot == Root \in Grid(0) /\ \A c \in Grid(0) : c = Root
<1>1. Grid(0) = [Axes -> 0 .. 0]
  BY OnePower DEF Grid
<1> QED
  BY <1>1 DEF Root

\* The voxels of a grid one after the other.
LEMMA GridInOrder ==
    ASSUME NEW l \in Nat, NEW c \in Grid(l)
    PROVE  \E i \in 1 .. Parts(l) : c = Below(Root, l, i - 1)
<1>1. c \in Cells /\ 0 \in Nat /\ 0 + l = l
  BY GridCells
<1>2. Up(c, l) \in Grid(0)
  BY <1>1, GridUp
<1>3. Up(c, l) = Root
  BY <1>2, GridOfRoot
<1> DEFINE i == SubOctantIndex(c, l)
<1>4. i \in 0 .. Parts(l) - 1 /\ Below(Root, l, i) = c
  BY <1>1, <1>3, BelowAll
<1> HIDE DEF i
<1>5. Parts(l) \in Nat
  BY TwoPowers
<1>6. i + 1 \in 1 .. Parts(l) /\ (i + 1) - 1 = i
  BY <1>4, <1>5
<1> QED
  BY <1>4, <1>6

LEMMA GridPlace ==
    ASSUME NEW l \in Nat, NEW i \in 1 .. Parts(l)
    PROVE  Below(Root, l, i - 1) \in Grid(l)
<1>1. Parts(l) \in Nat
  BY TwoPowers
<1>2. i - 1 \in 0 .. Parts(l) - 1 /\ 0 \in Nat /\ 0 + l = l
  BY <1>1
<1>3. Below(Root, l, i - 1) \in Grid(0 + l)
  BY <1>2, GridBelow, GridOfRoot
<1> QED
  BY <1>2, <1>3

LEMMA GridPlaceDistinct ==
    ASSUME NEW l \in Nat, NEW i \in 1 .. Parts(l), NEW j \in 1 .. Parts(l),
           Below(Root, l, i - 1) = Below(Root, l, j - 1)
    PROVE  i = j
<1>1. Parts(l) \in Nat /\ i \in Int /\ j \in Int
  BY TwoPowers
<1>2. i - 1 \in 0 .. Parts(l) - 1 /\ j - 1 \in 0 .. Parts(l) - 1
  BY <1>1
<1>3. Root \in Cells
  BY GridOfRoot, GridCells
<1>4. i - 1 = j - 1
  BY <1>2, <1>3, BelowDistinct
<1> QED
  BY <1>1, <1>4

\* The children of a voxel.
LEMMA ChildIs ==
    ASSUME NEW l \in Nat, NEW parent \in Grid(l), NEW i \in 1 .. Parts(1)
    PROVE  Child(parent, i) \in Grid(l + 1) /\ Up(Child(parent, i), 1) = parent
<1>1. Parts(1) \in Nat
  BY TwoPowers
<1>2. i - 1 \in 0 .. Parts(1) - 1 /\ parent \in Cells
  BY <1>1, GridCells
<1> QED
  BY <1>2, GridBelow, BelowIs DEF Child

LEMMA ChildDistinct ==
    ASSUME NEW parent \in Cells, NEW i \in 1 .. Parts(1), NEW j \in 1 .. Parts(1),
           Child(parent, i) = Child(parent, j)
    PROVE  i = j
<1>1. Parts(1) \in Nat /\ i \in Int /\ j \in Int
  BY TwoPowers
<1>2. i - 1 \in 0 .. Parts(1) - 1 /\ j - 1 \in 0 .. Parts(1) - 1
  BY <1>1
<1>4. i - 1 = j - 1
  BY <1>2, BelowDistinct DEF Child
<1> QED
  BY <1>1, <1>4

LEMMA ChildAll ==
    ASSUME NEW c \in Cells
    PROVE  \E i \in 1 .. Parts(1) : c = Child(Up(c, 1), i)
<1> DEFINE i == SubOctantIndex(c, 1)
<1>1. i \in 0 .. Parts(1) - 1 /\ Below(Up(c, 1), 1, i) = c
  BY BelowAll
<1> HIDE DEF i
<1>2. Parts(1) \in Nat
  BY TwoPowers
<1>3. i + 1 \in 1 .. Parts(1) /\ (i + 1) - 1 = i
  BY <1>1, <1>2
<1> QED
  BY <1>1, <1>3 DEF Child

(***************************************************************************)
(* Greatest and least                                                      *)
(***************************************************************************)
LEMMA MaxIs ==
    ASSUME NEW S, S \subseteq Int, S # {}, NEW N \in Int, \A x \in S : x <= N
    PROVE  Max(S) \in S /\ \A x \in S : Max(S) >= x
<1> DEFINE T == {N - x : x \in S}
<1>1. T \subseteq Nat /\ T # {}
  <2>1. ASSUME NEW x \in S PROVE N - x \in Nat /\ N - x \in T
    <3>1. x \in Int /\ x <= N
      OBVIOUS
    <3> QED
      BY <3>1
  <2>2. PICK x : x \in S
    OBVIOUS
  <2>3. N - x \in T
    BY <2>1, <2>2
  <2>4. \A t \in T : \E y \in S : t = N - y
    OBVIOUS
  <2> HIDE DEF T
  <2>5. T \subseteq Nat
    BY <2>1, <2>4
  <2> QED
    BY <2>3, <2>5
<1> HIDE DEF T
<1>2. PICK t \in T : \A m \in T : t <= m
  BY <1>1, Least
<1>3. PICK x \in S : t = N - x
  BY <1>2 DEF T
<1>4. ASSUME NEW y \in S PROVE x >= y
  <2>1. N - y \in T
    BY DEF T
  <2>2. N - x <= N - y
    BY <1>2, <1>3, <2>1
  <2>3. x \in Int /\ y \in Int
    OBVIOUS
  <2> QED
    BY <2>2, <2>3
<1> QED
  BY <1>4 DEF Max

LEMMA MinIs ==
    ASSUME NEW S, S \subseteq Int, S # {}, NEW N \in Int, \A x \in S : N <= x
    PROVE  Min(S) \in S /\ \A x \in S : Min(S) <= x
<1> DEFINE T == {x - N : x \in S}
<1>1. T \subseteq Nat /\ T # {}
  <2>1. ASSUME NEW x \in S PROVE x - N \in Nat /\ x - N \in T
    <3>1. x \in Int /\ N <= x
      OBVIOUS
    <3> QED
      BY <3>1
  <2>2. PICK x : x \in S
    OBVIOUS
  <2>3. x - N \in T
    BY <2>1, <2>2
  <2>4. \A t \in T : \E y \in S : t = y - N
    OBVIOUS
  <2> HIDE DEF T
  <2>5. T \subseteq Nat
    BY <2>1, <2>4
  <2> QED
    BY <2>3, <2>5
<1> HIDE DEF T
<1>2. PICK t \in T : \A m \in T : t <= m
  BY <1>1, Least
<1>3. PICK x \in S : t = x - N
  BY <1>2 DEF T
<1>4. ASSUME NEW y \in S PROVE x <= y
  <2>1. y - N \in T
    BY DEF T
  <2>2. x - N <= y - N
    BY <1>2, <1>3, <2>1
  <2>3. x \in Int /\ y \in Int
    OBVIOUS
  <2> QED
    BY <2>2, <2>3
<1> QED
  BY <1>4 DEF Min

LEMMA MaxOfTwo ==
    ASSUME NEW a \in Int, NEW b \in Int
    PROVE  Max({a, b}) = IF a >= b THEN a ELSE b
<1> DEFINE S == {a, b}
           N == IF a >= b THEN a ELSE b
<1>1. S \subseteq Int /\ S # {} /\ N \in Int /\ \A x \in S : x <= N
  OBVIOUS
<1> HIDE DEF N, S
<1>2. Max(S) \in S /\ \A x \in S : Max(S) >= x
  BY <1>1, MaxIs
<1> QED
  BY <1>2 DEF N, S

LEMMA MinOfTwo ==
    ASSUME NEW a \in Int, NEW b \in Int
    PROVE  Min({a, b}) = IF a <= b THEN a ELSE b
<1> DEFINE S == {a, b}
           N == IF a <= b THEN a ELSE b
<1>1. S \subseteq Int /\ S # {} /\ N \in Int /\ \A x \in S : N <= x
  OBVIOUS
<1> HIDE DEF N, S
<1>2. Min(S) \in S /\ \A x \in S : Min(S) <= x
  BY <1>1, MinIs
<1> QED
  BY <1>2 DEF N, S

(***************************************************************************)
(* What is given                                                           *)
(***************************************************************************)
GivenOK == files \in Inputs /\ header \in Headers /\ budget \in Budgets /\ override \in Overrides

LEMMA PointsAre ==
    ASSUME GivenOK
    PROVE  /\ TotalPoints \in Nat /\ DOMAIN AllPoints = 1 .. TotalPoints
           /\ \A i \in 1 .. TotalPoints : AllPoints[i] \in [Axes -> Int]
           /\ \A i \in 1 .. TotalPoints : \A a \in Axes : AllPoints[i][a] \in -Endless .. Endless
<1> DEFINE s == files.points
<1>1. s \in Seq([Axes -> Int])
  BY PlannerAssumption DEF GivenOK, Axes
<1>2. \A i \in DOMAIN s : \A a \in Axes : s[i][a] \in -Endless .. Endless
  BY PlannerAssumption DEF GivenOK, Axes
<1> HIDE DEF s
<1>3. Len(s) \in Nat /\ DOMAIN s = 1 .. Len(s)
  BY <1>1, LenProperties
<1>4. \A i \in 1 .. Len(s) : s[i] \in [Axes -> Int]
  BY <1>1, ElementOfSeq
<1> QED
  BY <1>2, <1>3, <1>4 DEF TotalPoints, AllPoints, s

LEMMA GridDepthIs ==
    ASSUME GivenOK
    PROVE  /\ GridDepth \in Nat \ {0} /\ Span \in Nat /\ SplitLevelCap \in Nat \ {0}
           /\ GridDepth + SplitLevelCap <= Span
<1> DEFINE P == {t \in DOMAIN Tiers : TotalPoints >= Tiers[t]}
           preferred == Cardinality(P) + 1
           fits == {t \in 1 .. preferred :
                   Pow(Pow(2, GridDepths[t]), Dims) <= ((budget * GridPercent) \div 100) \div PerCell}
           n == Len(GridDepths)
<1>1. n \in Nat \ {0} /\ Len(Tiers) \in Nat /\ Len(Tiers) + 1 = n /\ DOMAIN Tiers = 1 .. Len(Tiers)
  <2>1. GridDepths \in Seq(Nat \ {0}) /\ Tiers \in Seq(Nat) /\ Len(Tiers) + 1 = n
    BY PlannerAssumption
  <2>2. Len(Tiers) \in Nat /\ DOMAIN Tiers = 1 .. Len(Tiers)
    BY <2>1, LenProperties
  <2> QED
    BY <2>1, <2>2
<1>2. preferred \in 1 .. n
  <2>1. IsFiniteSet(1 .. Len(Tiers)) /\ Cardinality(1 .. Len(Tiers)) = Len(Tiers)
    <3>1. 1 \in Int /\ Len(Tiers) \in Int
      BY <1>1
    <3>2. IsFiniteSet(1 .. Len(Tiers)) /\ Cardinality(1 .. Len(Tiers)) = IF 1 > Len(Tiers) THEN 0 ELSE Len(Tiers) - 1 + 1
      BY <3>1, FS_Interval
    <3> QED
      BY <1>1, <3>2
  <2>2. P \subseteq 1 .. Len(Tiers)
    BY <1>1
  <2> HIDE DEF P
  <2>3. IsFiniteSet(P) /\ Cardinality(P) <= Len(Tiers)
    BY <2>1, <2>2, FS_Subset
  <2>4. Cardinality(P) \in Nat
    BY <2>3, FS_CardinalityType
  <2> QED
    BY <1>1, <2>3, <2>4
<1>3. GridDepth = GridDepths[Max(fits \cup {1})]
  BY DEF GridDepth
<1>4. fits \subseteq 1 .. preferred
  OBVIOUS
<1> HIDE DEF fits, preferred, n
<1> DEFINE S == fits \cup {1}
<1>5. S \subseteq Int /\ S # {} /\ n \in Int /\ \A x \in S : x <= n
  BY <1>1, <1>2, <1>4
<1>6. S \subseteq 1 .. n
  BY <1>1, <1>2, <1>4
<1> HIDE DEF S
<1>7. Max(S) \in S
  BY <1>5, MaxIs
<1>8. Max(S) \in 1 .. n
  BY <1>6, <1>7
<1> DEFINE m == Max(S)
<1>9. GridDepth = GridDepths[m] /\ m \in 1 .. n
  BY <1>3, <1>8 DEF S
<1> HIDE DEF m
<1>10. GridDepths \in Seq(Nat \ {0})
  BY PlannerAssumption
<1>11. DOMAIN GridDepths = 1 .. n /\ \A t \in 1 .. n : GridDepths[t] \in Nat \ {0}
  BY <1>10, LenProperties, ElementOfSeq DEF n
<1>12. GridDepths[m] <= GridDepths[n]
  <2>1. n \in 1 .. n /\ m <= n
    BY <1>1, <1>9
  <2> QED
    BY <1>9, <1>11, <2>1, PlannerAssumption
<1>13. n \in 1 .. n
  BY <1>1
<1>14. GridDepths[m] \in Nat \ {0} /\ GridDepths[n] \in Nat \ {0}
  BY <1>9, <1>11, <1>13
<1>15. SplitLevelCap \in Nat \ {0}
  BY PlannerAssumption
<1>16. Span = GridDepths[n] + SplitLevelCap
  BY DEF Span, n
<1> QED
  BY <1>9, <1>12, <1>14, <1>15, <1>16

(***************************************************************************)
(* The voxels of a point                                                   *)
(***************************************************************************)
Key(i, l) == PointToKey(Encoded(AllPoints[i]), l)

LEMMA EncodedIs ==
    ASSUME NEW point \in [Axes -> Int]
    PROVE  Encoded(point) \in Cells
<1>1. \A a \in Axes : (IF point[a] < 0 THEN -((1 - point[a]) \div 2) ELSE (point[a] + 1) \div 2) \in Int
  OBVIOUS
<1> QED
  BY <1>1 DEF Encoded, Cells

LEMMA ClampHalves ==
    ASSUME NEW x \in Int, NEW n \in Nat \ {0}, NEW m \in Nat \ {0}
    PROVE  /\ Clamp(x, 0, n * m - 1) \in 0 .. n * m - 1
           /\ Clamp(x, 0, n * m - 1) \div n = Clamp(x \div n, 0, m - 1)
<1> DEFINE q == x \div n
           r == x % n
           k == n * m
<1>1. q \in Int /\ r \in 0 .. n - 1 /\ x = n * q + r
  BY DivMod
<1> HIDE DEF q, r
<1>2. k \in Nat \ {0} /\ k >= 1 /\ n * (m - 1) = k - n
  OBVIOUS
<1>3. CASE x < 0
  <2>1. q < 0
    <3>1. q >= 0 => n * q >= 0
      BY <1>1
    <3> QED
      BY <1>1, <1>3, <3>1
  <2>2. Clamp(x, 0, k - 1) = 0 /\ Clamp(q, 0, m - 1) = 0
    BY <1>3, <2>1 DEF Clamp
  <2>3. 0 \div n = 0
    <3>1. 0 \in 0 .. n - 1 /\ 0 = n * 0 + 0 /\ 0 \in Int
      OBVIOUS
    <3> QED
      BY <3>1, DivIs
  <2> QED
    BY <1>2, <2>2, <2>3 DEF q, k
<1>4. CASE x > k - 1
  <2>1. q > m - 1
    <3>1. q <= m - 1 => n * q <= n * (m - 1)
      BY <1>1
    <3> QED
      BY <1>1, <1>2, <1>4, <3>1
  <2>2. Clamp(x, 0, k - 1) = k - 1 /\ Clamp(q, 0, m - 1) = m - 1
    BY <1>1, <1>2, <1>4, <2>1 DEF Clamp
  <2>3. (k - 1) \div n = m - 1
    <3>1. n - 1 \in 0 .. n - 1 /\ k - 1 = n * (m - 1) + (n - 1) /\ k - 1 \in Int /\ m - 1 \in Int
      BY <1>2
    <3> HIDE DEF k
    <3> QED
      BY <3>1, DivIs
  <2> QED
    BY <1>2, <2>2, <2>3 DEF q, k
<1>5. CASE x \in 0 .. k - 1
  <2>1. q >= 0
    <3>1. q < 0 => n * q <= n * (-1) /\ n * (-1) = -n
      BY <1>1
    <3> QED
      BY <1>1, <1>5, <3>1
  <2>2. q <= m - 1
    <3>1. q >= m => n * q >= n * m
      BY <1>1
    <3> QED
      BY <1>1, <1>5, <3>1
  <2>3. Clamp(x, 0, k - 1) = x /\ Clamp(q, 0, m - 1) = q
    BY <1>1, <1>2, <1>5, <2>1, <2>2 DEF Clamp
  <2> QED
    BY <1>5, <2>3 DEF q, k
<1>6. x < 0 \/ x > k - 1 \/ x \in 0 .. k - 1
  BY <1>2
<1> QED
  BY <1>3, <1>4, <1>5, <1>6

LEMMA PointToKeyIs ==
    ASSUME NEW p \in Cells, NEW l \in Nat, NEW k \in Nat, l + k <= Span, Span \in Nat
    PROVE  /\ PointToKey(p, l + k) \in Grid(l + k)
           /\ Up(PointToKey(p, l + k), k) = PointToKey(p, l)
<1> DEFINE A == Pow(2, Span - (l + k))
           n == Pow(2, k)
           m == Pow(2, l)
<1>1. Span - (l + k) \in Nat
  OBVIOUS
<1>2. A \in Nat \ {0} /\ n \in Nat \ {0} /\ m \in Nat \ {0}
  BY <1>1, TwoPowers
<1>3. Pow(2, l + k) = n * m
  <2>1. Pow(2, l + k) = m * n
    BY PowAdds
  <2> QED
    BY <1>2, <2>1
<1>4. Pow(2, Span - l) = A * n
  <2>1. Span - l = (Span - (l + k)) + k
    OBVIOUS
  <2>2. Pow(2, (Span - (l + k)) + k) = Pow(2, Span - (l + k)) * Pow(2, k)
    BY <1>1, PowAdds
  <2> QED
    BY <2>1, <2>2
<1> HIDE DEF A, n, m
<1>5. ASSUME NEW a \in Axes
      PROVE  /\ Clamp(p[a] \div A, 0, n * m - 1) \in 0 .. n * m - 1
             /\ Clamp(p[a] \div A, 0, n * m - 1) \div n = Clamp(p[a] \div (A * n), 0, m - 1)
  <2> DEFINE x == p[a]
             y == x \div A
  <2>1. x \in Int
    BY DEF Cells
  <2> HIDE DEF x
  <2>2. y \in Int /\ y \div n = x \div (A * n)
    BY <1>2, <2>1, DivMod, DivDiv
  <2> HIDE DEF y
  <2>3. /\ Clamp(y, 0, n * m - 1) \in 0 .. n * m - 1
        /\ Clamp(y, 0, n * m - 1) \div n = Clamp(y \div n, 0, m - 1)
    BY <1>2, <2>2, ClampHalves
  <2> QED
    BY <2>2, <2>3 DEF x, y
<1>6. PointToKey(p, l + k) = [a \in Axes |-> Clamp(p[a] \div A, 0, n * m - 1)]
  BY <1>3 DEF PointToKey, A
<1>7. PointToKey(p, l) = [a \in Axes |-> Clamp(p[a] \div (A * n), 0, m - 1)]
  BY <1>4 DEF PointToKey, m
<1>8. Grid(l + k) = [Axes -> 0 .. n * m - 1]
  BY <1>3 DEF Grid
<1>9. Up(PointToKey(p, l + k), k) = [a \in Axes |-> Clamp(p[a] \div A, 0, n * m - 1) \div n]
  BY <1>6 DEF Up, n
<1> QED
  BY <1>5, <1>6, <1>7, <1>8, <1>9

LEMMA KeyIs ==
    ASSUME GivenOK, NEW i \in 1 .. TotalPoints, NEW l \in Nat, NEW k \in Nat, l + k <= Span
    PROVE  Key(i, l + k) \in Grid(l + k) /\ Up(Key(i, l + k), k) = Key(i, l)
<1> DEFINE p == Encoded(AllPoints[i])
<1>1. p \in Cells
  BY PointsAre, EncodedIs
<1>2. Span \in Nat
  BY GridDepthIs
<1> HIDE DEF p
<1>3. /\ PointToKey(p, l + k) \in Grid(l + k)
      /\ Up(PointToKey(p, l + k), k) = PointToKey(p, l)
  BY <1>1, <1>2, PointToKeyIs
<1> QED
  BY <1>3 DEF Key, p

LEMMA KeyInGrid ==
    ASSUME GivenOK, NEW i \in 1 .. TotalPoints, NEW l \in Nat, l <= Span
    PROVE  Key(i, l) \in Grid(l)
<1>1. 0 \in Nat /\ l + 0 = l
  OBVIOUS
<1>2. Key(i, l + 0) \in Grid(l + 0)
  BY <1>1, KeyIs
<1> QED
  BY <1>1, <1>2

(***************************************************************************)
(* Workers                                                                 *)
(***************************************************************************)
LEMMA FilesAre ==
    ASSUME GivenOK
    PROVE  /\ Len(files.ends) \in Nat
           /\ \A f \in 1 .. Len(files.ends) : files.ends[f] \in 0 .. TotalPoints
           /\ \A f, g \in 1 .. Len(files.ends) : f <= g => files.ends[f] <= files.ends[g]
           /\ Len(files.ends) = 0 => TotalPoints = 0
           /\ Len(files.ends) # 0 => files.ends[Len(files.ends)] = TotalPoints
<1> DEFINE e == files.ends
<1>1. e \in Seq(0 .. TotalPoints)
  BY PlannerAssumption DEF GivenOK, TotalPoints, AllPoints
<1>2. \A f, g \in DOMAIN e : f <= g => e[f] <= e[g]
  BY PlannerAssumption DEF GivenOK
<1>3. IF e = <<>> THEN files.points = <<>> ELSE e[Len(e)] = TotalPoints
  BY PlannerAssumption DEF GivenOK, TotalPoints, AllPoints
<1>4. TotalPoints = Len(files.points)
  BY DEF TotalPoints, AllPoints
<1> HIDE DEF e
<1>5. Len(e) \in Nat /\ DOMAIN e = 1 .. Len(e)
  BY <1>1, LenProperties
<1>6. \A f \in 1 .. Len(e) : e[f] \in 0 .. TotalPoints
  BY <1>1, ElementOfSeq
<1>7. Len(e) = 0 => TotalPoints = 0
  <2>1. Len(e) = 0 => e = <<>>
    BY <1>1, EmptySeq
  <2>2. Len(<<>>) = 0
    BY EmptySeq
  <2> QED
    BY <1>3, <1>4, <2>1, <2>2
<1>8. Len(e) # 0 => e[Len(e)] = TotalPoints
  <2>1. e = <<>> => Len(e) = 0
    BY EmptySeq
  <2> QED
    BY <1>3, <2>1
<1> QED
  BY <1>2, <1>5, <1>6, <1>7, <1>8 DEF e

LEMMA WorkersAre ==
    ASSUME GivenOK
    PROVE  NumWorkers \in Nat \ {0} /\ Workers = 0 .. NumWorkers - 1
<1> DEFINE F == Len(files.ends)
           C == (Cores * 2) \div 3
           T == Max({2, C})
           M == Min({F, T})
           W == Max({1, M})
<1>1. F \in Nat /\ C \in Int
  BY FilesAre, PlannerAssumption
<1>2. Workers = 0 .. W - 1
  BY DEF Workers
<1> HIDE DEF F, C
<1>3. T \in Int
  BY <1>1, MaxOfTwo
<1> HIDE DEF T
<1>4. M \in Int
  BY <1>1, <1>3, MinOfTwo
<1> HIDE DEF M
<1>5. W \in Nat \ {0}
  BY <1>4, MaxOfTwo
<1> HIDE DEF W
<1>6. Cardinality(0 .. W - 1) = W
  <2>1. 0 \in Int /\ W - 1 \in Int
    BY <1>5
  <2>2. Cardinality(0 .. W - 1) = IF 0 > W - 1 THEN 0 ELSE (W - 1) - 0 + 1
    BY <2>1, FS_Interval
  <2> QED
    BY <1>5, <2>2
<1> QED
  BY <1>2, <1>5, <1>6 DEF NumWorkers

LEMMA EdgesAre ==
    ASSUME GivenOK
    PROVE  /\ Edge(0) = 0 /\ Edge(NumWorkers) = TotalPoints
           /\ \A w \in 0 .. NumWorkers : Edge(w) \in 0 .. TotalPoints
           /\ \A v, w \in 0 .. NumWorkers : v <= w => Edge(v) <= Edge(w)
<1> DEFINE F == Len(files.ends)
           N == NumWorkers
           q == (F + N - 1) \div N
           file(w) == IF w * q <= F THEN w * q ELSE F
<1>1. F \in Nat /\ N \in Nat \ {0}
  BY FilesAre, WorkersAre
<1>2. \A f \in 1 .. F : files.ends[f] \in 0 .. TotalPoints
  BY FilesAre
<1>3. \A f, g \in 1 .. F : f <= g => files.ends[f] <= files.ends[g]
  BY FilesAre
<1>4. (F = 0 => TotalPoints = 0) /\ (F # 0 => files.ends[F] = TotalPoints)
  BY FilesAre
<1>5. TotalPoints \in Nat
  BY PointsAre
<1>6. \A w : Edge(w) = LET f == Min({w * q, F}) IN IF f = 0 THEN 0 ELSE files.ends[f]
  BY DEF Edge
<1> HIDE DEF F, N
<1>7. q \in Nat /\ N * q >= F
  <2> DEFINE x == F + N - 1
             r == x % N
  <2>1. x \in Nat
    BY <1>1
  <2> HIDE DEF x
  <2>2. x \div N \in Int /\ r \in 0 .. N - 1 /\ x = N * (x \div N) + r
    BY <1>1, <2>1, DivMod
  <2>3. x = N * q + r /\ q \in Int
    BY <2>2 DEF x
  <2> HIDE DEF q, r
  <2>4. N * q >= F
    BY <1>1, <2>2, <2>3 DEF x
  <2>5. q >= 0
    <3>1. q < 0 => N * q <= N * (-1)
      BY <1>1, <2>3
    <3> QED
      BY <1>1, <2>3, <2>4, <3>1
  <2> QED
    BY <2>3, <2>4, <2>5
<1> HIDE DEF q
<1>8. ASSUME NEW w \in 0 .. N
      PROVE  /\ file(w) \in 0 .. F
             /\ Edge(w) = IF file(w) = 0 THEN 0 ELSE files.ends[file(w)]
  <2>1. w * q \in Nat
    BY <1>1, <1>7
  <2> DEFINE y == w * q
  <2> HIDE DEF y
  <2>2. Min({y, F}) = IF y <= F THEN y ELSE F
    BY <1>1, <2>1, MinOfTwo DEF y
  <2>3. Min({w * q, F}) = file(w)
    BY <2>2 DEF y
  <2>4. file(w) \in 0 .. F
    BY <1>1, <2>1
  <2> QED
    BY <1>6, <2>3, <2>4
<1>9. ASSUME NEW v \in 0 .. N, NEW w \in 0 .. N, v <= w PROVE file(v) <= file(w)
  <2>1. v * q <= w * q /\ v * q \in Nat /\ w * q \in Nat
    BY <1>1, <1>7, <1>9
  <2> QED
    BY <1>1, <2>1
<1>10. file(0) = 0 /\ file(N) = F
  <2>1. 0 * q = 0 /\ N * q \in Nat
    BY <1>1, <1>7
  <2> QED
    BY <1>1, <1>7, <2>1
<1> HIDE DEF file
<1>11. 0 \in 0 .. N /\ N \in 0 .. N
  BY <1>1
<1>12. Edge(0) = 0
  BY <1>8, <1>10, <1>11
<1>13. Edge(N) = TotalPoints
  <2>1. Edge(N) = IF F = 0 THEN 0 ELSE files.ends[F]
    BY <1>8, <1>10, <1>11
  <2> QED
    BY <1>4, <2>1
<1>14. ASSUME NEW w \in 0 .. N PROVE Edge(w) \in 0 .. TotalPoints
  <2>1. file(w) # 0 => file(w) \in 1 .. F
    BY <1>1, <1>8
  <2> QED
    BY <1>2, <1>5, <1>8, <2>1
<1>15. ASSUME NEW v \in 0 .. N, NEW w \in 0 .. N, v <= w PROVE Edge(v) <= Edge(w)
  <2>1. file(v) <= file(w) /\ file(v) \in 0 .. F /\ file(w) \in 0 .. F
    BY <1>8, <1>9, <1>15
  <2>2. CASE file(v) = 0
    <3>1. Edge(v) = 0
      BY <1>8, <2>2
    <3>2. Edge(w) \in Nat
      BY <1>5, <1>14
    <3> QED
      BY <3>1, <3>2
  <2>3. CASE file(v) # 0
    <3>1. file(v) \in 1 .. F /\ file(w) \in 1 .. F
      BY <1>1, <2>1, <2>3
    <3>2. Edge(v) = files.ends[file(v)] /\ Edge(w) = files.ends[file(w)]
      BY <1>8, <2>1, <3>1
    <3> QED
      BY <1>3, <2>1, <3>1, <3>2
  <2> QED
    BY <2>2, <2>3
<1> QED
  BY <1>12, <1>13, <1>14, <1>15 DEF N

\* Every point is some worker's, and only one's.
LEMMA PointHasWorker ==
    ASSUME GivenOK, NEW i \in 1 .. TotalPoints
    PROVE  \E w \in Workers : Edge(w) < i /\ i <= Edge(w + 1)
<1> DEFINE N == NumWorkers
           B == {w \in 0 .. N : i <= Edge(w)}
<1>1. N \in Nat \ {0} /\ Workers = 0 .. N - 1
  BY WorkersAre
<1>2. Edge(0) = 0 /\ Edge(N) = TotalPoints /\ \A w \in 0 .. N : Edge(w) \in 0 .. TotalPoints
  BY EdgesAre
<1>3. TotalPoints \in Nat
  BY PointsAre
<1> HIDE DEF N
<1>4. N \in 0 .. N /\ i <= Edge(N)
  BY <1>1, <1>2, <1>3
<1>5. N \in B /\ B \subseteq Nat
  BY <1>1, <1>4
<1> HIDE DEF B
<1>6. PICK w \in B : \A v \in B : w <= v
  BY <1>5, Least
<1>7. w \in 0 .. N /\ i <= Edge(w)
  BY <1>6 DEF B
<1>8. w # 0
  BY <1>2, <1>7
<1>9. w - 1 \in 0 .. N - 1 /\ w - 1 \in 0 .. N /\ (w - 1) + 1 = w /\ w - 1 \notin B
  BY <1>1, <1>6, <1>7, <1>8
<1>10. ~(i <= Edge(w - 1))
  BY <1>9 DEF B
<1>11. Edge(w - 1) < i
  BY <1>2, <1>3, <1>9, <1>10
<1> QED
  BY <1>1, <1>7, <1>9, <1>11

LEMMA PointHasOneWorker ==
    ASSUME GivenOK, NEW i \in 1 .. TotalPoints, NEW v \in Workers, NEW w \in Workers,
           Edge(v) < i, i <= Edge(v + 1), Edge(w) < i, i <= Edge(w + 1)
    PROVE  v = w
<1> DEFINE N == NumWorkers
<1>1. N \in Nat \ {0} /\ Workers = 0 .. N - 1
  BY WorkersAre
<1>2. \A x \in 0 .. N : Edge(x) \in 0 .. TotalPoints
  BY EdgesAre
<1>3. \A x, y \in 0 .. N : x <= y => Edge(x) <= Edge(y)
  BY EdgesAre
<1>4. TotalPoints \in Nat
  BY PointsAre
<1> HIDE DEF N
<1>5. v \in 0 .. N /\ v + 1 \in 0 .. N /\ w \in 0 .. N /\ w + 1 \in 0 .. N
  BY <1>1
<1>6. Edge(v) \in Nat /\ Edge(v + 1) \in Nat /\ Edge(w) \in Nat /\ Edge(w + 1) \in Nat
  BY <1>2, <1>4, <1>5
<1>7. ~(v + 1 <= w)
  <2>1. v + 1 <= w => Edge(v + 1) <= Edge(w)
    BY <1>3, <1>5
  <2> QED
    BY <1>6, <2>1
<1>8. ~(w + 1 <= v)
  <2>1. w + 1 <= v => Edge(w + 1) <= Edge(v)
    BY <1>3, <1>5
  <2> QED
    BY <1>6, <2>1
<1> QED
  BY <1>5, <1>7, <1>8

(***************************************************************************)
(* Bounds                                                                  *)
(***************************************************************************)
Bounds == [low : [Axes -> Int], high : [Axes -> Int]]

Coordinate(i, a) == Encoded(AllPoints[i])[a]

\* b are the bounds of the points with the numbers in P.
BoundsOf(b, P) ==
    /\ b \in Bounds
    /\ \A a \in Axes : b.low[a] <= Endless /\ -Endless <= b.high[a]
    /\ \A a \in Axes : \A i \in P : b.low[a] <= Coordinate(i, a) /\ Coordinate(i, a) <= b.high[a]
    /\ \A a \in Axes : b.low[a] = Endless \/ \E i \in P : b.low[a] = Coordinate(i, a)
    /\ \A a \in Axes : b.high[a] = -Endless \/ \E i \in P : b.high[a] = Coordinate(i, a)

LEMMA EndlessIs == Endless \in Nat
BY PlannerAssumption

LEMMA CoordinateIs ==
    ASSUME GivenOK, NEW i \in 1 .. TotalPoints
    PROVE  /\ Encoded(AllPoints[i]) \in [Axes -> Int]
           /\ \A a \in Axes : Coordinate(i, a) \in -Endless .. Endless
<1>1. AllPoints[i] \in [Axes -> Int] /\ \A a \in Axes : AllPoints[i][a] \in -Endless .. Endless
  BY PointsAre
<1>2. Encoded(AllPoints[i]) \in [Axes -> Int]
  BY <1>1, EncodedIs DEF Cells
<1>3. ASSUME NEW a \in Axes PROVE Coordinate(i, a) \in -Endless .. Endless
  <2> DEFINE x == AllPoints[i][a]
             y == IF x < 0 THEN -((1 - x) \div 2) ELSE (x + 1) \div 2
  <2>1. x \in -Endless .. Endless
    BY <1>1
  <2>2. Coordinate(i, a) = y
    BY DEF Coordinate, Encoded
  <2> HIDE DEF x
  <2>3. y \in -Endless .. Endless
    BY <2>1, EndlessIs
  <2> QED
    BY <2>2, <2>3
<1> QED
  BY <1>2, <1>3

LEMMA EmptyBoundsOf == BoundsOf(EmptyBounds, {})
<1>1. EmptyBounds \in Bounds
  BY EndlessIs DEF EmptyBounds, Bounds
<1>2. \A a \in Axes : EmptyBounds.low[a] = Endless /\ EmptyBounds.high[a] = -Endless
  BY DEF EmptyBounds
<1> QED
  BY <1>1, <1>2, EndlessIs DEF BoundsOf

LEMMA PointBoundsOf ==
    ASSUME GivenOK, NEW i \in 1 .. TotalPoints
    PROVE  BoundsOf([low |-> Encoded(AllPoints[i]), high |-> Encoded(AllPoints[i])], {i})
<1> DEFINE e == Encoded(AllPoints[i])
           b == [low |-> e, high |-> e]
<1>1. e \in [Axes -> Int] /\ \A a \in Axes : Coordinate(i, a) \in -Endless .. Endless
  BY CoordinateIs
<1>2. \A a \in Axes : e[a] = Coordinate(i, a)
  BY DEF Coordinate
<1> HIDE DEF e
<1>3. b \in Bounds
  BY <1>1 DEF Bounds
<1>4. \A a \in Axes : b.low[a] = Coordinate(i, a) /\ b.high[a] = Coordinate(i, a)
  BY <1>2
<1>5. \A a \in Axes : Coordinate(i, a) \in Int /\ Coordinate(i, a) <= Endless /\ -Endless <= Coordinate(i, a)
  BY <1>1, EndlessIs
<1> HIDE DEF b
<1>6. BoundsOf(b, {i})
  BY <1>3, <1>4, <1>5 DEF BoundsOf
<1> QED
  BY <1>6 DEF b, e

LEMMA MergedBoundsOf ==
    ASSUME NEW b, NEW c, NEW P, NEW Q, BoundsOf(b, P), BoundsOf(c, Q),
           \A i \in P \cup Q : \A a \in Axes : Coordinate(i, a) \in Int
    PROVE  BoundsOf(MergedBounds(b, c), P \cup Q)
<1> DEFINE m == MergedBounds(b, c)
<1>1. b \in Bounds /\ c \in Bounds
  BY DEF BoundsOf
<1>2. ASSUME NEW a \in Axes
      PROVE  /\ m.low[a] = IF b.low[a] <= c.low[a] THEN b.low[a] ELSE c.low[a]
             /\ m.high[a] = IF b.high[a] >= c.high[a] THEN b.high[a] ELSE c.high[a]
             /\ b.low[a] \in Int /\ c.low[a] \in Int /\ b.high[a] \in Int /\ c.high[a] \in Int
  <2>1. b.low[a] \in Int /\ c.low[a] \in Int /\ b.high[a] \in Int /\ c.high[a] \in Int
    BY <1>1 DEF Bounds
  <2>2. m.low[a] = Min({b.low[a], c.low[a]}) /\ m.high[a] = Max({b.high[a], c.high[a]})
    BY DEF MergedBounds
  <2> DEFINE x == b.low[a]
             y == c.low[a]
             z == b.high[a]
             w == c.high[a]
  <2>3. x \in Int /\ y \in Int /\ z \in Int /\ w \in Int
    BY <2>1
  <2> HIDE DEF x, y, z, w
  <2>4. Min({x, y}) = IF x <= y THEN x ELSE y
    BY <2>3, MinOfTwo
  <2>5. Max({z, w}) = IF z >= w THEN z ELSE w
    BY <2>3, MaxOfTwo
  <2> QED
    BY <2>1, <2>2, <2>4, <2>5 DEF x, y, z, w
<1>3. m \in Bounds
  <2>1. m = [low |-> [a \in Axes |-> Min({b.low[a], c.low[a]})],
             high |-> [a \in Axes |-> Max({b.high[a], c.high[a]})]]
    BY DEF MergedBounds
  <2>2. \A a \in Axes : Min({b.low[a], c.low[a]}) = m.low[a] /\ Max({b.high[a], c.high[a]}) = m.high[a]
    BY <2>1
  <2>3. \A a \in Axes : m.low[a] \in Int /\ m.high[a] \in Int
    BY <1>2
  <2>4. m.low = [a \in Axes |-> Min({b.low[a], c.low[a]})] /\ m.high = [a \in Axes |-> Max({b.high[a], c.high[a]})]
    BY <2>1
  <2> HIDE DEF m
  <2>5. m.low \in [Axes -> Int] /\ m.high \in [Axes -> Int]
    BY <2>2, <2>3, <2>4
  <2>6. m = [low |-> m.low, high |-> m.high]
    BY <2>1
  <2> QED
    BY <2>5, <2>6 DEF Bounds
<1> HIDE DEF m
<1>4. ASSUME NEW a \in Axes
      PROVE  /\ m.low[a] <= Endless /\ -Endless <= m.high[a]
             /\ \A i \in P \cup Q : m.low[a] <= Coordinate(i, a) /\ Coordinate(i, a) <= m.high[a]
             /\ m.low[a] = Endless \/ \E i \in P \cup Q : m.low[a] = Coordinate(i, a)
             /\ m.high[a] = -Endless \/ \E i \in P \cup Q : m.high[a] = Coordinate(i, a)
  <2>1. /\ b.low[a] <= Endless /\ -Endless <= b.high[a]
        /\ \A i \in P : b.low[a] <= Coordinate(i, a) /\ Coordinate(i, a) <= b.high[a]
        /\ b.low[a] = Endless \/ \E i \in P : b.low[a] = Coordinate(i, a)
        /\ b.high[a] = -Endless \/ \E i \in P : b.high[a] = Coordinate(i, a)
    BY DEF BoundsOf
  <2>2. /\ c.low[a] <= Endless /\ -Endless <= c.high[a]
        /\ \A i \in Q : c.low[a] <= Coordinate(i, a) /\ Coordinate(i, a) <= c.high[a]
        /\ c.low[a] = Endless \/ \E i \in Q : c.low[a] = Coordinate(i, a)
        /\ c.high[a] = -Endless \/ \E i \in Q : c.high[a] = Coordinate(i, a)
    BY DEF BoundsOf
  <2>3. m.low[a] <= Endless /\ -Endless <= m.high[a]
    BY <1>2, <2>1, <2>2, EndlessIs
  <2>4. ASSUME NEW i \in P \cup Q
        PROVE  m.low[a] <= Coordinate(i, a) /\ Coordinate(i, a) <= m.high[a]
    <3>1. Coordinate(i, a) \in Int
      OBVIOUS
    <3>2. CASE i \in P
      BY <1>2, <2>1, <3>1, <3>2
    <3>3. CASE i \in Q
      BY <1>2, <2>2, <3>1, <3>3
    <3> QED
      BY <3>2, <3>3
  <2>5. m.low[a] = Endless \/ \E i \in P \cup Q : m.low[a] = Coordinate(i, a)
    <3>1. m.low[a] = b.low[a] \/ m.low[a] = c.low[a]
      BY <1>2
    <3> QED
      BY <2>1, <2>2, <3>1
  <2>6. m.high[a] = -Endless \/ \E i \in P \cup Q : m.high[a] = Coordinate(i, a)
    <3>1. m.high[a] = b.high[a] \/ m.high[a] = c.high[a]
      BY <1>2
    <3> QED
      BY <2>1, <2>2, <3>1
  <2> QED
    BY <2>3, <2>4, <2>5, <2>6
<1>5. BoundsOf(m, P \cup Q)
  BY <1>3, <1>4 DEF BoundsOf
<1> QED
  BY <1>5 DEF m

\* u has the bounds of the first n workers, merged in their order.
Folds(n, u) ==
    /\ u \in [0 .. n -> Bounds] /\ u[0] = EmptyBounds
    /\ \A i \in 1 .. n : u[i] = MergedBounds(u[i - 1], local[i - 1])

LEMMA MergedBoundsAre ==
    ASSUME NEW b \in Bounds, NEW c \in Bounds
    PROVE  MergedBounds(b, c) \in Bounds
<1>1. ASSUME NEW a \in Axes
      PROVE  Min({b.low[a], c.low[a]}) \in Int /\ Max({b.high[a], c.high[a]}) \in Int
  <2> DEFINE x == b.low[a]
             y == c.low[a]
             z == b.high[a]
             w == c.high[a]
  <2>1. x \in Int /\ y \in Int /\ z \in Int /\ w \in Int
    BY DEF Bounds
  <2> HIDE DEF x, y, z, w
  <2>2. Min({x, y}) \in Int
    BY <2>1, MinOfTwo
  <2>3. Max({z, w}) \in Int
    BY <2>1, MaxOfTwo
  <2> QED
    BY <2>2, <2>3 DEF x, y, z, w
<1> QED
  BY <1>1 DEF MergedBounds, Bounds

LEMMA FoldsExist ==
    ASSUME NEW n \in Nat, \A i \in 1 .. n : local[i - 1] \in Bounds
    PROVE  \E u : Folds(n, u)
<1> DEFINE H == {i \in Nat : \E u : Folds(i, u)}
<1>1. 0 \in H
  <2>1. EmptyBounds \in Bounds
    BY EndlessIs DEF EmptyBounds, Bounds
  <2>2. Folds(0, [i \in 0 .. 0 |-> EmptyBounds])
    BY <2>1 DEF Folds
  <2> QED
    BY <2>2
<1>2. ASSUME NEW i \in 1 .. n, i - 1 \in H PROVE i \in H
  <2>1. PICK u : Folds(i - 1, u)
    BY <1>2
  <2>2. u \in [0 .. i - 1 -> Bounds] /\ u[0] = EmptyBounds
    BY <2>1 DEF Folds
  <2>3. \A k \in 1 .. i - 1 : u[k] = MergedBounds(u[k - 1], local[k - 1])
    BY <2>1 DEF Folds
  <2> DEFINE new == MergedBounds(u[i - 1], local[i - 1])
             v == [k \in 0 .. i |-> IF k = i THEN new ELSE u[k]]
  <2>4. new \in Bounds
    BY <2>2, MergedBoundsAre
  <2> HIDE DEF new
  <2>5. v \in [0 .. i -> Bounds] /\ v[0] = EmptyBounds
    BY <2>2, <2>4
  <2>6. ASSUME NEW k \in 1 .. i PROVE v[k] = MergedBounds(v[k - 1], local[k - 1])
    <3>1. k \in 0 .. i /\ k - 1 \in 0 .. i /\ k - 1 # i
      OBVIOUS
    <3>2. v[k - 1] = u[k - 1] /\ v[k] = IF k = i THEN new ELSE u[k]
      BY <3>1
    <3>3. k # i => k \in 1 .. i - 1
      OBVIOUS
    <3> HIDE DEF v
    <3> QED
      BY <2>3, <3>2, <3>3 DEF new
  <2> HIDE DEF v
  <2>7. Folds(i, v)
    BY <2>5, <2>6 DEF Folds
  <2> QED
    BY <2>7
<1> HIDE DEF H
<1>3. \A i \in 0 .. n : i \in H
  BY <1>1, <1>2, Climb, Zenon
<1>4. n \in H
  BY <1>3
<1> QED
  BY <1>4 DEF H

LEMMA FoldedBoundsAre ==
    ASSUME GivenOK, local \in [Workers -> Bounds]
    PROVE  \E U : /\ U[0] = EmptyBounds /\ FoldedBounds = U[NumWorkers]
                  /\ \A i \in 1 .. NumWorkers : U[i] = MergedBounds(U[i - 1], local[i - 1])
<1> DEFINE n == NumWorkers
           F(u) == [i \in 0 .. n |-> IF i = 0 THEN EmptyBounds ELSE MergedBounds(u[i - 1], local[i - 1])]
           U == CHOOSE u : u = F(u)
<1>0. n \in Nat \ {0} /\ Workers = 0 .. n - 1
  BY WorkersAre
<1>4. FoldedBounds = U[n]
  BY DEF FoldedBounds
<1> HIDE DEF n
<1>1. PICK u : Folds(n, u)
  <2>1. \A i \in 1 .. n : local[i - 1] \in Bounds
    BY <1>0
  <2> QED
    BY <1>0, <2>1, FoldsExist
<1>2. u = F(u)
  <2>1. u = [i \in 0 .. n |-> u[i]] /\ u[0] = EmptyBounds
    BY <1>1 DEF Folds
  <2>2. \A i \in 1 .. n : u[i] = MergedBounds(u[i - 1], local[i - 1])
    BY <1>1 DEF Folds
  <2>3. \A i \in 0 .. n : i # 0 => i \in 1 .. n
    BY <1>0
  <2>4. \A i \in 0 .. n : u[i] = IF i = 0 THEN EmptyBounds ELSE MergedBounds(u[i - 1], local[i - 1])
    BY <2>1, <2>2, <2>3, Zenon
  <2> QED
    BY <2>1, <2>4, Zenon
<1>3. U = F(U)
  BY <1>2
<1>5. U[0] = EmptyBounds /\ \A i \in 1 .. n : U[i] = MergedBounds(U[i - 1], local[i - 1])
  <2>1. 0 \in 0 .. n /\ \A i \in 1 .. n : i \in 0 .. n /\ i # 0
    BY <1>0
  <2> HIDE DEF U
  <2>2. \A i \in 0 .. n : U[i] = IF i = 0 THEN EmptyBounds ELSE MergedBounds(U[i - 1], local[i - 1])
    BY <1>3, Zenon
  <2> QED
    BY <2>1, <2>2, Zenon
<1> HIDE DEF U
<1> QED
  BY <1>4, <1>5 DEF n

\* The points a worker has counted.
SeenBy(w) == Edge(w) + 1 .. Edge(w) + counted[w]

LEMMA FoldedBoundsOf ==
    ASSUME GivenOK, local \in [Workers -> Bounds], counted \in [Workers -> Nat],
           \A w \in Workers : Edge(w) + counted[w] = Edge(w + 1),
           \A w \in Workers : BoundsOf(local[w], SeenBy(w))
    PROVE  BoundsOf(FoldedBounds, 1 .. TotalPoints)
<1> DEFINE n == NumWorkers
<1>0. n \in Nat \ {0} /\ Workers = 0 .. n - 1
  BY WorkersAre
<1>1. PICK U : /\ U[0] = EmptyBounds /\ FoldedBounds = U[n]
               /\ \A i \in 1 .. n : U[i] = MergedBounds(U[i - 1], local[i - 1])
  BY FoldedBoundsAre
<1>2. /\ Edge(0) = 0 /\ Edge(n) = TotalPoints
      /\ \A w \in 0 .. n : Edge(w) \in 0 .. TotalPoints
      /\ \A v, w \in 0 .. n : v <= w => Edge(v) <= Edge(w)
  BY EdgesAre
<1>3. TotalPoints \in Nat
  BY PointsAre
<1> HIDE DEF n
<1> DEFINE H == {i \in Nat : BoundsOf(U[i], 1 .. Edge(i))}
<1>4. 0 \in H
  <2>1. 1 .. 0 = {}
    OBVIOUS
  <2> QED
    BY <1>1, <1>2, <2>1, EmptyBoundsOf
<1>5. ASSUME NEW i \in 1 .. n, i - 1 \in H PROVE i \in H
  <2>1. i - 1 \in Workers /\ i - 1 \in 0 .. n /\ i \in 0 .. n /\ (i - 1) + 1 = i /\ i \in Nat
    BY <1>0
  <2>2. BoundsOf(U[i - 1], 1 .. Edge(i - 1))
    BY <1>5
  <2>3. BoundsOf(local[i - 1], SeenBy(i - 1))
    BY <2>1
  <2>4. Edge(i - 1) + counted[i - 1] = Edge(i)
    BY <2>1
  <2>5. SeenBy(i - 1) = Edge(i - 1) + 1 .. Edge(i)
    BY <2>4 DEF SeenBy
  <2>6. Edge(i - 1) \in Nat /\ Edge(i) \in Nat /\ Edge(i) <= TotalPoints /\ Edge(i - 1) <= Edge(i)
    BY <1>2, <1>3, <2>1
  <2> DEFINE P == 1 .. Edge(i - 1)
             Q == Edge(i - 1) + 1 .. Edge(i)
  <2>7. P \cup Q = 1 .. Edge(i) /\ P \cup Q \subseteq 1 .. TotalPoints
    BY <1>3, <2>6
  <2>8. \A j \in P \cup Q : \A a \in Axes : Coordinate(j, a) \in Int
    BY <2>7, CoordinateIs
  <2>9. BoundsOf(U[i - 1], P) /\ BoundsOf(local[i - 1], Q)
    BY <2>2, <2>3, <2>5
  <2> HIDE DEF P, Q
  <2>10. BoundsOf(MergedBounds(U[i - 1], local[i - 1]), P \cup Q)
    BY <2>8, <2>9, MergedBoundsOf
  <2>11. U[i] = MergedBounds(U[i - 1], local[i - 1])
    BY <1>1
  <2> QED
    BY <2>1, <2>7, <2>10, <2>11
<1> HIDE DEF H
<1>6. \A i \in 0 .. n : i \in H
  BY <1>0, <1>4, <1>5, Climb
<1>7. n \in H
  BY <1>0, <1>6
<1> QED
  BY <1>1, <1>2, <1>7 DEF H

LEMMA BoundsGiveMismatch ==
    ASSUME GivenOK, BoundsOf(actual, 1 .. TotalPoints), AllPoints # <<>>, NEW a \in Axes
    PROVE  LET ends == {Encoded(AllPoints[i])[a] : i \in DOMAIN AllPoints}
           IN  /\ <<"low", a>>  \in HeaderMismatch <=> Min(ends) \notin header.low[a] - 1 .. header.low[a] + 1
               /\ <<"high", a>> \in HeaderMismatch <=> Max(ends) \notin header.high[a] - 1 .. header.high[a] + 1
<1> DEFINE ends == {Encoded(AllPoints[i])[a] : i \in DOMAIN AllPoints}
           low == actual.low[a]
           high == actual.high[a]
<1>1. TotalPoints \in Nat /\ DOMAIN AllPoints = 1 .. TotalPoints
  BY PointsAre
<1>2. ends = {Coordinate(i, a) : i \in 1 .. TotalPoints}
  BY <1>1 DEF Coordinate
<1>3. \A i \in 1 .. TotalPoints : Coordinate(i, a) \in -Endless .. Endless
  BY CoordinateIs
<1>4. 1 \in 1 .. TotalPoints
  <2>1. files.points \in Seq([1 .. Dims -> Int])
    BY PlannerAssumption DEF GivenOK
  <2>2. Len(files.points) = 0 => files.points = <<>>
    BY <2>1, EmptySeq
  <2> QED
    BY <1>1, <2>2 DEF AllPoints, TotalPoints
<1>5. low \in Int /\ high \in Int
  BY DEF BoundsOf, Bounds
<1>6. /\ low <= Endless /\ -Endless <= high
      /\ \A i \in 1 .. TotalPoints : low <= Coordinate(i, a) /\ Coordinate(i, a) <= high
      /\ low = Endless \/ \E i \in 1 .. TotalPoints : low = Coordinate(i, a)
      /\ high = -Endless \/ \E i \in 1 .. TotalPoints : high = Coordinate(i, a)
  BY DEF BoundsOf
<1> HIDE DEF ends, low, high
<1>7. ends \subseteq Int /\ ends # {} /\ (\A x \in ends : -Endless <= x) /\ \A x \in ends : x <= Endless
  <2>1. Coordinate(1, a) \in ends
    BY <1>2, <1>4
  <2>2. \A x \in ends : \E i \in 1 .. TotalPoints : x = Coordinate(i, a)
    BY <1>2
  <2> QED
    BY <1>3, <2>1, <2>2, EndlessIs
<1>8. -Endless \in Int /\ Endless \in Int
  BY EndlessIs
<1>9. Min(ends) \in ends /\ \A x \in ends : Min(ends) <= x
  BY <1>7, <1>8, MinIs
<1>10. Max(ends) \in ends /\ \A x \in ends : Max(ends) >= x
  BY <1>7, <1>8, MaxIs
<1>11. low \in ends
  <2>1. CASE low = Endless
    <3>1. Coordinate(1, a) = Endless
      BY <1>3, <1>4, <1>6, <2>1, EndlessIs
    <3> QED
      BY <1>2, <1>4, <2>1, <3>1
  <2>2. CASE \E i \in 1 .. TotalPoints : low = Coordinate(i, a)
    BY <1>2, <2>2
  <2> QED
    BY <1>6, <2>1, <2>2
<1>12. high \in ends
  <2>1. CASE high = -Endless
    <3>1. Coordinate(1, a) = -Endless
      BY <1>3, <1>4, <1>6, <2>1, EndlessIs
    <3> QED
      BY <1>2, <1>4, <2>1, <3>1
  <2>2. CASE \E i \in 1 .. TotalPoints : high = Coordinate(i, a)
    BY <1>2, <2>2
  <2> QED
    BY <1>6, <2>1, <2>2
<1>13. \A x \in ends : low <= x /\ x <= high
  BY <1>2, <1>6
<1>14. Min(ends) = low
  <2>1. Min(ends) \in Int /\ Min(ends) <= low /\ low <= Min(ends)
    BY <1>7, <1>9, <1>11, <1>13
  <2> QED
    BY <1>5, <2>1
<1>15. Max(ends) = high
  <2>1. Max(ends) \in Int /\ Max(ends) >= high /\ Max(ends) <= high
    BY <1>7, <1>10, <1>12, <1>13
  <2> QED
    BY <1>5, <2>1
<1>16. header.low[a] \in Int /\ header.high[a] \in Int
  BY PlannerAssumption DEF GivenOK, Axes
<1>17. ASSUME NEW x \in Int, NEW h \in Int
       PROVE  2 * Max({h - x, x - h}) > 3 <=> x \notin h - 1 .. h + 1
  <2>1. Max({h - x, x - h}) = IF h - x >= x - h THEN h - x ELSE x - h
    <3>1. h - x \in Int /\ x - h \in Int
      OBVIOUS
    <3> QED
      BY <3>1, MaxOfTwo
  <2> QED
    BY <2>1
<1>18. <<"low", a>> \in HeaderMismatch <=> 2 * Max({header.low[a] - low, low - header.low[a]}) > 3
  BY DEF HeaderMismatch, low
<1>19. <<"high", a>> \in HeaderMismatch <=> 2 * Max({header.high[a] - high, high - header.high[a]}) > 3
  BY DEF HeaderMismatch, high
<1>20. <<"low", a>> \in HeaderMismatch <=> Min(ends) \notin header.low[a] - 1 .. header.low[a] + 1
  BY <1>5, <1>14, <1>16, <1>17, <1>18
<1>21. <<"high", a>> \in HeaderMismatch <=> Max(ends) \notin header.high[a] - 1 .. header.high[a] + 1
  BY <1>5, <1>15, <1>16, <1>17, <1>19
<1> QED
  BY <1>20, <1>21 DEF ends

(***************************************************************************)
(* Counting                                                                *)
(***************************************************************************)
\* What is given stays, and all that depends on nothing else.
LEMMA GivenStays ==
    ASSUME UNCHANGED given
    PROVE  /\ GivenOK' = GivenOK /\ AllPoints' = AllPoints /\ TotalPoints' = TotalPoints
           /\ NumWorkers' = NumWorkers /\ Workers' = Workers /\ GridDepth' = GridDepth
           /\ ChunkTarget' = ChunkTarget /\ Wrapped' = Wrapped
           /\ \A w : Edge(w)' = Edge(w)
           /\ \A i, l : Key(i, l)' = Key(i, l)
           /\ \A c, l : Population(c, l)' = Population(c, l)
<1>1. files' = files /\ header' = header /\ budget' = budget /\ override' = override
  BY DEF given
<1>2. GivenOK' = GivenOK
  BY <1>1 DEF GivenOK
<1>3. AllPoints' = AllPoints
  BY <1>1 DEF AllPoints
<1>4. TotalPoints' = TotalPoints
  BY <1>3 DEF TotalPoints
<1>5. Workers' = Workers
  BY <1>1 DEF Workers
<1>6. NumWorkers' = NumWorkers
  BY <1>5 DEF NumWorkers
<1>7. GridDepth' = GridDepth
  BY <1>1, <1>4 DEF GridDepth
<1>8. ChunkTarget' = ChunkTarget
  <2>1. MaxChunkPoints' = MaxChunkPoints
    BY <1>1 DEF MaxChunkPoints
  <2>2. TargetForParallelism' = TargetForParallelism
    BY <1>4, <1>6 DEF TargetForParallelism
  <2> QED
    BY <1>1, <1>6, <2>1, <2>2 DEF ChunkTarget
<1>9. \A w : Edge(w)' = Edge(w)
  BY <1>1, <1>6 DEF Edge
<1>10. \A i, l : Key(i, l)' = Key(i, l)
  BY <1>3 DEF Key
<1>11. \A c, l : Population(c, l)' = Population(c, l)
  BY <1>3 DEF Population
<1>12. Wrapped' = Wrapped
  BY <1>7, <1>11 DEF Wrapped
<1> QED
  BY <1>2, <1>3, <1>4, <1>5, <1>6, <1>7, <1>8, <1>9, <1>10, <1>11, <1>12

PointsIn(c, l) == {i \in 1 .. TotalPoints : Key(i, l) = c}

LEMMA PopulationIs ==
    ASSUME GivenOK
    PROVE  \A c, l : /\ IsFiniteSet(PointsIn(c, l)) /\ Population(c, l) = Cardinality(PointsIn(c, l))
                     /\ Population(c, l) \in Nat
<1>1. TotalPoints \in Nat /\ DOMAIN AllPoints = 1 .. TotalPoints
  BY PointsAre
<1>2. ASSUME NEW c, NEW l PROVE Population(c, l) = Cardinality(PointsIn(c, l))
  BY <1>1 DEF Population, PointsIn, Key
<1>3. IsFiniteSet(1 .. TotalPoints)
  <2>1. 1 \in Int /\ TotalPoints \in Int
    BY <1>1
  <2> QED
    BY <2>1, FS_Interval
<1>4. ASSUME NEW c, NEW l PROVE IsFiniteSet(PointsIn(c, l)) /\ Cardinality(PointsIn(c, l)) \in Nat
  <2>1. PointsIn(c, l) \subseteq 1 .. TotalPoints
    BY DEF PointsIn
  <2> QED
    BY <1>3, <2>1, FS_Subset, FS_CardinalityType
<1> QED
  BY <1>2, <1>4

\* The points of a cell that have been counted.
Seen(c) == {i \in PointsIn(c, GridDepth) : \E w \in Workers : i \in SeenBy(w)}

CountInv ==
    /\ counted \in [Workers -> Nat]
    /\ \A w \in Workers : Edge(w) + counted[w] <= Edge(w + 1)
    /\ grid \in [Grid(GridDepth) -> 0 .. CounterValues - 1]
    /\ \A c \in Grid(GridDepth) : grid[c] = Cardinality(Seen(c)) % CounterValues
    /\ local \in [Workers -> Bounds]
    /\ \A w \in Workers : BoundsOf(local[w], SeenBy(w))

LEMMA ModSuccessor ==
    ASSUME NEW x \in Nat, NEW n \in Nat \ {0}
    PROVE  ((x % n) + 1) % n = (x + 1) % n
<1> DEFINE q == x \div n
           r == x % n
<1>1. q \in Int /\ r \in 0 .. n - 1 /\ x = n * q + r
  BY DivMod
<1> HIDE DEF q, r
<1>2. CASE r + 1 < n
  <2>1. r + 1 \in 0 .. n - 1 /\ x + 1 = n * q + (r + 1) /\ x + 1 \in Int /\ r + 1 = n * 0 + (r + 1)
        /\ r + 1 \in Int /\ 0 \in Int
    BY <1>1, <1>2
  <2>2. (x + 1) % n = r + 1
    BY <1>1, <2>1, DivIs
  <2>3. (r + 1) % n = r + 1
    BY <2>1, DivIs
  <2> QED
    BY <2>2, <2>3 DEF r
<1>3. CASE r + 1 = n
  <2>1. 0 \in 0 .. n - 1 /\ x + 1 = n * (q + 1) + 0 /\ x + 1 \in Int /\ q + 1 \in Int /\ n = n * 1 + 0
        /\ n \in Int /\ 1 \in Int
    BY <1>1, <1>3
  <2>2. (x + 1) % n = 0
    BY <2>1, DivIs
  <2>3. n % n = 0
    BY <2>1, DivIs
  <2> QED
    BY <1>3, <2>2, <2>3 DEF r
<1> QED
  BY <1>1, <1>2, <1>3

LEMMA CountersAre == CounterValues \in Nat \ {0} /\ 0 \in 0 .. CounterValues - 1
BY PlannerAssumption

LEMMA CountInit ==
    ASSUME Init
    PROVE  GivenOK /\ CountInv
<1>1. GivenOK
  BY DEF Init, GivenOK
<1>2. /\ counted = [w \in Workers |-> 0] /\ local = [w \in Workers |-> EmptyBounds]
      /\ grid = [cell \in Grid(GridDepth) |-> 0]
  BY DEF Init
<1>3. NumWorkers \in Nat \ {0} /\ Workers = 0 .. NumWorkers - 1
  BY <1>1, WorkersAre
<1>4. /\ \A w \in 0 .. NumWorkers : Edge(w) \in 0 .. TotalPoints
      /\ \A v, w \in 0 .. NumWorkers : v <= w => Edge(v) <= Edge(w)
  BY <1>1, EdgesAre
<1>5. TotalPoints \in Nat
  BY <1>1, PointsAre
<1>6. ASSUME NEW w \in Workers PROVE Edge(w) + counted[w] <= Edge(w + 1) /\ SeenBy(w) = {}
  <2>1. w \in 0 .. NumWorkers /\ w + 1 \in 0 .. NumWorkers /\ w <= w + 1 /\ counted[w] = 0
    BY <1>2, <1>3
  <2>2. Edge(w) \in Nat /\ Edge(w) <= Edge(w + 1)
    BY <1>4, <1>5, <2>1
  <2> QED
    BY <2>1, <2>2 DEF SeenBy
<1>7. counted \in [Workers -> Nat]
  BY <1>2
<1>8. grid \in [Grid(GridDepth) -> 0 .. CounterValues - 1]
  BY <1>2, CountersAre
<1>9. ASSUME NEW c \in Grid(GridDepth) PROVE grid[c] = Cardinality(Seen(c)) % CounterValues
  <2>1. Seen(c) = {}
    BY <1>6 DEF Seen
  <2>2. Cardinality(Seen(c)) = 0
    BY <2>1, FS_EmptySet
  <2>3. 0 % CounterValues = 0
    BY CountersAre
  <2> QED
    BY <1>2, <2>2, <2>3
<1>10. EmptyBounds \in Bounds
  BY EmptyBoundsOf DEF BoundsOf
<1>11. local \in [Workers -> Bounds]
  BY <1>2, <1>10
<1>12. \A w \in Workers : BoundsOf(local[w], SeenBy(w))
  BY <1>2, <1>6, EmptyBoundsOf
<1> QED
  BY <1>1, <1>6, <1>7, <1>8, <1>9, <1>11, <1>12 DEF CountInv

LEMMA CountPointKeeps ==
    ASSUME GivenOK, CountInv, NEW w \in Workers, CountPoint(w)
    PROVE  CountInv'
<1> DEFINE i == Edge(w) + counted[w] + 1
           cell == Key(i, GridDepth)
           b == [low |-> Encoded(AllPoints[i]), high |-> Encoded(AllPoints[i])]
<1>1. UNCHANGED given /\ Edge(w) + counted[w] < Edge(w + 1)
  BY DEF CountPoint
<1>2. /\ AllPoints' = AllPoints /\ TotalPoints' = TotalPoints /\ Workers' = Workers
      /\ GridDepth' = GridDepth /\ \A v : Edge(v)' = Edge(v)
      /\ \A j, l : Key(j, l)' = Key(j, l)
  BY <1>1, GivenStays
<1>3. counted' = [counted EXCEPT ![w] = @ + 1]
  BY DEF CountPoint
<1>4. grid' = [grid EXCEPT ![cell] = (@ + 1) % CounterValues]
  BY DEF CountPoint, CountedCell, Key
<1>5. local' = [local EXCEPT ![w] = MergedBounds(@, b)]
  BY DEF CountPoint
<1>6. NumWorkers \in Nat \ {0} /\ Workers = 0 .. NumWorkers - 1
  BY WorkersAre
<1>7. \A v \in 0 .. NumWorkers : Edge(v) \in 0 .. TotalPoints
  BY EdgesAre
<1>8. TotalPoints \in Nat
  BY PointsAre
<1>9. \A v \in Workers : Edge(v) \in Nat /\ Edge(v + 1) \in Nat /\ Edge(v + 1) <= TotalPoints
  <2>1. \A v \in Workers : v \in 0 .. NumWorkers /\ v + 1 \in 0 .. NumWorkers
    BY <1>6
  <2> QED
    BY <1>7, <1>8, <2>1
<1>10. counted \in [Workers -> Nat] /\ \A v \in Workers : Edge(v) + counted[v] <= Edge(v + 1)
  BY DEF CountInv
<1>11. i \in 1 .. TotalPoints /\ Edge(w) < i /\ i <= Edge(w + 1) /\ i \in Nat
  BY <1>1, <1>8, <1>9, <1>10
<1>12. \A v \in Workers : SeenBy(v)' = IF v = w THEN SeenBy(w) \cup {i} ELSE SeenBy(v)
  <2>1. ASSUME NEW v \in Workers PROVE SeenBy(v)' = Edge(v) + 1 .. Edge(v) + counted'[v]
    BY <1>2 DEF SeenBy
  <2>2. ASSUME NEW v \in Workers, v # w PROVE SeenBy(v)' = SeenBy(v)
    BY <1>3, <1>10, <2>1, <2>2 DEF SeenBy
  <2>3. SeenBy(w)' = SeenBy(w) \cup {i}
    <3>1. counted'[w] = counted[w] + 1
      BY <1>3, <1>10
    <3>2. Edge(w) + 1 .. Edge(w) + (counted[w] + 1) = (Edge(w) + 1 .. Edge(w) + counted[w]) \cup {i}
      BY <1>9, <1>10
    <3> QED
      BY <2>1, <3>1, <3>2 DEF SeenBy
  <2> QED
    BY <2>2, <2>3
<1>13. \A v \in Workers : \A j \in SeenBy(v) : j \in 1 .. TotalPoints /\ Edge(v) < j /\ j <= Edge(v + 1)
  BY <1>8, <1>9, <1>10 DEF SeenBy
<1>14. \A v \in Workers : i \notin SeenBy(v)
  <2>1. SUFFICES ASSUME NEW v \in Workers, i \in SeenBy(v) PROVE FALSE
    OBVIOUS
  <2>2. Edge(v) < i /\ i <= Edge(v + 1)
    BY <1>13, <2>1
  <2>3. v = w
    BY <1>11, <2>2, PointHasOneWorker
  <2>4. i \notin SeenBy(w)
    BY <1>9, <1>10 DEF SeenBy
  <2> QED
    BY <2>1, <2>3, <2>4
<1> HIDE DEF i
<1>15. cell \in Grid(GridDepth)
  <2>1. GridDepth \in Nat /\ GridDepth <= Span
    BY GridDepthIs
  <2> QED
    BY <1>11, <2>1, KeyInGrid
<1>16. \A c : Seen(c)' = IF c = cell THEN Seen(c) \cup {i} ELSE Seen(c)
  <2>1. ASSUME NEW c PROVE PointsIn(c, GridDepth)' = PointsIn(c, GridDepth)
    BY <1>2 DEF PointsIn
  <2>2. ASSUME NEW c PROVE Seen(c)' = {j \in PointsIn(c, GridDepth) : \E v \in Workers : j \in SeenBy(v)'}
    BY <1>2, <2>1 DEF Seen
  <2>3. ASSUME NEW j PROVE (\E v \in Workers : j \in SeenBy(v)') <=> j = i \/ \E v \in Workers : j \in SeenBy(v)
    BY <1>12
  <2>4. ASSUME NEW c PROVE i \in PointsIn(c, GridDepth) <=> c = cell
    BY <1>11 DEF PointsIn
  <2> HIDE DEF cell
  <2>5. ASSUME NEW c PROVE Seen(c)' = {j \in PointsIn(c, GridDepth) : j = i \/ \E v \in Workers : j \in SeenBy(v)}
    BY <2>2, <2>3
  <2>6. ASSUME NEW c PROVE Seen(c)' = IF c = cell THEN Seen(c) \cup {i} ELSE Seen(c)
    <3>1. CASE c = cell
      BY <2>4, <2>5, <3>1 DEF Seen
    <3>2. CASE c # cell
      BY <2>4, <2>5, <3>2 DEF Seen
    <3> QED
      BY <3>1, <3>2
  <2> QED
    BY <2>6
<1> HIDE DEF cell
<1>17. grid \in [Grid(GridDepth) -> 0 .. CounterValues - 1]
       /\ \A c \in Grid(GridDepth) : grid[c] = Cardinality(Seen(c)) % CounterValues
  BY DEF CountInv
<1>18. ASSUME NEW c \in Grid(GridDepth)
       PROVE  /\ grid'[c] \in 0 .. CounterValues - 1
              /\ grid'[c] = Cardinality(Seen(c)') % CounterValues
  <2>1. IsFiniteSet(Seen(c)) /\ Cardinality(Seen(c)) \in Nat
    <3>1. IsFiniteSet(PointsIn(c, GridDepth))
      BY PopulationIs
    <3>2. Seen(c) \subseteq PointsIn(c, GridDepth)
      BY DEF Seen
    <3> QED
      BY <3>1, <3>2, FS_Subset, FS_CardinalityType
  <2>2. CASE c # cell
    BY <1>4, <1>15, <1>16, <1>17, <2>2
  <2>3. CASE c = cell
    <3>1. i \notin Seen(c)
      BY <1>14 DEF Seen
    <3>2. Cardinality(Seen(c) \cup {i}) = Cardinality(Seen(c)) + 1
      BY <2>1, <3>1, FS_AddElement
    <3>3. Cardinality(Seen(c)') = Cardinality(Seen(c)) + 1
      BY <1>16, <2>3, <3>2
    <3>4. grid'[c] = (grid[c] + 1) % CounterValues
      BY <1>4, <1>15, <1>17, <2>3
    <3>5. grid[c] = Cardinality(Seen(c)) % CounterValues
      BY <1>17
    <3> DEFINE x == Cardinality(Seen(c))
               n == CounterValues
    <3>6. x \in Nat /\ n \in Nat \ {0} /\ grid[c] \in Nat
      BY <1>17, <2>1, CountersAre
    <3>7. grid'[c] = ((x % n) + 1) % n
      BY <3>4, <3>5
    <3> HIDE DEF x, n
    <3>8. ((x % n) + 1) % n = (x + 1) % n
      BY <3>6, ModSuccessor
    <3>9. (x + 1) % n \in 0 .. n - 1
      BY <3>6
    <3> QED
      BY <3>3, <3>7, <3>8, <3>9 DEF x, n
  <2> QED
    BY <2>2, <2>3
<1>19. grid' \in [Grid(GridDepth) -> 0 .. CounterValues - 1]
  BY <1>4, <1>17, <1>18
<1>20. local \in [Workers -> Bounds] /\ \A v \in Workers : BoundsOf(local[v], SeenBy(v))
  BY DEF CountInv
<1>21. BoundsOf(b, {i})
  BY <1>11, PointBoundsOf
<1> HIDE DEF b
<1>22. BoundsOf(MergedBounds(local[w], b), SeenBy(w) \cup {i})
  <2>1. BoundsOf(local[w], SeenBy(w))
    BY <1>20
  <2>2. \A j \in SeenBy(w) \cup {i} : \A a \in Axes : Coordinate(j, a) \in Int
    <3>1. \A j \in SeenBy(w) \cup {i} : j \in 1 .. TotalPoints
      BY <1>11, <1>13
    <3> QED
      BY <3>1, CoordinateIs
  <2> QED
    BY <1>21, <2>1, <2>2, MergedBoundsOf
<1>23. local' \in [Workers -> Bounds]
  <2>1. MergedBounds(local[w], b) \in Bounds
    BY <1>22 DEF BoundsOf
  <2> QED
    BY <1>5, <1>20, <2>1
<1>24. ASSUME NEW v \in Workers PROVE BoundsOf(local[v], SeenBy(v))'
  <2>1. BoundsOf(local[v], SeenBy(v))' <=> BoundsOf(local'[v], SeenBy(v)')
    BY <1>2 DEF BoundsOf, Coordinate
  <2>2. BoundsOf(local'[v], SeenBy(v)')
    <3>1. CASE v = w
      <4>1. local'[v] = MergedBounds(local[w], b) /\ SeenBy(v)' = SeenBy(w) \cup {i}
        BY <1>5, <1>12, <1>20, <3>1
      <4> QED
        BY <1>22, <4>1
    <3>2. CASE v # w
      <4>1. local'[v] = local[v] /\ SeenBy(v)' = SeenBy(v)
        BY <1>5, <1>12, <1>20, <3>2
      <4> QED
        BY <1>20, <4>1
    <3> QED
      BY <3>1, <3>2
  <2> QED
    BY <2>1, <2>2
<1>25. counted' \in [Workers -> Nat]
  BY <1>3, <1>10
<1>26. ASSUME NEW v \in Workers PROVE Edge(v) + counted'[v] <= Edge(v + 1)
  <2>1. CASE v = w
    <3>1. counted'[v] = counted[w] + 1
      BY <1>3, <1>10, <2>1
    <3> QED
      BY <1>1, <1>9, <1>10, <2>1, <3>1
  <2>2. CASE v # w
    BY <1>3, <1>10, <2>2
  <2> QED
    BY <2>1, <2>2
<1>27. Grid(GridDepth)' = Grid(GridDepth)
  BY <1>2 DEF Grid
<1> QED
  BY <1>2, <1>18, <1>19, <1>23, <1>24, <1>25, <1>26, <1>27 DEF CountInv

\* Any step that counts nothing.
LEMMA CountStays ==
    ASSUME CountInv, UNCHANGED <<given, counted, local, grid>>
    PROVE  CountInv'
<1>1. /\ AllPoints' = AllPoints /\ TotalPoints' = TotalPoints /\ Workers' = Workers
      /\ GridDepth' = GridDepth /\ \A v : Edge(v)' = Edge(v)
      /\ \A j, l : Key(j, l)' = Key(j, l)
  BY GivenStays
<1>2. counted' = counted /\ local' = local /\ grid' = grid
  OBVIOUS
<1>3. \A w : SeenBy(w)' = SeenBy(w)
  BY <1>1, <1>2 DEF SeenBy
<1>4. \A c : Seen(c)' = Seen(c)
  BY <1>1, <1>3 DEF Seen, PointsIn
<1>5. \A w : BoundsOf(local[w], SeenBy(w))' <=> BoundsOf(local[w], SeenBy(w))
  BY <1>1, <1>2, <1>3 DEF BoundsOf, Coordinate
<1>6. Grid(GridDepth)' = Grid(GridDepth)
  BY <1>1 DEF Grid
<1> QED
  BY <1>1, <1>2, <1>4, <1>5, <1>6 DEF CountInv

\* When the workers are through, every point of a cell is counted.
LEMMA AllCounted ==
    ASSUME GivenOK, CountInv, \A w \in Workers : Edge(w) + counted[w] = Edge(w + 1)
    PROVE  /\ BoundsOf(FoldedBounds, 1 .. TotalPoints)
           /\ ~Wrapped => grid = [c \in Grid(GridDepth) |-> Population(c, GridDepth)]
<1>1. BoundsOf(FoldedBounds, 1 .. TotalPoints)
  BY FoldedBoundsOf DEF CountInv
<1>2. \A c : Seen(c) = PointsIn(c, GridDepth)
  <2>1. ASSUME NEW i \in 1 .. TotalPoints PROVE \E w \in Workers : i \in SeenBy(w)
    <3>1. PICK w \in Workers : Edge(w) < i /\ i <= Edge(w + 1)
      BY PointHasWorker
    <3>2. NumWorkers \in Nat \ {0} /\ Workers = 0 .. NumWorkers - 1
      BY WorkersAre
    <3>3. w \in 0 .. NumWorkers
      BY <3>2
    <3>4. Edge(w) \in 0 .. TotalPoints /\ TotalPoints \in Nat
      BY <3>3, EdgesAre, PointsAre
    <3>5. i \in Edge(w) + 1 .. Edge(w) + counted[w]
      BY <3>1, <3>4
    <3> QED
      BY <3>5 DEF SeenBy
  <2>2. \A c : \A i \in PointsIn(c, GridDepth) : i \in 1 .. TotalPoints
    BY DEF PointsIn
  <2> QED
    BY <2>1, <2>2 DEF Seen
<1>3. ASSUME ~Wrapped, NEW c \in Grid(GridDepth) PROVE grid[c] = Population(c, GridDepth)
  <2>1. grid[c] = Population(c, GridDepth) % CounterValues
    BY <1>2, PopulationIs DEF CountInv
  <2>2. Population(c, GridDepth) \in Nat
    BY PopulationIs
  <2>3. ~(Population(c, GridDepth) >= CounterValues)
    BY <1>3 DEF Wrapped
  <2> DEFINE x == Population(c, GridDepth)
  <2>4. x \in Nat /\ ~(x >= CounterValues) /\ grid[c] = x % CounterValues
    BY <2>1, <2>2, <2>3
  <2> HIDE DEF x
  <2>5. x % CounterValues = x
    BY <2>4, CountersAre
  <2> QED
    BY <2>4, <2>5 DEF x
<1>4. grid = [c \in Grid(GridDepth) |-> grid[c]]
  BY DEF CountInv
<1> QED
  BY <1>1, <1>3, <1>4

(***************************************************************************)
(* The target                                                              *)
(***************************************************************************)
LEMMA DivIsNat ==
    ASSUME NEW x \in Nat, NEW n \in Nat \ {0}
    PROVE  x \div n \in Nat /\ n * (x \div n) <= x
<1> DEFINE q == x \div n
           r == x % n
<1>1. q \in Int /\ r \in 0 .. n - 1 /\ x = n * q + r
  BY DivMod
<1> HIDE DEF q, r
<1>2. q < 0 => n * q <= n * (-1)
  BY <1>1
<1>3. q >= 0
  BY <1>1, <1>2
<1> QED
  BY <1>1, <1>3 DEF q

LEMMA ConstantsAre ==
    ASSUME GivenOK
    PROVE  /\ budget \in Nat /\ MinChunkPoints \in Nat \ {0} /\ PerPointPeak \in Nat \ {0}
           /\ PerPointOverhead \in Nat \ {0} /\ PerWorker \in Nat \ {0}
           /\ SafetyPercent \in Nat /\ SingleChunkPercent \in Nat
           /\ (override # NoOverride => override \in Nat)
BY PlannerAssumption DEF GivenOK

LEMMA TargetIs ==
    ASSUME GivenOK
    PROVE  /\ ChunkTarget \in Nat
           /\ override = NoOverride =>
                \/ ChunkTarget <= MinChunkPoints
                \/ ChunkTarget * PerPointPeak * 100 <= budget * SingleChunkPercent
<1> DEFINE x == budget * SingleChunkPercent
           n == 100 * PerPointPeak
           y == budget * SafetyPercent
           m == 100 * NumWorkers * PerPointOverhead
           z == TotalPoints
           k == NumWorkers * PerWorker
           low == MinChunkPoints
           top == MaxChunkPoints
           par == TargetForParallelism
           mid == Min({y \div m, par})
<1>1. x \in Nat /\ n \in Nat \ {0} /\ y \in Nat /\ m \in Nat \ {0} /\ z \in Nat /\ k \in Nat \ {0}
      /\ low \in Nat \ {0}
  <2>1. NumWorkers \in Nat \ {0} /\ TotalPoints \in Nat
    BY WorkersAre, PointsAre
  <2>2. 100 * NumWorkers \in Nat \ {0}
    BY <2>1
  <2> QED
    BY <2>1, <2>2, ConstantsAre
<1>2. top = Max({x \div n, low})
  BY DEF MaxChunkPoints
<1>3. par = Max({z \div k, low})
  BY DEF TargetForParallelism
<1>4. ChunkTarget = IF override # NoOverride THEN override ELSE Clamp(mid, low, top)
  BY DEF ChunkTarget
<1>5. x \div n \in Nat /\ n * (x \div n) <= x
  <2> HIDE DEF x, n
  <2> QED
    BY <1>1, DivIsNat
<1>6. y \div m \in Nat
  <2> HIDE DEF y, m
  <2> QED
    BY <1>1, DivIsNat
<1>7. z \div k \in Nat
  <2> HIDE DEF z, k
  <2> QED
    BY <1>1, DivIsNat
<1>8. top = IF x \div n >= low THEN x \div n ELSE low
  <2> DEFINE d == x \div n
  <2>1. d \in Int /\ low \in Int
    BY <1>1, <1>5
  <2> HIDE DEF d, low, top, x, n
  <2>2. Max({d, low}) = IF d >= low THEN d ELSE low
    BY <2>1, MaxOfTwo
  <2> QED
    BY <1>2, <2>2 DEF d
<1>9. par \in Nat
  <2> DEFINE d == z \div k
  <2>1. d \in Int /\ low \in Int
    BY <1>1, <1>7
  <2> HIDE DEF d, low, par, z, k
  <2>2. Max({d, low}) = IF d >= low THEN d ELSE low
    BY <2>1, MaxOfTwo
  <2> QED
    BY <1>1, <1>3, <1>7, <2>2 DEF d
<1>10. mid \in Nat
  <2> DEFINE d == y \div m
  <2>1. d \in Int /\ par \in Int
    BY <1>6, <1>9
  <2> HIDE DEF d, par, y, m
  <2>2. Min({d, par}) = IF d <= par THEN d ELSE par
    BY <2>1, MinOfTwo
  <2> QED
    BY <1>6, <1>9, <2>2 DEF d
<1> HIDE DEF low, top, mid
<1>11. top \in Nat /\ low <= top
  BY <1>1, <1>5, <1>8
<1>12. Clamp(mid, low, top) \in Nat /\ Clamp(mid, low, top) <= top
  BY <1>1, <1>10, <1>11 DEF Clamp
<1>13. ChunkTarget \in Nat
  BY <1>4, <1>12, ConstantsAre
<1>14. ASSUME override = NoOverride
       PROVE  ChunkTarget <= low \/ ChunkTarget * PerPointPeak * 100 <= x
  <2>1. ChunkTarget <= top
    BY <1>4, <1>12, <1>14
  <2>2. CASE top = low
    BY <2>1, <2>2
  <2>3. CASE top = x \div n
    <3> DEFINE d == x \div n
               p == PerPointPeak
               t == ChunkTarget
    <3>1. d \in Nat /\ p \in Nat /\ n = 100 * p /\ n * d <= x /\ t \in Nat /\ t <= d /\ n \in Nat /\ x \in Nat
      BY <1>1, <1>5, <1>13, <2>1, <2>3, ConstantsAre
    <3> HIDE DEF d, n, p, t, x
    <3>2. t * p * 100 = n * t
      BY <3>1
    <3>3. n * t <= n * d /\ n * t \in Nat /\ n * d \in Nat
      BY <3>1
    <3> QED
      BY <3>1, <3>2, <3>3 DEF p, t
  <2> QED
    BY <1>8, <2>2, <2>3
<1> QED
  BY <1>13, <1>14 DEF low, x

(***************************************************************************)
(* Populations                                                             *)
(***************************************************************************)
LEMMA PopulationUp ==
    ASSUME GivenOK, NEW c, NEW l \in Nat, NEW k \in Nat, l + k <= Span
    PROVE  Population(c, l + k) <= Population(Up(c, k), l)
<1>1. ASSUME NEW i \in PointsIn(c, l + k) PROVE i \in PointsIn(Up(c, k), l)
  <2>1. i \in 1 .. TotalPoints /\ Key(i, l + k) = c
    BY DEF PointsIn
  <2>2. Up(Key(i, l + k), k) = Key(i, l)
    BY <2>1, KeyIs
  <2> QED
    BY <2>1, <2>2 DEF PointsIn
<1>2. PointsIn(c, l + k) \subseteq PointsIn(Up(c, k), l)
  BY <1>1
<1>3. /\ IsFiniteSet(PointsIn(Up(c, k), l)) /\ Population(Up(c, k), l) = Cardinality(PointsIn(Up(c, k), l))
      /\ Population(c, l + k) = Cardinality(PointsIn(c, l + k))
  BY PopulationIs
<1>4. Cardinality(PointsIn(c, l + k)) <= Cardinality(PointsIn(Up(c, k), l))
  BY <1>2, <1>3, FS_Subset
<1> QED
  BY <1>3, <1>4

LEMMA PopulationSum ==
    ASSUME GivenOK, NEW l \in Nat, l + 1 <= Span, NEW parent \in Grid(l)
    PROVE  Population(parent, l) = SumOf([i \in 1 .. Parts(1) |-> Population(Child(parent, i), l + 1)])
<1> DEFINE n == Parts(1)
           s == [i \in 1 .. n |-> Population(Child(parent, i), l + 1)]
           P == [i \in 1 .. n |-> PointsIn(Child(parent, i), l + 1)]
<1>1. n \in Nat
  BY TwoPowers
<1>2. parent \in Cells
  BY GridCells
<1>3. \A i \in 1 .. n : Child(parent, i) \in Grid(l + 1) /\ Up(Child(parent, i), 1) = parent
  BY ChildIs
<1>4. \A i, j \in 1 .. n : Child(parent, i) = Child(parent, j) => i = j
  BY <1>2, ChildDistinct
<1>5. \A c \in Cells : \E i \in 1 .. n : c = Child(Up(c, 1), i)
  BY ChildAll
<1> HIDE DEF n
<1>6. s \in [1 .. n -> Nat] /\ \A i \in 1 .. n : s[i] = Population(Child(parent, i), l + 1)
  BY PopulationIs
<1>7. \A i \in 1 .. n : P[i] = PointsIn(Child(parent, i), l + 1)
  OBVIOUS
<1> HIDE DEF s, P
<1>8. s \in Seq(Nat) /\ Len(s) = n
  BY <1>1, <1>6, FunctionIsList
<1>9. \A i \in 1 .. n : IsFiniteSet(P[i]) /\ Cardinality(P[i]) = s[i]
  BY <1>6, <1>7, PopulationIs
<1>10. \A i, j \in 1 .. n : i # j => P[i] \cap P[j] = {}
  BY <1>4, <1>7 DEF PointsIn
<1>11. Cardinality(Joined(P, n)) = SumOf(s)
  BY <1>8, <1>9, <1>10, SumCounts
<1>12. Joined(P, n) = PointsIn(parent, l)
  <2>1. ASSUME NEW i \in 1 .. n, NEW x \in P[i] PROVE x \in PointsIn(parent, l)
    <3>1. x \in 1 .. TotalPoints /\ Key(x, l + 1) = Child(parent, i)
      BY <1>7, <2>1 DEF PointsIn
    <3>2. Up(Key(x, l + 1), 1) = Key(x, l)
      BY <3>1, KeyIs
    <3> QED
      BY <1>3, <3>1, <3>2 DEF PointsIn
  <2>2. ASSUME NEW x \in PointsIn(parent, l) PROVE \E i \in 1 .. n : x \in P[i]
    <3>1. x \in 1 .. TotalPoints /\ Key(x, l) = parent
      BY DEF PointsIn
    <3>2. Key(x, l + 1) \in Grid(l + 1) /\ Up(Key(x, l + 1), 1) = Key(x, l)
      BY <3>1, KeyIs
    <3>3. Key(x, l + 1) \in Cells
      BY <3>2, GridCells
    <3>4. PICK i \in 1 .. n : Key(x, l + 1) = Child(parent, i)
      BY <1>5, <3>1, <3>2, <3>3
    <3> QED
      BY <1>7, <3>1, <3>4 DEF PointsIn
  <2>3. \A x : x \in Joined(P, n) <=> \E i \in 1 .. n : x \in P[i]
    BY DEF Joined
  <2> QED
    BY <2>1, <2>2, <2>3
<1> QED
  BY <1>11, <1>12, PopulationIs DEF s, n

(***************************************************************************)
(* Merging                                                                 *)
(***************************************************************************)
Fits(c, l) == Population(c, l) <= ChunkTarget

PopsOf(l) == [c \in Grid(l) |-> IF l = GridDepth \/ Fits(c, l) THEN Population(c, l) ELSE Sentinel]

LEMMA BlockedIs ==
    ASSUME GivenOK, level \in 1 .. GridDepth, pops = PopsOf(level), NEW parent \in Grid(level - 1)
    PROVE  /\ Blocked(parent) <=> ~Fits(parent, level - 1)
           /\ ~Blocked(parent) => Sum(parent) = Population(parent, level - 1)
<1> DEFINE n == Parts(1)
<1>0. GridDepth \in Nat \ {0} /\ GridDepth <= Span /\ Span \in Nat
  BY GridDepthIs
<1>1. level - 1 \in Nat /\ (level - 1) + 1 = level /\ level <= Span
  BY <1>0
<1>2. \A i \in 1 .. n : Child(parent, i) \in Grid(level) /\ Up(Child(parent, i), 1) = parent
  BY <1>1, ChildIs
<1>3. \A i \in 1 .. n : pops[Child(parent, i)] =
          IF level = GridDepth \/ Fits(Child(parent, i), level)
          THEN Population(Child(parent, i), level) ELSE Sentinel
  BY <1>2 DEF PopsOf
<1>4. ChunkTarget \in Nat /\ \A c, l : Population(c, l) \in Nat
  BY TargetIs, PopulationIs
<1>5. Population(parent, level - 1) = SumOf([i \in 1 .. n |-> Population(Child(parent, i), level)])
  BY <1>1, PopulationSum
<1>6. ASSUME NEW i \in 1 .. n PROVE Population(Child(parent, i), level) <= Population(parent, level - 1)
  <2>1. Population(Child(parent, i), (level - 1) + 1) <= Population(Up(Child(parent, i), 1), level - 1)
    BY <1>1, PopulationUp
  <2> QED
    BY <1>1, <1>2, <2>1
<1>7. ASSUME NEW i \in 1 .. n, pops[Child(parent, i)] = Sentinel PROVE ~Fits(parent, level - 1)
  <2>1. ~Fits(Child(parent, i), level)
    <3>1. Population(Child(parent, i), level) # Sentinel
      BY <1>4 DEF Sentinel
    <3> QED
      BY <1>3, <1>7, <3>1
  <2> QED
    BY <1>4, <1>6, <2>1 DEF Fits
<1>8. ASSUME \A i \in 1 .. n : pops[Child(parent, i)] # Sentinel
      PROVE  Sum(parent) = Population(parent, level - 1)
  <2>1. \A i \in 1 .. n : (LET pop == pops[Child(parent, i)] IN IF pop = Sentinel THEN 0 ELSE pop)
                          = Population(Child(parent, i), level)
    BY <1>3, <1>8
  <2>2. [i \in 1 .. n |-> LET pop == pops[Child(parent, i)] IN IF pop = Sentinel THEN 0 ELSE pop]
        = [i \in 1 .. n |-> Population(Child(parent, i), level)]
    BY <2>1
  <2> QED
    BY <1>5, <2>2 DEF Sum
<1>9. CASE \E i \in 1 .. n : pops[Child(parent, i)] = Sentinel
  BY <1>7, <1>9 DEF Blocked
<1>10. CASE \A i \in 1 .. n : pops[Child(parent, i)] # Sentinel
  <2>1. Sum(parent) = Population(parent, level - 1)
    BY <1>8, <1>10
  <2>2. Blocked(parent) <=> Sum(parent) > ChunkTarget
    BY <1>10 DEF Blocked
  <2> QED
    BY <1>4, <2>1, <2>2 DEF Fits
<1> QED
  BY <1>9, <1>10

LEMMA MergedIs ==
    ASSUME GivenOK, level \in 1 .. GridDepth, pops = PopsOf(level)
    PROVE  Merged = PopsOf(level - 1)
<1>1. level - 1 # GridDepth
  BY GridDepthIs
<1>2. ASSUME NEW c \in Grid(level - 1)
      PROVE  (IF Blocked(c) THEN Sentinel ELSE Sum(c))
             = IF level - 1 = GridDepth \/ Fits(c, level - 1) THEN Population(c, level - 1) ELSE Sentinel
  BY <1>1, BlockedIs
<1> QED
  BY <1>2 DEF Merged, PopsOf

(***************************************************************************)
(* Chunk roots                                                             *)
(***************************************************************************)
Chunk == [level : Nat, cell : Cells, points : Nat]

LEMMA SplitIs ==
    ASSUME GivenOK, NEW pop \in Nat
    PROVE  /\ SplitExtraLevels(pop) \in 0 .. SplitLevelCap
           /\ SplitExtraLevels(pop) = 0 <=> pop <= ChunkTarget
           /\ \/ pop <= ChunkTarget * Parts(SplitExtraLevels(pop))
              \/ SplitExtraLevels(pop) = SplitLevelCap
<1> DEFINE C == SplitLevelCap
           S == {k \in 0 .. C : pop <= ChunkTarget * Parts(k)} \cup {C}
<1>1. C \in Nat \ {0} /\ ChunkTarget \in Nat
  BY GridDepthIs, TargetIs
<1>2. SplitExtraLevels(pop) = Min(S)
  BY DEF SplitExtraLevels
<1>3. S \subseteq 0 .. C /\ C \in S
  BY <1>1
<1>4. \A k \in S : pop <= ChunkTarget * Parts(k) \/ k = C
  OBVIOUS
<1>5. pop <= ChunkTarget <=> 0 \in S
  <2>1. ChunkTarget * Parts(0) = ChunkTarget
    BY <1>1, OnePower
  <2> QED
    BY <1>1, <2>1
<1> HIDE DEF S, C
<1>6. S \subseteq Int /\ S # {} /\ 0 \in Int /\ \A x \in S : 0 <= x
  BY <1>1, <1>3
<1>7. Min(S) \in S /\ \A x \in S : Min(S) <= x
  BY <1>6, MinIs
<1>8. Min(S) \in 0 .. C
  BY <1>3, <1>7
<1>9. Min(S) = 0 <=> 0 \in S
  BY <1>7, <1>8
<1>10. pop <= ChunkTarget * Parts(Min(S)) \/ Min(S) = C
  BY <1>4, <1>7
<1> QED
  BY <1>2, <1>5, <1>8, <1>9, <1>10 DEF C

LEMMA ShareIs ==
    ASSUME NEW pop \in Nat, NEW n \in Nat \ {0}, NEW i \in Nat
    PROVE  /\ Share(pop, n, i) \in Nat
           /\ \A t \in Nat : pop <= t * n => Share(pop, n, i) <= t
<1> DEFINE q == pop \div n
           r == pop % n
<1>1. q \in Nat /\ r \in 0 .. n - 1 /\ pop = n * q + r
  <2>1. pop \div n \in Nat
    BY DivIsNat
  <2>2. pop \in Int
    OBVIOUS
  <2>3. pop % n \in 0 .. n - 1 /\ pop = n * (pop \div n) + (pop % n)
    BY <2>2, DivMod
  <2> QED
    BY <2>1, <2>3
<1>2. Share(pop, n, i) = q + (IF i < r THEN 1 ELSE 0)
  BY DEF Share
<1> HIDE DEF q, r
<1>3. ASSUME NEW t \in Nat, pop <= t * n PROVE Share(pop, n, i) <= t
  <2>1. t * n = n * t /\ n * t \in Nat /\ n * q \in Nat
    BY <1>1
  <2>2. q > t => n * q >= n * (t + 1) /\ n * (t + 1) = n * t + n
    BY <1>1
  <2>3. q <= t
    BY <1>1, <1>3, <2>1, <2>2
  <2>4. q = t => r = 0
    BY <1>1, <1>3, <2>1
  <2> QED
    BY <1>1, <1>2, <2>3, <2>4
<1> QED
  BY <1>1, <1>2, <1>3

LEMMA SharesSum ==
    ASSUME NEW pop \in Nat, NEW n \in Nat \ {0}
    PROVE  SumOf([j \in 1 .. n |-> Share(pop, n, j - 1)]) = pop
<1> DEFINE q == pop \div n
           r == pop % n
           s == [j \in 1 .. n |-> Share(pop, n, j - 1)]
<1>1. q \in Nat /\ r \in 0 .. n - 1 /\ pop = n * q + r
  <2>1. pop \div n \in Nat
    BY DivIsNat
  <2>2. pop \in Int
    OBVIOUS
  <2>3. pop % n \in 0 .. n - 1 /\ pop = n * (pop \div n) + (pop % n)
    BY <2>2, DivMod
  <2> QED
    BY <2>1, <2>3
<1>2. \A j \in 1 .. n : s[j] = q + (IF j - 1 < r THEN 1 ELSE 0)
  BY DEF Share
<1>3. s \in [1 .. n -> Nat]
  BY ShareIs
<1> HIDE DEF q, r, s
<1>4. s \in Seq(Nat) /\ Len(s) = n
  BY <1>3, FunctionIsList
<1>5. PICK u : PrefixSums(s, n, u) /\ SumOf(s) = u[n]
  BY <1>4, SumIs
<1>6. u[0] = 0 /\ \A j \in 1 .. n : u[j] = u[j - 1] + s[j]
  BY <1>5 DEF PrefixSums
<1> DEFINE H == {m \in Nat : u[m] = m * q + (IF m <= r THEN m ELSE r)}
<1>7. 0 \in H
  BY <1>1, <1>6
<1>8. ASSUME NEW m \in 1 .. n, m - 1 \in H PROVE m \in H
  <2>1. u[m - 1] = (m - 1) * q + (IF m - 1 <= r THEN m - 1 ELSE r)
    BY <1>8
  <2>2. u[m] = u[m - 1] + s[m] /\ s[m] = q + (IF m - 1 < r THEN 1 ELSE 0)
    BY <1>2, <1>6
  <2>3. (m - 1) * q + q = m * q /\ (m - 1) * q \in Int /\ m * q \in Int
    BY <1>1
  <2>4. u[m] = m * q + (IF m <= r THEN m ELSE r)
    <3> DEFINE x == (m - 1) * q
               y == m * q
    <3>1. x \in Int /\ y \in Int /\ x + q = y /\ u[m - 1] = x + (IF m - 1 <= r THEN m - 1 ELSE r)
      BY <2>1, <2>3
    <3> HIDE DEF x, y
    <3>2. u[m] = y + (IF m <= r THEN m ELSE r)
      BY <1>1, <2>2, <3>1
    <3> QED
      BY <3>2 DEF y
  <2> QED
    BY <2>4
<1> HIDE DEF H
<1>9. \A m \in 0 .. n : m \in H
  BY <1>7, <1>8, Climb
<1>10. n \in H
  BY <1>9
<1>11. u[n] = n * q + r
  <2>1. u[n] = n * q + (IF n <= r THEN n ELSE r)
    BY <1>10 DEF H
  <2> QED
    BY <1>1, <2>1
<1> QED
  BY <1>1, <1>5, <1>11 DEF s

LEMMA EmitWhole ==
    ASSUME GivenOK, NEW l \in Nat, NEW c \in Cells, NEW pop \in Nat,
           l # GridDepth \/ pop <= ChunkTarget
    PROVE  EmitChunkRoot(l, c, pop) = <<[level |-> l, cell |-> c, points |-> pop]>>
<1>1. SplitExtraLevels(pop) = 0 <=> pop <= ChunkTarget
  BY SplitIs
<1> QED
  BY <1>1 DEF EmitChunkRoot

LEMMA EmitSplit ==
    ASSUME GivenOK, NEW c \in Cells, NEW pop \in Nat, ~(pop <= ChunkTarget)
    PROVE  \E k \in 1 .. SplitLevelCap :
             /\ EmitChunkRoot(GridDepth, c, pop) =
                  [i \in 1 .. Parts(k) |->
                     [level |-> GridDepth + k, cell |-> Below(c, k, i - 1),
                      points |-> Share(pop, Parts(k), i - 1)]]
             /\ pop <= ChunkTarget * Parts(k) \/ k = SplitLevelCap
<1> DEFINE k == SplitExtraLevels(pop)
<1>1. k \in 0 .. SplitLevelCap /\ k # 0
  BY SplitIs
<1>2. pop <= ChunkTarget * Parts(k) \/ k = SplitLevelCap
  BY SplitIs
<1>3. EmitChunkRoot(GridDepth, c, pop) =
                  [i \in 1 .. Parts(k) |->
                     [level |-> GridDepth + k, cell |-> Below(c, k, i - 1),
                      points |-> Share(pop, Parts(k), i - 1)]]
  BY <1>1 DEF EmitChunkRoot
<1> HIDE DEF k
<1>4. k \in 1 .. SplitLevelCap
  BY <1>1
<1> QED
  BY <1>2, <1>3, <1>4

\* What is true of each chunk that is made of a root.
PieceOf(e, l, c, pop) ==
    /\ e.level \in Nat /\ l <= e.level /\ e.level <= Span
    /\ e.cell \in Grid(e.level) /\ Up(e.cell, e.level - l) = c
    /\ \/ e.level = l /\ (l # GridDepth \/ pop <= ChunkTarget)
          /\ e.cell = c /\ e.points = pop
       \/ e.level > GridDepth /\ l = GridDepth /\ ~(pop <= ChunkTarget)
    /\ \/ e.points <= ChunkTarget \/ e.level = GridDepth + SplitLevelCap
       \/ l # GridDepth /\ ~(pop <= ChunkTarget)

LEMMA EmitIs ==
    ASSUME GivenOK, NEW l \in 0 .. GridDepth, NEW c \in Grid(l), NEW pop \in Nat
    PROVE  /\ EmitChunkRoot(l, c, pop) \in Seq(Chunk)
           /\ Len(EmitChunkRoot(l, c, pop)) \in Nat \ {0}
           /\ \A j \in 1 .. Len(EmitChunkRoot(l, c, pop)) :
                PieceOf(EmitChunkRoot(l, c, pop)[j], l, c, pop)
           /\ Distinct(EmitChunkRoot(l, c, pop))
           /\ SumOf(Weights(EmitChunkRoot(l, c, pop))) = pop
<1> DEFINE s == EmitChunkRoot(l, c, pop)
           C == SplitLevelCap
<1>1. GridDepth \in Nat \ {0} /\ Span \in Nat /\ C \in Nat \ {0} /\ GridDepth + C <= Span /\ l \in Nat
  BY GridDepthIs
<1>2. c \in Cells
  BY <1>1, GridCells
<1>3. CASE l # GridDepth \/ pop <= ChunkTarget
  <2> DEFINE e == [level |-> l, cell |-> c, points |-> pop]
  <2>1. s = <<e>>
    BY <1>1, <1>2, <1>3, EmitWhole
  <2>2. e \in Chunk
    BY <1>1, <1>2 DEF Chunk
  <2>3. s = [i \in 1 .. 1 |-> e]
    BY <2>1
  <2>4. s \in Seq(Chunk) /\ Len(s) = 1
    <3>1. [i \in 1 .. 1 |-> e] \in [1 .. 1 -> Chunk]
      BY <2>2
    <3> HIDE DEF s
    <3> QED
      BY <2>3, <3>1, FunctionIsList
  <2>5. \A j \in 1 .. Len(s) : s[j] = e /\ j = 1
    BY <2>3, <2>4
  <2> HIDE DEF s
  <2>6. PieceOf(e, l, c, pop)
    <3>1. l - l = 0 /\ Up(c, 0) = c
      BY <1>1, <1>2, UpIs
    <3>2. l <= Span
      BY <1>1
    <3>3. pop <= ChunkTarget \/ (l # GridDepth /\ ~(pop <= ChunkTarget))
      BY <1>3
    <3> QED
      BY <1>1, <1>3, <3>1, <3>2, <3>3 DEF PieceOf
  <2>7. Distinct(s)
    BY <2>5 DEF Distinct
  <2>8. SumOf(Weights(s)) = pop
    <3> DEFINE w == Weights(s)
    <3>1. w = [i \in 1 .. 1 |-> pop]
      BY <2>3, <2>4 DEF Weights
    <3>2. w \in Seq(Nat) /\ Len(w) = 1
      <4>1. [i \in 1 .. 1 |-> pop] \in [1 .. 1 -> Nat]
        OBVIOUS
      <4> HIDE DEF w
      <4> QED
        BY <3>1, <4>1, FunctionIsList
    <3>3. w[1] = pop
      BY <3>1
    <3> HIDE DEF w
    <3>4. PICK u : PrefixSums(w, 1, u) /\ SumOf(w) = u[1]
      BY <3>2, SumIs
    <3>5. u[0] = 0 /\ \A i \in 1 .. 1 : u[i] = u[i - 1] + w[i]
      BY <3>4 DEF PrefixSums
    <3>6. u[1] = u[0] + w[1]
      <4>1. \A i \in 1 .. 1 : i = 1 => u[i] = u[0] + w[1]
        BY <3>5
      <4> QED
        BY <4>1
    <3> QED
      BY <3>3, <3>4, <3>5, <3>6 DEF w
  <2> QED
    BY <2>4, <2>5, <2>6, <2>7, <2>8 DEF s
<1>4. CASE l = GridDepth /\ ~(pop <= ChunkTarget)
  <2>1. PICK k \in 1 .. C :
             /\ s = [i \in 1 .. Parts(k) |->
                     [level |-> GridDepth + k, cell |-> Below(c, k, i - 1),
                      points |-> Share(pop, Parts(k), i - 1)]]
             /\ pop <= ChunkTarget * Parts(k) \/ k = C
    BY <1>2, <1>4, EmitSplit
  <2> DEFINE n == Parts(k)
             e(i) == [level |-> GridDepth + k, cell |-> Below(c, k, i - 1),
                      points |-> Share(pop, Parts(k), i - 1)]
  <2>2. k \in Nat /\ n \in Nat \ {0} /\ GridDepth + k <= Span /\ GridDepth + k \in Nat
    <3>1. k \in Nat
      BY <1>1
    <3> QED
      BY <1>1, <3>1, TwoPowers
  <2> HIDE DEF s
  <2>3. ASSUME NEW i \in 1 .. n
        PROVE  /\ e(i) \in Chunk /\ e(i).cell \in Grid(GridDepth + k)
               /\ Up(e(i).cell, k) = c
               /\ e(i).points \in Nat
               /\ (pop <= ChunkTarget * n => e(i).points <= ChunkTarget)
    <3>1. i - 1 \in 0 .. Parts(k) - 1 /\ i - 1 \in Nat
      BY <2>2
    <3>2. Below(c, k, i - 1) \in Cells /\ Up(Below(c, k, i - 1), k) = c
      BY <1>2, <2>2, <3>1, BelowIs
    <3>3. Below(c, k, i - 1) \in Grid(GridDepth + k)
      BY <1>1, <1>4, <2>2, <3>1, GridBelow
    <3>4. Share(pop, n, i - 1) \in Nat /\ (pop <= ChunkTarget * n => Share(pop, n, i - 1) <= ChunkTarget)
      BY <2>2, <3>1, ShareIs, TargetIs
    <3> QED
      BY <2>2, <3>2, <3>3, <3>4 DEF Chunk
  <2>4. s \in Seq(Chunk) /\ Len(s) = n
    <3>1. s \in [1 .. n -> Chunk]
      BY <2>1, <2>3
    <3> QED
      BY <2>2, <3>1, FunctionIsList
  <2>5. \A j \in 1 .. Len(s) : j \in 1 .. n /\ s[j] = e(j)
    BY <2>1, <2>4
  <2>6. ASSUME NEW j \in 1 .. n PROVE PieceOf(e(j), l, c, pop)
    <3>1. e(j).level = GridDepth + k
      OBVIOUS
    <3>2. (GridDepth + k) - l = k /\ l <= GridDepth + k /\ GridDepth + k > GridDepth
      BY <1>1, <1>4, <2>2
    <3>3. e(j).points <= ChunkTarget \/ k = C
      BY <2>1, <2>3
    <3> DEFINE x == e(j)
    <3>4. x.level = GridDepth + k /\ x.cell \in Grid(GridDepth + k) /\ Up(x.cell, k) = c
      BY <2>3, <3>1
    <3>5. x.points <= ChunkTarget \/ k = C
      BY <3>3
    <3> HIDE DEF x
    <3>6. PieceOf(x, l, c, pop)
      BY <1>4, <2>2, <3>2, <3>4, <3>5 DEF PieceOf
    <3> QED
      BY <3>6 DEF x
  <2>7. Distinct(s)
    <3>1. SUFFICES ASSUME NEW p \in 1 .. n, NEW q \in 1 .. n, Voxel(e(p)) = Voxel(e(q)) PROVE p = q
      BY <2>4, <2>5 DEF Distinct
    <3>2. Below(c, k, p - 1) = Below(c, k, q - 1)
      BY <3>1 DEF Voxel
    <3>3. p - 1 \in 0 .. Parts(k) - 1 /\ q - 1 \in 0 .. Parts(k) - 1 /\ p \in Int /\ q \in Int
      BY <2>2
    <3>4. p - 1 = q - 1
      BY <1>2, <2>2, <3>2, <3>3, BelowDistinct
    <3> QED
      BY <3>3, <3>4
  <2>8. SumOf(Weights(s)) = pop
    <3>1. Weights(s) = [j \in 1 .. n |-> Share(pop, n, j - 1)]
      BY <2>4, <2>5 DEF Weights
    <3> QED
      BY <2>2, <3>1, SharesSum
  <2>9. \A j \in 1 .. Len(s) : PieceOf(s[j], l, c, pop)
    BY <2>5, <2>6
  <2> QED
    BY <2>2, <2>4, <2>7, <2>8, <2>9 DEF s
<1> QED
  BY <1>3, <1>4

(***************************************************************************)
(* The plan                                                                *)
(***************************************************************************)
\* The voxels of which chunks are to be made.
IsRoot(l, c) ==
    /\ c \in Grid(l)
    /\ Population(c, l) > 0
    /\ l = GridDepth \/ Fits(c, l)
    /\ l = 0 \/ ~Fits(Up(c, 1), l - 1)

Pieces(l, c) == EmitChunkRoot(l, c, Population(c, l))

\* The points in roots of the levels D, of which the cells are in S.
Taken(D, S) ==
    {i \in 1 .. TotalPoints : \E l \in D : Key(i, l) \in S /\ IsRoot(l, Key(i, l))}

\* The list has the pieces of these roots, those of each one together, and
\* nothing else.
PlanFor(list, D, S) ==
    /\ list \in Seq(Chunk)
    /\ \A p \in 1 .. Len(list) : \E l \in D : \E c \in S :
          IsRoot(l, c) /\ \E j \in 1 .. Len(Pieces(l, c)) : list[p] = Pieces(l, c)[j]
    /\ \A l \in D : \A c \in S :
          IsRoot(l, c) => \E b \in Nat : FoundAt(list, Pieces(l, c), b)
    /\ Distinct(list)
    /\ SumOf(Weights(list)) = Cardinality(Taken(D, S))

Levels == 0 .. GridDepth

LEMMA LevelsAre ==
    ASSUME GivenOK
    PROVE  /\ GridDepth \in Nat \ {0} /\ Span \in Nat
           /\ \A l \in Levels : l \in Nat /\ l <= Span /\ l <= GridDepth
BY GridDepthIs DEF Levels

LEMMA TakenIsFinite ==
    ASSUME GivenOK, NEW D, NEW S
    PROVE  IsFiniteSet(Taken(D, S)) /\ Cardinality(Taken(D, S)) \in Nat
<1>1. TotalPoints \in Nat
  BY PointsAre
<1>2. IsFiniteSet(1 .. TotalPoints)
  <2>1. 1 \in Int /\ TotalPoints \in Int
    BY <1>1
  <2> QED
    BY <2>1, FS_Interval
<1>3. Taken(D, S) \subseteq 1 .. TotalPoints
  BY DEF Taken
<1> QED
  BY <1>2, <1>3, FS_Subset, FS_CardinalityType

LEMMA PiecesAre ==
    ASSUME GivenOK, NEW l \in Levels, NEW c \in Grid(l)
    PROVE  /\ Pieces(l, c) \in Seq(Chunk)
           /\ Len(Pieces(l, c)) \in Nat \ {0}
           /\ \A j \in 1 .. Len(Pieces(l, c)) : PieceOf(Pieces(l, c)[j], l, c, Population(c, l))
           /\ Distinct(Pieces(l, c))
           /\ SumOf(Weights(Pieces(l, c))) = Population(c, l)
<1> DEFINE pop == Population(c, l)
<1>1. l \in 0 .. GridDepth
  BY DEF Levels
<1>2. pop \in Nat
  BY PopulationIs
<1> HIDE DEF pop
<1> DEFINE s == EmitChunkRoot(l, c, pop)
<1>3. /\ s \in Seq(Chunk) /\ Len(s) \in Nat \ {0}
      /\ \A j \in 1 .. Len(s) : PieceOf(s[j], l, c, pop)
      /\ Distinct(s) /\ SumOf(Weights(s)) = pop
  <2>1. EmitChunkRoot(l, c, pop) \in Seq(Chunk)
    BY <1>1, <1>2, EmitIs
  <2>2. Len(EmitChunkRoot(l, c, pop)) \in Nat \ {0}
    BY <1>1, <1>2, EmitIs
  <2>3. \A j \in 1 .. Len(EmitChunkRoot(l, c, pop)) : PieceOf(EmitChunkRoot(l, c, pop)[j], l, c, pop)
    BY <1>1, <1>2, EmitIs
  <2>4. Distinct(EmitChunkRoot(l, c, pop)) /\ SumOf(Weights(EmitChunkRoot(l, c, pop))) = pop
    BY <1>1, <1>2, EmitIs
  <2> QED
    BY <2>1, <2>2, <2>3, <2>4
<1>4. s = Pieces(l, c)
  BY DEF Pieces, pop
<1> HIDE DEF s
<1> QED
  BY <1>3, <1>4 DEF pop

\* Where a chunk of a plan for one level comes from.
LEMMA ChunkUnder ==
    ASSUME GivenOK, NEW l \in Levels, NEW S, NEW list, PlanFor(list, {l}, S),
           NEW p \in 1 .. Len(list)
    PROVE  Up(list[p].cell, list[p].level - l) \in S
<1>1. PICK c \in S :
          IsRoot(l, c) /\ \E j \in 1 .. Len(Pieces(l, c)) : list[p] = Pieces(l, c)[j]
  BY DEF PlanFor
<1>2. c \in Grid(l)
  BY <1>1 DEF IsRoot
<1>3. PICK j \in 1 .. Len(Pieces(l, c)) : list[p] = Pieces(l, c)[j]
  BY <1>1
<1>4. PieceOf(Pieces(l, c)[j], l, c, Population(c, l))
  BY <1>2, PiecesAre
<1> QED
  BY <1>3, <1>4 DEF PieceOf

LEMMA ChunkWeighs == \A e \in Chunk : e.points \in Nat
BY DEF Chunk

LEMMA EmptySums ==
    /\ <<>> \in Seq(Chunk) /\ Len(<<>>) = 0 /\ Distinct(<<>>) /\ SumOf(Weights(<<>>)) = 0
<1>1. <<>> \in Seq(Chunk) /\ <<>> \in Seq(Nat) /\ Len(<<>>) = 0
  BY EmptySeq
<1>2. Distinct(<<>>)
  BY <1>1 DEF Distinct
<1>3. Weights(<<>>) \in Seq(Nat) /\ Len(Weights(<<>>)) = 0
  BY <1>1, ChunkWeighs, WeightsAreNumbers
<1> DEFINE w == Weights(<<>>)
<1>4. w \in Seq(Nat) /\ Len(w) = 0
  BY <1>3
<1> HIDE DEF w
<1>5. PICK u : PrefixSums(w, 0, u) /\ SumOf(w) = u[0]
  BY <1>4, SumIs
<1> QED
  BY <1>1, <1>2, <1>5 DEF PrefixSums, w

\* What one voxel gives.
RootPieces(l, c) == IF IsRoot(l, c) THEN Pieces(l, c) ELSE <<>>

LEMMA PlanForVoxel ==
    ASSUME GivenOK, NEW l \in Levels, NEW c \in Grid(l)
    PROVE  PlanFor(RootPieces(l, c), {l}, {c})
<1>1. CASE ~IsRoot(l, c)
  <2>1. RootPieces(l, c) = <<>>
    BY <1>1 DEF RootPieces
  <2>2. Taken({l}, {c}) = {}
    BY <1>1 DEF Taken
  <2>3. Cardinality(Taken({l}, {c})) = 0
    BY <2>2, FS_EmptySet
  <2> DEFINE s == <<>>
  <2>4. s \in Seq(Chunk) /\ Len(s) = 0 /\ Distinct(s) /\ SumOf(Weights(s)) = 0
    BY EmptySums
  <2> HIDE DEF s
  <2>5. PlanFor(s, {l}, {c})
    BY <1>1, <2>3, <2>4 DEF PlanFor
  <2> QED
    BY <2>1, <2>5 DEF s
<1>2. CASE IsRoot(l, c)
  <2> DEFINE s == Pieces(l, c)
  <2>1. s \in Seq(Chunk) /\ Len(s) \in Nat \ {0} /\ Distinct(s) /\ SumOf(Weights(s)) = Population(c, l)
    BY PiecesAre
  <2>2. RootPieces(l, c) = s
    BY <1>2 DEF RootPieces
  <2>3. Taken({l}, {c}) = PointsIn(c, l)
    BY <1>2 DEF Taken, PointsIn
  <2>4. Cardinality(Taken({l}, {c})) = Population(c, l)
    BY <2>3, PopulationIs
  <2>5. FoundAt(s, s, 0)
    <3> HIDE DEF s
    <3>1. \A j \in 1 .. Len(s) : 0 + j = j
      BY <2>1
    <3> QED
      BY <3>1 DEF FoundAt
  <2>6. \A p \in 1 .. Len(s) : \E j \in 1 .. Len(Pieces(l, c)) : s[p] = Pieces(l, c)[j]
    OBVIOUS
  <2>7. \E b \in Nat : FoundAt(s, Pieces(l, c), b)
    BY <2>5
  <2> HIDE DEF s
  <2>8. PlanFor(s, {l}, {c})
    BY <1>2, <2>1, <2>4, <2>6, <2>7 DEF PlanFor
  <2> QED
    BY <2>2, <2>8
<1> QED
  BY <1>1, <1>2

LEMMA FoundWithin ==
    ASSUME NEW a, NEW b, NEW c, NEW m \in Nat, NEW n \in Nat, Len(b) \in Nat,
           FoundAt(a, b, m), FoundAt(b, c, n)
    PROVE  FoundAt(a, c, m + n)
<1>1. ASSUME NEW j \in 1 .. Len(c) PROVE (m + n) + j \in 1 .. Len(a) /\ a[(m + n) + j] = c[j]
  <2>1. n + j \in 1 .. Len(b) /\ b[n + j] = c[j]
    BY DEF FoundAt
  <2>2. m + (n + j) \in 1 .. Len(a) /\ a[m + (n + j)] = b[n + j]
    BY <2>1 DEF FoundAt
  <2>3. j \in Int
    BY <2>1
  <2>4. m + (n + j) = (m + n) + j
    BY <2>3
  <2> QED
    BY <2>1, <2>2, <2>4
<1> QED
  BY <1>1 DEF FoundAt

\* Plans for sets of cells of a level that have none in common.
LEMMA PlansConcat ==
    ASSUME GivenOK, NEW l \in Levels, NEW n \in Nat,
           NEW S \in [1 .. n -> SUBSET Grid(l)],
           \A i, k \in 1 .. n : i # k => S[i] \cap S[k] = {},
           NEW ss, DOMAIN ss = 1 .. n, ss = [i \in 1 .. n |-> ss[i]],
           \A i \in 1 .. n : PlanFor(ss[i], {l}, S[i])
    PROVE  PlanFor(Concat(ss), {l}, Joined(S, n))
<1> DEFINE U == Joined(S, n)
           t == Concat(ss)
<1>1. ss \in Seq(Seq(Chunk)) /\ Len(ss) = n
  <2>1. ss \in [1 .. n -> Seq(Chunk)]
    BY DEF PlanFor
  <2> QED
    BY <2>1, FunctionIsList
<1>2. \A x : x \in U <=> \E i \in 1 .. n : x \in S[i]
  BY DEF Joined
<1>3. t \in Seq(Chunk)
  BY <1>1, ConcatIsList
<1>4. ASSUME NEW p \in 1 .. Len(t)
      PROVE  \E c \in U : IsRoot(l, c) /\ \E j \in 1 .. Len(Pieces(l, c)) : t[p] = Pieces(l, c)[j]
  <2>1. PICK i \in 1 .. n : \E q \in 1 .. Len(ss[i]) : t[p] = ss[i][q]
    BY <1>1, ConcatHasOnly
  <2>2. PICK q \in 1 .. Len(ss[i]) : t[p] = ss[i][q]
    BY <2>1
  <2>3. \E c \in S[i] : IsRoot(l, c) /\ \E j \in 1 .. Len(Pieces(l, c)) : ss[i][q] = Pieces(l, c)[j]
    BY DEF PlanFor
  <2> QED
    BY <1>2, <2>2, <2>3
<1>5. ASSUME NEW c \in U, IsRoot(l, c)
      PROVE  \E b \in Nat : FoundAt(t, Pieces(l, c), b)
  <2>1. PICK i \in 1 .. n : c \in S[i]
    BY <1>2
  <2>2. PICK b \in Nat : FoundAt(ss[i], Pieces(l, c), b)
    BY <1>5, <2>1 DEF PlanFor
  <2>3. PICK a \in Nat : FoundAt(t, ss[i], a)
    BY <1>1, ConcatHasAll
  <2>4. Len(ss[i]) \in Nat
    <3>1. ss[i] \in Seq(Chunk)
      BY DEF PlanFor
    <3> QED
      BY <3>1, LenProperties
  <2>5. FoundAt(t, Pieces(l, c), a + b)
    <3> DEFINE x == ss[i]
               y == Pieces(l, c)
    <3>1. FoundAt(t, x, a) /\ FoundAt(x, y, b) /\ Len(x) \in Nat
      BY <2>2, <2>3, <2>4
    <3> HIDE DEF x, y, t
    <3>2. FoundAt(t, y, a + b)
      BY <3>1, FoundWithin
    <3> QED
      BY <3>2 DEF y
  <2>6. a + b \in Nat
    OBVIOUS
  <2> QED
    BY <2>5, <2>6
<1>6. Distinct(t)
  <2>1. \A i \in 1 .. Len(ss) : Distinct(ss[i])
    BY <1>1 DEF PlanFor
  <2>2. ASSUME NEW i \in 1 .. Len(ss), NEW k \in 1 .. Len(ss), i # k PROVE Apart(ss[i], ss[k])
    <3>1. SUFFICES ASSUME NEW p \in 1 .. Len(ss[i]), NEW q \in 1 .. Len(ss[k]),
                          Voxel(ss[i][p]) = Voxel(ss[k][q])
                   PROVE  FALSE
      BY DEF Apart
    <3>2. {l} \in SUBSET Levels /\ i \in 1 .. n /\ k \in 1 .. n
      BY <1>1
    <3>3. PlanFor(ss[i], {l}, S[i]) /\ PlanFor(ss[k], {l}, S[k])
      BY <3>2
    <3> DEFINE x == ss[i]
               y == ss[k]
               A == S[i]
               B == S[k]
    <3>4. PlanFor(x, {l}, A) /\ PlanFor(y, {l}, B) /\ p \in 1 .. Len(x) /\ q \in 1 .. Len(y)
      BY <3>3
    <3>5. A \cap B = {} /\ Voxel(x[p]) = Voxel(y[q])
      BY <2>2, <3>1, <3>2
    <3> HIDE DEF x, y, A, B
    <3>6. PlanFor(x, {l}, A)
      BY <3>4
    <3>7. PlanFor(y, {l}, B)
      BY <3>4
    <3>8. Up(x[p].cell, x[p].level - l) \in A /\ Up(y[q].cell, y[q].level - l) \in B
      BY <3>4, <3>6, <3>7, ChunkUnder
    <3>9. x[p].cell = y[q].cell /\ x[p].level = y[q].level
      BY <3>5 DEF Voxel
    <3> QED
      BY <3>5, <3>8, <3>9
  <2> QED
    BY <1>1, <2>1, <2>2, ConcatDistinct
<1>7. SumOf(Weights(t)) = Cardinality(Taken({l}, U))
  <2> DEFINE f == [i \in 1 .. n |-> SumOf(Weights(ss[i]))]
             P == [i \in 1 .. n |-> Taken({l}, S[i])]
  <2>1. SumOf(Weights(t)) = SumOf(f)
    <3>1. SumOf(Weights(Concat(ss))) = SumOf([i \in 1 .. Len(ss) |-> SumOf(Weights(ss[i]))])
      BY <1>1, ChunkWeighs, ConcatWeighs
    <3> QED
      BY <1>1, <3>1
  <2>2. \A i \in 1 .. n : f[i] = Cardinality(Taken({l}, S[i])) /\ f[i] \in Nat
    <3>1. ASSUME NEW i \in 1 .. n PROVE IsFiniteSet(Taken({l}, S[i])) /\ Cardinality(Taken({l}, S[i])) \in Nat
      BY TakenIsFinite
    <3>2. \A i \in 1 .. n : SumOf(Weights(ss[i])) = Cardinality(Taken({l}, S[i]))
      BY DEF PlanFor
    <3> QED
      BY <3>1, <3>2
  <2>3. f \in [1 .. n -> Nat]
    BY <2>2
  <2>4. \A i \in 1 .. n : P[i] = Taken({l}, S[i])
    OBVIOUS
  <2> HIDE DEF f, P
  <2>5. f \in Seq(Nat) /\ Len(f) = n
    BY <2>3, FunctionIsList
  <2>6. \A i \in 1 .. n : IsFiniteSet(P[i]) /\ Cardinality(P[i]) = f[i]
    <3>1. ASSUME NEW i \in 1 .. n PROVE IsFiniteSet(Taken({l}, S[i]))
      BY TakenIsFinite
    <3> QED
      BY <2>2, <2>4, <3>1
  <2>7. \A i, k \in 1 .. n : i # k => P[i] \cap P[k] = {}
    BY <2>4 DEF Taken
  <2>8. Cardinality(Joined(P, n)) = SumOf(f)
    BY <2>5, <2>6, <2>7, SumCounts
  <2>9. Joined(P, n) = Taken({l}, U)
    <3>1. \A x : x \in Joined(P, n) <=> \E i \in 1 .. n : x \in P[i]
      BY DEF Joined
    <3>2. \A x : x \in Taken({l}, U) <=> x \in 1 .. TotalPoints /\ Key(x, l) \in U /\ IsRoot(l, Key(x, l))
      BY DEF Taken
    <3>3. \A i \in 1 .. n : \A x : x \in P[i] <=> x \in 1 .. TotalPoints /\ Key(x, l) \in S[i] /\ IsRoot(l, Key(x, l))
      BY <2>4 DEF Taken
    <3> HIDE DEF U
    <3> QED
      BY <1>2, <3>1, <3>2, <3>3
  <2> QED
    BY <2>1, <2>8, <2>9
<1> HIDE DEF t, U
<1>8. PlanFor(t, {l}, U)
  <2>1. \A p \in 1 .. Len(t) : \E m \in {l} : \E c \in U :
          IsRoot(m, c) /\ \E j \in 1 .. Len(Pieces(m, c)) : t[p] = Pieces(m, c)[j]
    BY <1>4
  <2>2. \A m \in {l} : \A c \in U : IsRoot(m, c) => \E b \in Nat : FoundAt(t, Pieces(m, c), b)
    BY <1>5
  <2> QED
    BY <1>3, <1>6, <1>7, <2>1, <2>2 DEF PlanFor
<1> QED
  BY <1>8 DEF t, U

\* No root is above another.
LEMMA RootsApart ==
    ASSUME GivenOK, NEW l \in Levels, NEW m \in Levels, l < m,
           NEW c, NEW d, IsRoot(l, c), IsRoot(m, d)
    PROVE  Up(d, m - l) # c
<1>1. SUFFICES ASSUME Up(d, m - l) = c PROVE FALSE
  OBVIOUS
<1>2. /\ l \in Nat /\ m \in Nat /\ m <= GridDepth /\ m <= Span /\ GridDepth \in Nat /\ Span \in Nat
      /\ l # GridDepth /\ m # 0
  BY LevelsAre
<1> DEFINE k == (m - 1) - l
           u == Up(d, 1)
<1>3. k \in Nat /\ 1 + k = m - l /\ l + k = m - 1 /\ l + k <= Span
  BY <1>2
<1>4. d \in Cells
  <2>1. d \in Grid(m)
    BY DEF IsRoot
  <2> QED
    BY <1>2, <2>1, GridCells
<1>5. Up(u, k) = c
  <2>1. Up(Up(d, 1), k) = Up(d, 1 + k)
    BY <1>3, <1>4, UpIs
  <2> QED
    BY <1>1, <1>3, <2>1
<1> HIDE DEF k, u
<1>6. Population(u, l + k) <= Population(Up(u, k), l)
  BY <1>2, <1>3, PopulationUp
<1>7. Fits(c, l) /\ ~Fits(u, m - 1)
  BY <1>2 DEF IsRoot, u
<1>8. Population(u, m - 1) <= Population(c, l)
  BY <1>3, <1>5, <1>6
<1>9. ChunkTarget \in Nat /\ Population(u, m - 1) \in Nat /\ Population(c, l) \in Nat
  BY TargetIs, PopulationIs
<1> QED
  BY <1>7, <1>8, <1>9 DEF Fits

\* So a point is in one root at most.
LEMMA OneRoot ==
    ASSUME GivenOK, NEW i \in 1 .. TotalPoints, NEW l \in Levels, NEW m \in Levels, l < m,
           IsRoot(l, Key(i, l)), IsRoot(m, Key(i, m))
    PROVE  FALSE
<1>1. l \in Nat /\ m \in Nat /\ m <= Span /\ m - l \in Nat /\ l + (m - l) = m
  BY LevelsAre
<1>2. Up(Key(i, l + (m - l)), m - l) = Key(i, l)
  BY <1>1, KeyIs
<1>3. Up(Key(i, m), m - l) = Key(i, l)
  BY <1>1, <1>2
<1> QED
  BY <1>3, RootsApart

LEMMA PlanForAll ==
    ASSUME GivenOK, NEW l \in Levels, NEW list, PlanFor(list, {l}, Grid(l))
    PROVE  PlanFor(list, {l}, Cells)
<1>1. Grid(l) \subseteq Cells
  BY LevelsAre, GridCells
<1>2. \A c : IsRoot(l, c) => c \in Grid(l)
  BY DEF IsRoot
<1>3. Taken({l}, Cells) = Taken({l}, Grid(l))
  BY <1>1, <1>2 DEF Taken
<1>4. /\ list \in Seq(Chunk) /\ Distinct(list)
      /\ SumOf(Weights(list)) = Cardinality(Taken({l}, Cells))
  BY <1>3 DEF PlanFor
<1>5. \A p \in 1 .. Len(list) : \E m \in {l} : \E c \in Cells :
          IsRoot(m, c) /\ \E j \in 1 .. Len(Pieces(m, c)) : list[p] = Pieces(m, c)[j]
  BY <1>1 DEF PlanFor
<1>6. \A m \in {l} : \A c \in Cells : IsRoot(m, c) => \E b \in Nat : FoundAt(list, Pieces(m, c), b)
  BY <1>2 DEF PlanFor
<1> QED
  BY <1>4, <1>5, <1>6 DEF PlanFor

LEMMA NoPlan ==
    ASSUME GivenOK
    PROVE  PlanFor(<<>>, {}, Cells)
<1> DEFINE s == <<>>
<1>1. s \in Seq(Chunk) /\ Len(s) = 0 /\ Distinct(s) /\ SumOf(Weights(s)) = 0
  BY EmptySums
<1>2. Taken({}, Cells) = {}
  BY DEF Taken
<1>3. Cardinality(Taken({}, Cells)) = 0
  BY <1>2, FS_EmptySet
<1> HIDE DEF s
<1>4. PlanFor(s, {}, Cells)
  BY <1>1, <1>3 DEF PlanFor
<1> QED
  BY <1>4 DEF s

LEMMA FoundBehind ==
    ASSUME NEW T, NEW s \in Seq(T), NEW t \in Seq(T), NEW piece, NEW b \in Nat
    PROVE  /\ FoundAt(s, piece, b) => FoundAt(s \o t, piece, b)
           /\ FoundAt(t, piece, b) => FoundAt(s \o t, piece, Len(s) + b)
<1> DEFINE u == s \o t
<1>1. /\ u \in Seq(T) /\ Len(s) \in Nat /\ Len(t) \in Nat
      /\ Len(u) = Len(s) + Len(t)
      /\ \A j \in 1 .. Len(s) : u[j] = s[j]
      /\ \A j \in 1 .. Len(t) : u[Len(s) + j] = t[j]
  BY TwoLists
<1> HIDE DEF u
<1>2. ASSUME FoundAt(s, piece, b), NEW j \in 1 .. Len(piece)
      PROVE  b + j \in 1 .. Len(u) /\ u[b + j] = piece[j]
  <2>1. b + j \in 1 .. Len(s) /\ s[b + j] = piece[j]
    BY <1>2 DEF FoundAt
  <2>2. b + j \in 1 .. Len(u)
    BY <1>1, <2>1
  <2> QED
    BY <1>1, <2>1, <2>2
<1>3. ASSUME FoundAt(t, piece, b), NEW j \in 1 .. Len(piece)
      PROVE  (Len(s) + b) + j \in 1 .. Len(u) /\ u[(Len(s) + b) + j] = piece[j]
  <2>1. b + j \in 1 .. Len(t) /\ t[b + j] = piece[j]
    BY <1>3 DEF FoundAt
  <2>2. u[Len(s) + (b + j)] = t[b + j]
    BY <1>1, <2>1
  <2>3. Len(s) + (b + j) = (Len(s) + b) + j
    BY <1>1, <2>1
  <2>4. Len(s) + (b + j) \in 1 .. Len(u)
    BY <1>1, <2>1
  <2> QED
    BY <2>1, <2>2, <2>3, <2>4
<1> QED
  BY <1>2, <1>3 DEF FoundAt, u

LEMMA JoinDistinct ==
    ASSUME NEW T, NEW s \in Seq(T), NEW t \in Seq(T), Distinct(s), Distinct(t), Apart(s, t)
    PROVE  Distinct(s \o t)
<1> DEFINE u == s \o t
<1>1. /\ u \in Seq(T) /\ Len(s) \in Nat /\ Len(t) \in Nat
      /\ Len(u) = Len(s) + Len(t)
      /\ \A j \in 1 .. Len(s) : u[j] = s[j]
      /\ \A j \in 1 .. Len(t) : u[Len(s) + j] = t[j]
  BY TwoLists
<1> HIDE DEF u
<1>2. ASSUME NEW p \in 1 .. Len(u)
      PROVE  \/ p \in 1 .. Len(s) /\ u[p] = s[p]
             \/ p - Len(s) \in 1 .. Len(t) /\ u[p] = t[p - Len(s)]
  <2>1. CASE p <= Len(s)
    BY <1>1, <2>1
  <2>2. CASE ~(p <= Len(s))
    <3>1. p - Len(s) \in 1 .. Len(t) /\ Len(s) + (p - Len(s)) = p
      BY <1>1, <2>2
    <3>2. u[Len(s) + (p - Len(s))] = t[p - Len(s)]
      BY <1>1, <3>1
    <3> QED
      BY <3>1, <3>2
  <2> QED
    BY <2>1, <2>2
<1>3. ASSUME NEW p \in 1 .. Len(u), NEW q \in 1 .. Len(u), Voxel(u[p]) = Voxel(u[q])
      PROVE  p = q
  <2>1. \/ p \in 1 .. Len(s) /\ u[p] = s[p]
        \/ p - Len(s) \in 1 .. Len(t) /\ u[p] = t[p - Len(s)]
    BY <1>2
  <2>2. \/ q \in 1 .. Len(s) /\ u[q] = s[q]
        \/ q - Len(s) \in 1 .. Len(t) /\ u[q] = t[q - Len(s)]
    BY <1>2
  <2>3. CASE p \in 1 .. Len(s) /\ u[p] = s[p] /\ q \in 1 .. Len(s) /\ u[q] = s[q]
    BY <1>3, <2>3 DEF Distinct
  <2>4. CASE /\ p - Len(s) \in 1 .. Len(t) /\ u[p] = t[p - Len(s)]
             /\ q - Len(s) \in 1 .. Len(t) /\ u[q] = t[q - Len(s)]
    <3>1. p - Len(s) = q - Len(s)
      BY <1>3, <2>4 DEF Distinct
    <3> QED
      BY <1>1, <3>1
  <2>5. CASE p \in 1 .. Len(s) /\ u[p] = s[p] /\ q - Len(s) \in 1 .. Len(t) /\ u[q] = t[q - Len(s)]
    BY <1>3, <2>5 DEF Apart
  <2>6. CASE q \in 1 .. Len(s) /\ u[q] = s[q] /\ p - Len(s) \in 1 .. Len(t) /\ u[p] = t[p - Len(s)]
    BY <1>3, <2>6 DEF Apart
  <2> QED
    BY <2>1, <2>2, <2>3, <2>4, <2>5, <2>6
<1> QED
  BY <1>3 DEF Distinct, u

\* The level of a chunk is that of its root, or below the grid.
LEMMA ChunkLevel ==
    ASSUME GivenOK, NEW D \in SUBSET Levels, NEW S, NEW list, PlanFor(list, D, S),
           NEW p \in 1 .. Len(list)
    PROVE  list[p].level \in Nat
           /\ \E m \in D : m <= list[p].level /\ (m # GridDepth => list[p].level = m)
<1>1. PICK m \in D : \E c \in S :
          IsRoot(m, c) /\ \E j \in 1 .. Len(Pieces(m, c)) : list[p] = Pieces(m, c)[j]
  BY DEF PlanFor
<1>2. PICK c \in S : IsRoot(m, c) /\ \E j \in 1 .. Len(Pieces(m, c)) : list[p] = Pieces(m, c)[j]
  BY <1>1
<1>3. m \in Levels /\ c \in Grid(m)
  BY <1>2 DEF IsRoot
<1>4. PICK j \in 1 .. Len(Pieces(m, c)) : list[p] = Pieces(m, c)[j]
  BY <1>2
<1>5. PieceOf(Pieces(m, c)[j], m, c, Population(c, m))
  BY <1>3, PiecesAre
<1>6. PieceOf(list[p], m, c, Population(c, m))
  BY <1>4, <1>5
<1>7. m \in Nat /\ m <= GridDepth /\ GridDepth \in Nat
  BY <1>3, LevelsAre
<1> QED
  BY <1>6, <1>7 DEF PieceOf

LEMMA LevelsApart ==
    ASSUME GivenOK, NEW D \in SUBSET Levels, NEW l \in Levels, \A m \in D : l < m,
           NEW s, NEW t, PlanFor(s, D, Cells), PlanFor(t, {l}, Cells)
    PROVE  Apart(s, t)
<1>1. ASSUME NEW p \in 1 .. Len(s), NEW q \in 1 .. Len(t)
      PROVE  s[p].level # t[q].level
  <2> DEFINE F == {l}
  <2>1. s[p].level \in Nat /\ \E m \in D : m <= s[p].level
    BY ChunkLevel
  <2>2. F \in SUBSET Levels /\ PlanFor(t, F, Cells)
    OBVIOUS
  <2>3. \A m \in F : m = l
    OBVIOUS
  <2> HIDE DEF F
  <2>4. t[q].level \in Nat /\ \E m \in F : m <= t[q].level /\ (m # GridDepth => t[q].level = m)
    BY <2>2, ChunkLevel
  <2>5. PICK m \in D : m <= s[p].level
    BY <2>1
  <2>6. m \in Levels /\ l < m
    OBVIOUS
  <2>7. l \in Nat /\ m \in Nat /\ m <= GridDepth /\ GridDepth \in Nat
    BY <2>6, LevelsAre
  <2>8. t[q].level = l
    BY <2>3, <2>4, <2>6, <2>7
  <2> QED
    BY <2>1, <2>5, <2>6, <2>7, <2>8
<1> QED
  BY <1>1 DEF Apart, Voxel

\* One more level, above those already planned.
LEMMA PlanJoin ==
    ASSUME GivenOK, NEW D \in SUBSET Levels, NEW l \in Levels, \A m \in D : l < m,
           NEW s, NEW t, PlanFor(s, D, Cells), PlanFor(t, {l}, Cells)
    PROVE  PlanFor(s \o t, D \cup {l}, Cells)
<1> DEFINE u == s \o t
           E == D \cup {l}
<1>1. s \in Seq(Chunk) /\ t \in Seq(Chunk)
  BY DEF PlanFor
<1>2. /\ u \in Seq(Chunk) /\ Len(s) \in Nat /\ Len(t) \in Nat
      /\ Len(u) = Len(s) + Len(t)
      /\ \A j \in 1 .. Len(s) : u[j] = s[j]
      /\ \A j \in 1 .. Len(t) : u[Len(s) + j] = t[j]
  BY <1>1, TwoLists
<1>3. ASSUME NEW p \in 1 .. Len(u)
      PROVE  \E m \in E : \E c \in Cells :
               IsRoot(m, c) /\ \E j \in 1 .. Len(Pieces(m, c)) : u[p] = Pieces(m, c)[j]
  <2> HIDE DEF u
  <2>1. CASE p <= Len(s)
    <3>1. p \in 1 .. Len(s) /\ u[p] = s[p]
      BY <1>2, <2>1
    <3>2. \E m \in D : \E c \in Cells :
               IsRoot(m, c) /\ \E j \in 1 .. Len(Pieces(m, c)) : s[p] = Pieces(m, c)[j]
      BY <3>1 DEF PlanFor
    <3> QED
      BY <3>1, <3>2
  <2>2. CASE ~(p <= Len(s))
    <3>1. p - Len(s) \in 1 .. Len(t) /\ Len(s) + (p - Len(s)) = p
      BY <1>2, <2>2
    <3>2. u[Len(s) + (p - Len(s))] = t[p - Len(s)]
      BY <1>2, <3>1
    <3>3. \E m \in {l} : \E c \in Cells :
               IsRoot(m, c) /\ \E j \in 1 .. Len(Pieces(m, c)) : t[p - Len(s)] = Pieces(m, c)[j]
      BY <3>1 DEF PlanFor
    <3> QED
      BY <3>1, <3>2, <3>3
  <2> QED
    BY <2>1, <2>2
<1>4. ASSUME NEW m \in E, NEW c \in Cells, IsRoot(m, c)
      PROVE  \E b \in Nat : FoundAt(u, Pieces(m, c), b)
  <2> DEFINE x == Pieces(m, c)
  <2>1. CASE m \in D
    <3>1. PICK b \in Nat : FoundAt(s, x, b)
      BY <1>4, <2>1 DEF PlanFor
    <3> HIDE DEF x
    <3>2. FoundAt(u, x, b)
      BY <1>1, <3>1, FoundBehind
    <3> QED
      BY <3>2 DEF x
  <2>2. CASE m = l
    <3>1. PICK b \in Nat : FoundAt(t, x, b)
      BY <1>4, <2>2 DEF PlanFor
    <3> HIDE DEF x
    <3>2. FoundAt(u, x, Len(s) + b)
      BY <1>1, <3>1, FoundBehind
    <3>3. Len(s) + b \in Nat
      BY <1>2
    <3> QED
      BY <3>2, <3>3 DEF x
  <2> QED
    BY <2>1, <2>2
<1>5. Distinct(u)
  <2>1. Distinct(s) /\ Distinct(t)
    BY DEF PlanFor
  <2>2. Apart(s, t)
    BY LevelsApart
  <2> QED
    BY <1>1, <2>1, <2>2, JoinDistinct
<1>6. SumOf(Weights(u)) = Cardinality(Taken(E, Cells))
  <2>1. SumOf(Weights(u)) = SumOf(Weights(s)) + SumOf(Weights(t))
    BY <1>1, ChunkWeighs, WeightsJoin
  <2> DEFINE A == Taken(D, Cells)
             B == Taken({l}, Cells)
  <2>2. SumOf(Weights(s)) = Cardinality(A) /\ SumOf(Weights(t)) = Cardinality(B)
    BY DEF PlanFor
  <2>3. A \cap B = {}
    <3>1. SUFFICES ASSUME NEW i \in A, i \in B PROVE FALSE
      OBVIOUS
    <3>2. i \in 1 .. TotalPoints /\ IsRoot(l, Key(i, l))
      BY <3>1 DEF Taken
    <3>3. PICK m \in D : IsRoot(m, Key(i, m))
      BY <3>1 DEF Taken
    <3>4. m \in Levels /\ l < m
      BY <3>3
    <3> QED
      BY <3>2, <3>3, <3>4, OneRoot
  <2>4. Taken(E, Cells) = A \cup B
    BY DEF Taken
  <2>5. IsFiniteSet(A) /\ Cardinality(A) \in Nat
    BY TakenIsFinite
  <2>6. IsFiniteSet(B) /\ Cardinality(B) \in Nat
    BY TakenIsFinite
  <2> HIDE DEF A, B
  <2>7. Cardinality(A \cup B) = Cardinality(A) + Cardinality(B) - Cardinality(A \cap B)
    BY <2>5, <2>6, FS_Union
  <2>8. Cardinality(A \cap B) = 0
    BY <2>3, FS_EmptySet
  <2>9. Cardinality(A \cup B) = Cardinality(A) + Cardinality(B)
    <3> DEFINE a == Cardinality(A)
               b == Cardinality(B)
               c == Cardinality(A \cap B)
    <3>1. a \in Nat /\ b \in Nat /\ c = 0 /\ Cardinality(A \cup B) = a + b - c
      BY <2>5, <2>6, <2>7, <2>8
    <3> HIDE DEF a, b, c
    <3>2. Cardinality(A \cup B) = a + b
      BY <3>1
    <3> QED
      BY <3>2 DEF a, b
  <2>10. SumOf(Weights(u)) = Cardinality(A) + Cardinality(B)
    BY <2>1, <2>2
  <2> QED
    BY <2>4, <2>9, <2>10
<1> HIDE DEF u
<1>7. PlanFor(u, E, Cells)
  <2> HIDE DEF E
  <2> QED
    BY <1>2, <1>3, <1>4, <1>5, <1>6 DEF PlanFor
<1> QED
  BY <1>7 DEF u

(***************************************************************************)
(* A step of the merge                                                     *)
(***************************************************************************)
\* What the code decides by the merged counts is what the populations say.
LEMMA RootPiecesIs ==
    ASSUME GivenOK, level \in 1 .. GridDepth, pops = PopsOf(level),
           NEW parent \in Grid(level - 1), NEW cell \in Grid(level), Up(cell, 1) = parent
    PROVE  (IF Blocked(parent) /\ pops[cell] > 0 THEN EmitChunkRoot(level, cell, pops[cell])
            ELSE <<>>) = RootPieces(level, cell)
<1>1. Blocked(parent) <=> ~Fits(parent, level - 1)
  BY BlockedIs
<1>2. pops[cell] = IF level = GridDepth \/ Fits(cell, level) THEN Population(cell, level) ELSE Sentinel
  BY DEF PopsOf
<1>3. level # 0
  BY GridDepthIs
<1>4. IsRoot(level, cell) <=>
        /\ Population(cell, level) > 0
        /\ level = GridDepth \/ Fits(cell, level)
        /\ ~Fits(parent, level - 1)
  BY <1>3 DEF IsRoot
<1>5. ~(Sentinel > 0)
  BY DEF Sentinel
<1>6. Blocked(parent) /\ pops[cell] > 0 <=> IsRoot(level, cell)
  BY <1>1, <1>2, <1>4, <1>5
<1>7. IsRoot(level, cell) => pops[cell] = Population(cell, level)
  BY <1>2, <1>4
<1>8. CASE IsRoot(level, cell)
  BY <1>6, <1>7, <1>8 DEF RootPieces, Pieces
<1>9. CASE ~IsRoot(level, cell)
  BY <1>6, <1>9 DEF RootPieces
<1> QED
  BY <1>8, <1>9

\* The voxels of a level that are in a parent.
Under(l, parent) == {c \in Grid(l) : Up(c, 1) = parent}

LEMMA UnderPlan ==
    ASSUME GivenOK, level \in 1 .. GridDepth, pops = PopsOf(level), NEW parent \in Grid(level - 1)
    PROVE  PlanFor(ChunksUnder(parent), {level}, Under(level, parent))
<1> DEFINE n == Parts(1)
           S == [i \in 1 .. n |-> {Child(parent, i)}]
           ss == [i \in 1 .. n |-> RootPieces(level, Child(parent, i))]
<1>1. n \in Nat /\ level \in Nat /\ level - 1 \in Nat /\ (level - 1) + 1 = level /\ level \in Levels
  BY TwoPowers, GridDepthIs DEF Levels
<1>2. \A i \in 1 .. n : Child(parent, i) \in Grid(level) /\ Up(Child(parent, i), 1) = parent
  BY <1>1, ChildIs
<1>3. parent \in Cells /\ Grid(level) \subseteq Cells
  BY <1>1, GridCells
<1>4. \A i, k \in 1 .. n : Child(parent, i) = Child(parent, k) => i = k
  BY <1>3, ChildDistinct
<1>5. \A c \in Grid(level) : \E i \in 1 .. n : c = Child(Up(c, 1), i)
  BY <1>3, ChildAll
<1>6. ChunksUnder(parent) = Concat(ss)
  <2>1. ASSUME NEW i \in 1 .. n
        PROVE  (LET cell == Child(parent, i)
                IN  IF Blocked(parent) /\ pops[cell] > 0
                    THEN EmitChunkRoot(level, cell, pops[cell]) ELSE <<>>)
               = RootPieces(level, Child(parent, i))
    BY <1>2, RootPiecesIs
  <2>2. [i \in 1 .. n |-> LET cell == Child(parent, i)
                          IN  IF Blocked(parent) /\ pops[cell] > 0
                              THEN EmitChunkRoot(level, cell, pops[cell]) ELSE <<>>] = ss
    BY <2>1, Zenon
  <2> QED
    BY <2>2, Zenon DEF ChunksUnder
<1>7. ASSUME NEW i \in 1 .. n PROVE PlanFor(ss[i], {level}, S[i])
  <2> DEFINE c == Child(parent, i)
  <2>1. c \in Grid(level)
    BY <1>2
  <2>2. ss[i] = RootPieces(level, c) /\ S[i] = {c}
    OBVIOUS
  <2> HIDE DEF c, ss, S
  <2>3. PlanFor(RootPieces(level, c), {level}, {c})
    BY <1>1, <2>1, PlanForVoxel
  <2> QED
    BY <2>2, <2>3
<1>8. S \in [1 .. n -> SUBSET Grid(level)]
  BY <1>2
<1>9. \A i, k \in 1 .. n : i # k => S[i] \cap S[k] = {}
  BY <1>4
<1>10. DOMAIN ss = 1 .. n /\ ss = [i \in 1 .. n |-> ss[i]]
  OBVIOUS
<1>11. Joined(S, n) = Under(level, parent)
  <2>1. \A x : x \in Joined(S, n) <=> \E i \in 1 .. n : x \in S[i]
    BY DEF Joined
  <2>2. \A x : x \in Under(level, parent) <=> x \in Grid(level) /\ Up(x, 1) = parent
    BY DEF Under
  <2>3. \A i \in 1 .. n : \A x : x \in S[i] <=> x = Child(parent, i)
    OBVIOUS
  <2> HIDE DEF S, n
  <2>4. ASSUME NEW x \in Under(level, parent) PROVE x \in Joined(S, n)
    <3>1. x \in Grid(level) /\ Up(x, 1) = parent
      BY <2>2
    <3>2. PICK i \in 1 .. n : x = Child(Up(x, 1), i)
      BY <1>5, <3>1
    <3> QED
      BY <2>1, <2>3, <3>1, <3>2
  <2>5. ASSUME NEW x \in Joined(S, n) PROVE x \in Under(level, parent)
    BY <1>2, <2>1, <2>2, <2>3
  <2> QED
    BY <2>4, <2>5
<1> HIDE DEF ss, S, n
<1>12. PlanFor(Concat(ss), {level}, Joined(S, n))
  BY <1>1, <1>7, <1>8, <1>9, <1>10, PlansConcat
<1> QED
  BY <1>6, <1>11, <1>12

\* What a step adds is the plan of its level.
LEMMA LevelPlan ==
    ASSUME GivenOK, level \in 1 .. GridDepth, pops = PopsOf(level)
    PROVE  PlanFor(Concat([i \in 1 .. Parts(level - 1) |-> ChunksUnder(Below(Root, level - 1, i - 1))]),
                   {level}, Cells)
<1> DEFINE n == Parts(level - 1)
           P(i) == Below(Root, level - 1, i - 1)
           S == [i \in 1 .. n |-> Under(level, P(i))]
           ss == [i \in 1 .. n |-> ChunksUnder(P(i))]
<1>1. n \in Nat /\ level \in Nat /\ level - 1 \in Nat /\ (level - 1) + 1 = level /\ level \in Levels
  BY TwoPowers, GridDepthIs DEF Levels
<1>2. \A i \in 1 .. n : P(i) \in Grid(level - 1)
  BY <1>1, GridPlace
<1>3. \A i, k \in 1 .. n : P(i) = P(k) => i = k
  BY <1>1, GridPlaceDistinct
<1>4. \A c \in Grid(level - 1) : \E i \in 1 .. n : c = P(i)
  BY <1>1, GridInOrder
<1>5. \A c \in Grid(level) : Up(c, 1) \in Grid(level - 1)
  <2>1. ASSUME NEW c \in Grid(level) PROVE Up(c, 1) \in Grid(level - 1)
    <3>1. c \in Cells
      BY <1>1, GridCells
    <3>2. Up(c, 1) \in Grid(level - 1) <=> c \in Grid((level - 1) + 1)
      BY <1>1, <3>1, GridUp
    <3> QED
      BY <1>1, <3>2
  <2> QED
    BY <2>1
<1>6. ASSUME NEW i \in 1 .. n PROVE PlanFor(ss[i], {level}, S[i])
  <2> DEFINE c == P(i)
  <2>1. c \in Grid(level - 1)
    BY <1>2
  <2>2. ss[i] = ChunksUnder(c) /\ S[i] = Under(level, c)
    OBVIOUS
  <2> HIDE DEF c, ss, S
  <2>3. PlanFor(ChunksUnder(c), {level}, Under(level, c))
    BY <2>1, UnderPlan
  <2> QED
    BY <2>2, <2>3
<1>7. S \in [1 .. n -> SUBSET Grid(level)]
  BY DEF Under
<1>8. \A i, k \in 1 .. n : i # k => S[i] \cap S[k] = {}
  BY <1>3 DEF Under
<1>9. DOMAIN ss = 1 .. n /\ ss = [i \in 1 .. n |-> ss[i]]
  OBVIOUS
<1>10. Joined(S, n) = Grid(level)
  <2>1. \A x : x \in Joined(S, n) <=> \E i \in 1 .. n : x \in S[i]
    BY DEF Joined
  <2>2. \A i \in 1 .. n : \A x : x \in S[i] <=> x \in Grid(level) /\ Up(x, 1) = P(i)
    BY DEF Under
  <2> HIDE DEF S, n, P
  <2> QED
    BY <1>4, <1>5, <2>1, <2>2
<1>11. Concat([i \in 1 .. Parts(level - 1) |-> ChunksUnder(Below(Root, level - 1, i - 1))]) = Concat(ss)
  OBVIOUS
<1> HIDE DEF ss, S, n
<1>12. PlanFor(Concat(ss), {level}, Joined(S, n))
  BY <1>1, <1>6, <1>7, <1>8, <1>9, PlansConcat
<1> DEFINE t == Concat(ss)
<1>13. PlanFor(t, {level}, Grid(level))
  BY <1>10, <1>12
<1> HIDE DEF t
<1>14. PlanFor(t, {level}, Cells)
  BY <1>1, <1>13, PlanForAll
<1> QED
  BY <1>11, <1>14 DEF t

LEMMA RootPlan ==
    ASSUME GivenOK, level = 0, pops = PopsOf(0), NEW list \in Seq(Chunk)
    PROVE  /\ PlanFor(RootPieces(0, Root), {0}, Cells)
           /\ (IF pops[Root] > 0 THEN list \o EmitChunkRoot(0, Root, pops[Root]) ELSE list)
              = list \o RootPieces(0, Root)
<1>1. Root \in Grid(0) /\ \A c \in Grid(0) : c = Root
  BY GridOfRoot
<1>2. 0 \in Levels /\ 0 # GridDepth
  BY GridDepthIs DEF Levels
<1>3. Grid(0) = {Root}
  BY <1>1
<1> DEFINE t == RootPieces(0, Root)
           l == 0
<1>4. PlanFor(RootPieces(0, Root), {0}, {Root})
  BY <1>1, <1>2, PlanForVoxel
<1>5. PlanFor(t, {l}, Grid(l)) /\ l \in Levels
  BY <1>2, <1>3, <1>4
<1>6. PlanFor(t, {0}, Cells)
  <2> HIDE DEF t, l
  <2>1. PlanFor(t, {l}, Cells)
    BY <1>5, PlanForAll
  <2> QED
    BY <2>1 DEF l
<1>7. pops[Root] = IF Fits(Root, 0) THEN Population(Root, 0) ELSE Sentinel
  BY <1>1, <1>2 DEF PopsOf
<1>8. IsRoot(0, Root) <=> Population(Root, 0) > 0 /\ Fits(Root, 0)
  BY <1>1, <1>2 DEF IsRoot
<1>9. ~(Sentinel > 0)
  BY DEF Sentinel
<1>10. pops[Root] > 0 <=> IsRoot(0, Root)
  BY <1>7, <1>8, <1>9
<1>11. CASE IsRoot(0, Root)
  <2>1. pops[Root] = Population(Root, 0)
    BY <1>7, <1>8, <1>11
  <2>2. t = EmitChunkRoot(0, Root, pops[Root])
    BY <1>11, <2>1 DEF RootPieces, Pieces
  <2> HIDE DEF t
  <2> QED
    BY <1>6, <1>10, <1>11, <2>2 DEF t
<1>12. CASE ~IsRoot(0, Root)
  <2>1. t = <<>>
    BY <1>12 DEF RootPieces
  <2>2. list \o <<>> = list
    BY ConcatEmptySeq
  <2> QED
    BY <1>6, <1>10, <1>12, <2>1, <2>2
<1> QED
  BY <1>11, <1>12

(***************************************************************************)
(* The inductive invariant                                                 *)
(***************************************************************************)
\* While the levels are merged the counts are those of the populations, and
\* the chunks so far are the plan of the levels below; it needs no more of
\* the counting than what it is left with.
PlanInv ==
    /\ phase \in {"counting", "merging", "planned", "failed"}
    /\ level \in 0 .. GridDepth
    /\ DOMAIN pops = Grid(level)
    /\ phase = "counting" => level = GridDepth /\ chunks = <<>>
    /\ phase \in {"merging", "planned"} => BoundsOf(actual, 1 .. TotalPoints)
    /\ phase = "merging" /\ ~Wrapped =>
         pops = PopsOf(level) /\ PlanFor(chunks, level + 1 .. GridDepth, Cells)
    /\ phase = "planned" /\ ~Wrapped => PlanFor(chunks, Levels, Cells)

IInv == GivenOK /\ CountInv /\ PlanInv

LEMMA RootsStay ==
    ASSUME UNCHANGED given
    PROVE  /\ \A l, c : IsRoot(l, c)' = IsRoot(l, c)
           /\ \A l, c : Pieces(l, c)' = Pieces(l, c)
           /\ \A l : PopsOf(l)' = PopsOf(l)
           /\ Levels' = Levels
<1>1. /\ TotalPoints' = TotalPoints /\ GridDepth' = GridDepth /\ ChunkTarget' = ChunkTarget
      /\ \A c, l : Population(c, l)' = Population(c, l)
  BY GivenStays
<1>2. \A l, c : Fits(c, l)' = Fits(c, l)
  BY <1>1 DEF Fits
<1>3. \A l, c : IsRoot(l, c)' = IsRoot(l, c)
  BY <1>1, <1>2 DEF IsRoot
<1>4. \A pop : SplitExtraLevels(pop)' = SplitExtraLevels(pop)
  BY <1>1 DEF SplitExtraLevels
<1>5. \A l, c, pop : EmitChunkRoot(l, c, pop)' = EmitChunkRoot(l, c, pop)
  <2>1. ASSUME NEW l, NEW c, NEW pop PROVE EmitChunkRoot(l, c, pop)' = EmitChunkRoot(l, c, pop)
    BY <1>1, <1>4, Zenon DEF EmitChunkRoot
  <2> QED
    BY <2>1
<1>6. \A l, c : Pieces(l, c)' = Pieces(l, c)
  BY <1>1, <1>5 DEF Pieces
<1>7. \A l : PopsOf(l)' = PopsOf(l)
  BY <1>1, <1>2 DEF PopsOf
<1> QED
  BY <1>1, <1>3, <1>6, <1>7 DEF Levels

LEMMA BoundsStay ==
    ASSUME UNCHANGED given
    PROVE  BoundsOf(actual, 1 .. TotalPoints)' <=> BoundsOf(actual', 1 .. TotalPoints)
<1>1. TotalPoints' = TotalPoints /\ AllPoints' = AllPoints
  BY GivenStays
<1>2. \A i, a : Coordinate(i, a)' = Coordinate(i, a)
  BY <1>1 DEF Coordinate
<1> QED
  BY <1>1, <1>2 DEF BoundsOf

LEMMA PlanStays ==
    ASSUME UNCHANGED given
    PROVE  \A list, D : PlanFor(list, D, Cells)' = PlanFor(list, D, Cells)
<1>1. /\ \A l, c : IsRoot(l, c)' = IsRoot(l, c)
      /\ \A l, c : Pieces(l, c)' = Pieces(l, c)
  BY RootsStay
<1>2. TotalPoints' = TotalPoints /\ \A i, l : Key(i, l)' = Key(i, l)
  BY GivenStays
<1>3. \A D : Taken(D, Cells)' = Taken(D, Cells)
  BY <1>1, <1>2 DEF Taken
<1> QED
  BY <1>1, <1>3 DEF PlanFor

LEMMA CountPlan ==
    ASSUME GivenOK, ~Wrapped
    PROVE  /\ [c \in Grid(GridDepth) |-> Population(c, GridDepth)] = PopsOf(GridDepth)
           /\ PlanFor(<<>>, GridDepth + 1 .. GridDepth, Cells)
<1>1. GridDepth \in Nat
  BY GridDepthIs
<1>2. GridDepth + 1 .. GridDepth = {}
  BY <1>1
<1>3. PlanFor(<<>>, GridDepth + 1 .. GridDepth, Cells)
  BY <1>2, NoPlan
<1> QED
  BY <1>3 DEF PopsOf

LEMMA PlanInit ==
    ASSUME Init
    PROVE  IInv
<1>1. GivenOK /\ CountInv
  BY CountInit
<1>2. GridDepth \in Nat
  BY <1>1, GridDepthIs
<1>3. /\ phase = "counting" /\ level = GridDepth /\ chunks = <<>>
      /\ pops = [cell \in Grid(GridDepth) |-> 0]
  BY DEF Init
<1>4. PlanInv
  BY <1>2, <1>3 DEF PlanInv
<1> QED
  BY <1>1, <1>4 DEF IInv

LEMMA EndCountPlans ==
    ASSUME IInv, EndCount
    PROVE  PlanInv'
<1>1. GivenOK /\ CountInv /\ PlanInv
  BY DEF IInv
<1>2. /\ phase = "counting" /\ phase' = "merging" /\ UNCHANGED given
      /\ actual' = FoldedBounds /\ pops' = grid /\ UNCHANGED level /\ UNCHANGED chunks
      /\ \A w \in Workers : Edge(w) + counted[w] = Edge(w + 1)
  BY DEF EndCount
<1>3. /\ TotalPoints' = TotalPoints /\ GridDepth' = GridDepth /\ Wrapped' = Wrapped
  BY <1>2, GivenStays
<1>4. /\ BoundsOf(FoldedBounds, 1 .. TotalPoints)
      /\ ~Wrapped => grid = [c \in Grid(GridDepth) |-> Population(c, GridDepth)]
  BY <1>1, <1>2, AllCounted
<1>5. level = GridDepth /\ chunks = <<>> /\ GridDepth \in Nat /\ level \in 0 .. GridDepth
  BY <1>1, <1>2, GridDepthIs DEF PlanInv
<1>6. DOMAIN grid = Grid(GridDepth)
  BY <1>1 DEF CountInv
<1>7. (\A l : PopsOf(l)' = PopsOf(l)) /\ \A list, D : PlanFor(list, D, Cells)' = PlanFor(list, D, Cells)
  BY <1>2, RootsStay, PlanStays
<1>8. BoundsOf(actual, 1 .. TotalPoints)'
  BY <1>2, <1>4, BoundsStay
<1>9. ASSUME ~Wrapped
      PROVE  (pops = PopsOf(level))' /\ PlanFor(chunks, level + 1 .. GridDepth, Cells)'
  <2>1. pops' = PopsOf(GridDepth)
    BY <1>1, <1>2, <1>4, <1>9, CountPlan
  <2>2. PlanFor(<<>>, GridDepth + 1 .. GridDepth, Cells)
    BY <1>1, <1>9, CountPlan
  <2> QED
    BY <1>2, <1>3, <1>5, <1>7, <2>1, <2>2
<1> QED
  BY <1>2, <1>3, <1>5, <1>6, <1>8, <1>9 DEF PlanInv

LEMMA MergeLevelPlans ==
    ASSUME IInv, MergeLevel
    PROVE  PlanInv'
<1>1. GivenOK /\ PlanInv
  BY DEF IInv
<1> DEFINE t == Concat([i \in 1 .. Parts(level - 1) |-> ChunksUnder(Below(Root, level - 1, i - 1))])
<1>2. /\ phase = "merging" /\ level > 0 /\ UNCHANGED given
      /\ chunks' = chunks \o t /\ pops' = Merged /\ level' = level - 1
      /\ UNCHANGED actual /\ UNCHANGED phase
  BY DEF MergeLevel
<1>3. /\ TotalPoints' = TotalPoints /\ GridDepth' = GridDepth /\ Wrapped' = Wrapped
  BY <1>2, GivenStays
<1>4. GridDepth \in Nat /\ level \in 0 .. GridDepth
  BY <1>1, GridDepthIs DEF PlanInv
<1>5. level \in 1 .. GridDepth /\ level' \in 0 .. GridDepth /\ level \in Levels
  BY <1>2, <1>4 DEF Levels
<1>6. DOMAIN pops' = Grid(level - 1)
  BY <1>2 DEF Merged
<1>7. (\A l : PopsOf(l)' = PopsOf(l)) /\ \A list, D : PlanFor(list, D, Cells)' = PlanFor(list, D, Cells)
  BY <1>2, RootsStay, PlanStays
<1>8. BoundsOf(actual, 1 .. TotalPoints)'
  BY <1>1, <1>2, BoundsStay DEF PlanInv
<1>9. ASSUME ~Wrapped
      PROVE  (pops = PopsOf(level))' /\ PlanFor(chunks, level + 1 .. GridDepth, Cells)'
  <2>1. pops = PopsOf(level) /\ PlanFor(chunks, level + 1 .. GridDepth, Cells)
    BY <1>1, <1>2, <1>9 DEF PlanInv
  <2>2. pops' = PopsOf(level - 1)
    BY <1>1, <1>2, <1>5, <2>1, MergedIs
  <2>3. PlanFor(t, {level}, Cells)
    BY <1>1, <1>5, <2>1, LevelPlan
  <2> DEFINE D == level + 1 .. GridDepth
             E == level' + 1 .. GridDepth
  <2>4. D \in SUBSET Levels /\ (\A m \in D : level < m) /\ D \cup {level} = E
    BY <1>2, <1>4, <1>5 DEF Levels
  <2>5. PlanFor(chunks, D, Cells)
    BY <2>1
  <2> HIDE DEF t, D, E
  <2>6. PlanFor(chunks \o t, D \cup {level}, Cells)
    BY <1>1, <1>5, <2>3, <2>4, <2>5, PlanJoin
  <2>7. PlanFor(chunks', E, Cells)
    BY <1>2, <2>4, <2>6
  <2> QED
    BY <1>2, <1>3, <1>7, <2>2, <2>7 DEF E
<1> QED
  BY <1>2, <1>3, <1>5, <1>6, <1>8, <1>9 DEF PlanInv

LEMMA EndMergePlans ==
    ASSUME IInv, EndMerge
    PROVE  PlanInv'
<1>1. GivenOK /\ PlanInv
  BY DEF IInv
<1> DEFINE t == RootPieces(0, Root)
<1>2. /\ phase = "merging" /\ level = 0 /\ UNCHANGED given /\ phase' = "planned"
      /\ chunks' = IF pops[Root] > 0 THEN chunks \o EmitChunkRoot(0, Root, pops[Root]) ELSE chunks
      /\ UNCHANGED actual /\ UNCHANGED level /\ UNCHANGED pops
  BY DEF EndMerge
<1>3. /\ TotalPoints' = TotalPoints /\ GridDepth' = GridDepth /\ Wrapped' = Wrapped
  BY <1>2, GivenStays
<1>4. GridDepth \in Nat /\ level \in 0 .. GridDepth /\ DOMAIN pops = Grid(level)
  BY <1>1, GridDepthIs DEF PlanInv
<1>5. \A list, D : PlanFor(list, D, Cells)' = PlanFor(list, D, Cells)
  BY <1>2, PlanStays
<1>6. BoundsOf(actual, 1 .. TotalPoints)'
  BY <1>1, <1>2, BoundsStay DEF PlanInv
<1>7. ASSUME ~Wrapped
      PROVE  PlanFor(chunks, Levels, Cells)'
  <2>1. pops = PopsOf(0) /\ PlanFor(chunks, 1 .. GridDepth, Cells)
    BY <1>1, <1>2, <1>7 DEF PlanInv
  <2> DEFINE D == 1 .. GridDepth
             l == 0
  <2>2. D \in SUBSET Levels /\ (\A m \in D : l < m) /\ D \cup {l} = Levels /\ l \in Levels
    BY <1>4 DEF Levels
  <2>3. chunks \in Seq(Chunk)
    BY <2>1 DEF PlanFor
  <2>4. PlanFor(t, {l}, Cells) /\ chunks' = chunks \o t
    BY <1>1, <1>2, <2>1, <2>3, RootPlan
  <2>5. PlanFor(chunks, D, Cells)
    BY <2>1
  <2> HIDE DEF t, D, l
  <2>6. PlanFor(chunks \o t, D \cup {l}, Cells)
    BY <1>1, <2>2, <2>4, <2>5, PlanJoin
  <2>7. PlanFor(chunks', Levels, Cells)
    BY <2>2, <2>4, <2>6
  <2>8. Levels' = Levels
    BY <1>3 DEF Levels
  <2> QED
    BY <1>5, <2>7, <2>8
<1> QED
  BY <1>2, <1>3, <1>4, <1>6, <1>7 DEF PlanInv

\* In the other steps the plan is as it was, or given up.
LEMMA OthersPlan ==
    ASSUME IInv, UNCHANGED <<given, actual, level, pops, chunks>>, UNCHANGED phase \/ phase' = "failed"
    PROVE  PlanInv'
<1>1. GivenOK /\ PlanInv
  BY DEF IInv
<1>2. /\ TotalPoints' = TotalPoints /\ GridDepth' = GridDepth /\ Wrapped' = Wrapped
  BY GivenStays
<1>3. /\ \A list, D : PlanFor(list, D, Cells)' = PlanFor(list, D, Cells)
      /\ \A l : PopsOf(l)' = PopsOf(l)
      /\ Levels' = Levels
  BY RootsStay, PlanStays
<1>4. PlanFor(chunks, Levels, Cells)' = PlanFor(chunks, Levels, Cells)
  BY <1>3
<1>5. PlanFor(chunks, level + 1 .. GridDepth, Cells)' = PlanFor(chunks, level + 1 .. GridDepth, Cells)
  BY <1>2, <1>3
<1>6. (pops = PopsOf(level))' = (pops = PopsOf(level))
  BY <1>3
<1>7. BoundsOf(actual, 1 .. TotalPoints)' <=> BoundsOf(actual, 1 .. TotalPoints)
  BY BoundsStay
<1> QED
  BY <1>1, <1>2, <1>4, <1>5, <1>6, <1>7 DEF PlanInv

LEMMA PlanKept ==
    ASSUME IInv, [Next]_vars
    PROVE  IInv'
<1>1. GivenOK /\ CountInv
  BY DEF IInv
<1>2. GivenOK'
  <2>1. UNCHANGED given
    BY DEF Next, vars, CountPoint, CountFails, EndCount, MergeLevel, EndMerge, Returned
  <2> QED
    BY <1>1, <2>1, GivenStays
<1>3. ASSUME NEW w \in Workers, CountPoint(w) PROVE CountInv' /\ PlanInv'
  <2>1. CountInv'
    BY <1>1, <1>3, CountPointKeeps
  <2>2. UNCHANGED <<given, actual, level, pops, chunks>> /\ UNCHANGED phase
    BY <1>3 DEF CountPoint
  <2> QED
    BY <2>1, <2>2, OthersPlan
<1>4. ASSUME CountFails PROVE CountInv' /\ PlanInv'
  <2>1. /\ UNCHANGED <<given, actual, level, pops, chunks>> /\ phase' = "failed"
        /\ UNCHANGED <<given, counted, local, grid>>
    BY <1>4 DEF CountFails
  <2> QED
    BY <1>1, <2>1, OthersPlan, CountStays
<1>5. ASSUME EndCount PROVE CountInv' /\ PlanInv'
  <2>1. UNCHANGED <<given, counted, local, grid>>
    BY <1>5 DEF EndCount
  <2> QED
    BY <1>1, <1>5, <2>1, EndCountPlans, CountStays
<1>6. ASSUME MergeLevel PROVE CountInv' /\ PlanInv'
  <2>1. UNCHANGED <<given, counted, local, grid>>
    BY <1>6 DEF MergeLevel
  <2> QED
    BY <1>1, <1>6, <2>1, MergeLevelPlans, CountStays
<1>7. ASSUME EndMerge PROVE CountInv' /\ PlanInv'
  <2>1. UNCHANGED <<given, counted, local, grid>>
    BY <1>7 DEF EndMerge
  <2> QED
    BY <1>1, <1>7, <2>1, EndMergePlans, CountStays
<1>8. ASSUME UNCHANGED vars PROVE CountInv' /\ PlanInv'
  <2>1. /\ UNCHANGED <<given, actual, level, pops, chunks>> /\ UNCHANGED phase
        /\ UNCHANGED <<given, counted, local, grid>>
    BY <1>8 DEF vars
  <2> QED
    BY <1>1, <2>1, OthersPlan, CountStays
<1>9. CountInv' /\ PlanInv'
  BY <1>3, <1>4, <1>5, <1>6, <1>7, <1>8 DEF Next, Returned
<1> QED
  BY <1>2, <1>9 DEF IInv

\* What the other theorems rest on: the counters hold what was counted, and
\* the chunks are the plan of the levels that are merged.
THEOREM PlannerInvariant == Spec => []IInv
<1>1. Init => IInv
  BY PlanInit
<1>2. IInv /\ [Next]_vars => IInv'
  BY PlanKept
<1> QED
  BY <1>1, <1>2, PTL DEF Spec

(***************************************************************************)
(* What follows                                                            *)
(***************************************************************************)
LEMMA InvariantIsTyped ==
    ASSUME IInv
    PROVE  TypeOK
<1>1. GivenOK /\ CountInv /\ PlanInv
  BY DEF IInv
<1>2. NumWorkers \in Nat \ {0} /\ Workers = 0 .. NumWorkers - 1
  BY <1>1, WorkersAre
<1>3. \A w \in 0 .. NumWorkers : Edge(w) \in 0 .. TotalPoints
  BY <1>1, EdgesAre
<1>4. TotalPoints \in Nat
  BY <1>1, PointsAre
<1>5. ASSUME NEW w \in Workers PROVE counted[w] \in 0 .. Edge(w + 1) - Edge(w)
  <2>1. w \in 0 .. NumWorkers /\ w + 1 \in 0 .. NumWorkers
    BY <1>2
  <2>2. Edge(w) \in Nat /\ Edge(w + 1) \in Nat
    BY <1>3, <1>4, <2>1
  <2>3. counted[w] \in Nat /\ Edge(w) + counted[w] <= Edge(w + 1)
    BY <1>1 DEF CountInv
  <2> QED
    BY <2>2, <2>3
<1>6. DOMAIN grid = Grid(GridDepth) /\ \A cell \in DOMAIN grid : grid[cell] \in 0 .. CounterValues - 1
  BY <1>1 DEF CountInv
<1>7. /\ level \in 0 .. GridDepth /\ DOMAIN pops = Grid(level)
      /\ phase \in {"counting", "merging", "planned", "failed"}
  BY <1>1 DEF PlanInv
<1> QED
  BY <1>5, <1>6, <1>7 DEF TypeOK

\* Every point is in a root: the topmost of its voxels that fits, or else
\* that of the grid.
LEMMA RootExists ==
    ASSUME GivenOK, NEW i \in 1 .. TotalPoints
    PROVE  \E l \in Levels : IsRoot(l, Key(i, l))
<1> DEFINE T == {l \in Levels : l = GridDepth \/ Fits(Key(i, l), l)}
<1>1. /\ GridDepth \in Nat \ {0} /\ Span \in Nat /\ GridDepth \in Levels
      /\ \A l \in Levels : l \in Nat /\ l <= Span /\ l <= GridDepth
  BY LevelsAre DEF Levels
<1>2. T \subseteq Nat /\ T # {}
  BY <1>1
<1>3. PICK l \in T : \A m \in T : l <= m
  BY <1>2, Least
<1>4. l \in Levels /\ l \in Nat /\ l <= Span /\ (l = GridDepth \/ Fits(Key(i, l), l))
  BY <1>1, <1>3
<1>5. Key(i, l) \in Grid(l)
  BY <1>1, <1>4, KeyInGrid
<1>6. Population(Key(i, l), l) > 0
  <2>1. i \in PointsIn(Key(i, l), l)
    BY DEF PointsIn
  <2>2. /\ IsFiniteSet(PointsIn(Key(i, l), l))
        /\ Population(Key(i, l), l) = Cardinality(PointsIn(Key(i, l), l))
        /\ Population(Key(i, l), l) \in Nat
    BY PopulationIs
  <2>3. Population(Key(i, l), l) # 0
    BY <2>1, <2>2, FS_EmptySet
  <2> QED
    BY <2>2, <2>3
<1>7. ASSUME l # 0 PROVE ~Fits(Up(Key(i, l), 1), l - 1)
  <2>1. l - 1 \in Nat /\ (l - 1) + 1 = l /\ l - 1 \in Levels
    BY <1>1, <1>4, <1>7 DEF Levels
  <2>2. Up(Key(i, (l - 1) + 1), 1) = Key(i, l - 1)
    BY <1>4, <2>1, KeyIs
  <2>3. l - 1 \notin T
    BY <1>3, <1>4
  <2> QED
    BY <2>1, <2>2, <2>3
<1> QED
  BY <1>4, <1>5, <1>6, <1>7 DEF IsRoot

LEMMA AllTaken ==
    ASSUME GivenOK
    PROVE  Cardinality(Taken(Levels, Cells)) = TotalPoints
<1>1. TotalPoints \in Nat
  BY PointsAre
<1>2. \A l \in Levels : Grid(l) \subseteq Cells
  BY LevelsAre, GridCells
<1>3. ASSUME NEW i \in 1 .. TotalPoints PROVE i \in Taken(Levels, Cells)
  <2>1. PICK l \in Levels : IsRoot(l, Key(i, l))
    BY RootExists
  <2>2. Key(i, l) \in Cells
    BY <1>2, <2>1 DEF IsRoot
  <2> QED
    BY <2>1, <2>2 DEF Taken
<1>4. Taken(Levels, Cells) = 1 .. TotalPoints
  BY <1>3 DEF Taken
<1>5. Cardinality(1 .. TotalPoints) = TotalPoints
  <2>1. 1 \in Int /\ TotalPoints \in Int
    BY <1>1
  <2>2. Cardinality(1 .. TotalPoints) = IF 1 > TotalPoints THEN 0 ELSE TotalPoints - 1 + 1
    BY <2>1, FS_Interval
  <2> QED
    BY <1>1, <2>2
<1> QED
  BY <1>4, <1>5

LEMMA PlannedIs ==
    ASSUME IInv, Planned
    PROVE  /\ GivenOK /\ PlanFor(chunks, Levels, Cells)
           /\ chunks \in Seq(Chunk) /\ Len(chunks) \in Nat /\ DOMAIN chunks = 1 .. Len(chunks)
<1>1. GivenOK /\ PlanFor(chunks, Levels, Cells)
  BY DEF IInv, PlanInv, Planned
<1>2. chunks \in Seq(Chunk)
  BY <1>1 DEF PlanFor
<1> QED
  BY <1>1, <1>2, LenProperties

\* A chunk and the root it is made of.
LEMMA ChunkOf ==
    ASSUME GivenOK, PlanFor(chunks, Levels, Cells), NEW p \in 1 .. Len(chunks)
    PROVE  \E l \in Levels : \E c \in Cells :
             /\ IsRoot(l, c) /\ c \in Grid(l)
             /\ PieceOf(chunks[p], l, c, Population(c, l))
             /\ \E j \in 1 .. Len(Pieces(l, c)) : chunks[p] = Pieces(l, c)[j]
<1>1. PICK l \in Levels : \E c \in Cells :
          IsRoot(l, c) /\ \E j \in 1 .. Len(Pieces(l, c)) : chunks[p] = Pieces(l, c)[j]
  BY DEF PlanFor
<1>2. PICK c \in Cells : IsRoot(l, c) /\ \E j \in 1 .. Len(Pieces(l, c)) : chunks[p] = Pieces(l, c)[j]
  BY <1>1
<1>3. c \in Grid(l)
  BY <1>2 DEF IsRoot
<1>4. PICK j \in 1 .. Len(Pieces(l, c)) : chunks[p] = Pieces(l, c)[j]
  BY <1>2
<1>5. PieceOf(Pieces(l, c)[j], l, c, Population(c, l))
  BY <1>3, PiecesAre
<1>6. PieceOf(chunks[p], l, c, Population(c, l))
  BY <1>4, <1>5
<1> QED
  BY <1>2, <1>3, <1>6

\* A root that fits is one chunk, one that does not is split at one depth.
LEMMA WholePiece ==
    ASSUME GivenOK, NEW l \in Levels, NEW c \in Grid(l), l # GridDepth \/ Fits(c, l)
    PROVE  /\ Len(Pieces(l, c)) = 1
           /\ Pieces(l, c)[1].level = l /\ Pieces(l, c)[1].cell = c
<1> DEFINE pop == Population(c, l)
<1>1. l \in Nat /\ c \in Cells /\ pop \in Nat
  BY LevelsAre, GridCells, PopulationIs
<1>2. l # GridDepth \/ pop <= ChunkTarget
  BY DEF Fits
<1>3. Pieces(l, c) = EmitChunkRoot(l, c, pop)
  BY DEF Pieces
<1> HIDE DEF pop
<1>4. Pieces(l, c) = <<[level |-> l, cell |-> c, points |-> pop]>>
  BY <1>1, <1>2, <1>3, EmitWhole
<1> QED
  BY <1>4

LEMMA SplitPieces ==
    ASSUME GivenOK, NEW c \in Grid(GridDepth), ~Fits(c, GridDepth)
    PROVE  \E k \in 1 .. SplitLevelCap :
             /\ Len(Pieces(GridDepth, c)) = Parts(k)
             /\ \A j \in 1 .. Parts(k) : /\ Pieces(GridDepth, c)[j].level = GridDepth + k
                                         /\ Pieces(GridDepth, c)[j].cell = Below(c, k, j - 1)
<1> DEFINE pop == Population(c, GridDepth)
           s == Pieces(GridDepth, c)
<1>1. GridDepth \in Nat /\ c \in Cells /\ pop \in Nat /\ SplitLevelCap \in Nat
  BY GridDepthIs, GridCells, PopulationIs
<1>2. ~(pop <= ChunkTarget)
  BY DEF Fits
<1>3. s = EmitChunkRoot(GridDepth, c, pop)
  BY DEF Pieces
<1> HIDE DEF pop, s
<1>4. PICK k \in 1 .. SplitLevelCap :
             EmitChunkRoot(GridDepth, c, pop) =
                  [i \in 1 .. Parts(k) |->
                     [level |-> GridDepth + k, cell |-> Below(c, k, i - 1),
                      points |-> Share(pop, Parts(k), i - 1)]]
  BY <1>1, <1>2, EmitSplit
<1>5. k \in Nat /\ Parts(k) \in Nat
  <2>1. k \in Nat
    BY <1>1
  <2> QED
    BY <2>1, TwoPowers
<1>6. s \in Seq(Chunk)
  <2>1. GridDepth \in Levels
    BY <1>1 DEF Levels
  <2> QED
    BY <2>1, PiecesAre DEF s
<1>7. DOMAIN s = 1 .. Parts(k) /\ DOMAIN s = 1 .. Len(s) /\ Len(s) \in Nat
  BY <1>3, <1>4, <1>6, LenProperties
<1>8. Len(s) = Parts(k)
  BY <1>5, <1>7
<1>9. \A j \in 1 .. Parts(k) : s[j].level = GridDepth + k /\ s[j].cell = Below(c, k, j - 1)
  BY <1>3, <1>4
<1> QED
  BY <1>8, <1>9 DEF s

LEMMA PiecesLevel ==
    ASSUME GivenOK, NEW l \in Levels, NEW c \in Grid(l),
           NEW i \in 1 .. Len(Pieces(l, c)), NEW j \in 1 .. Len(Pieces(l, c))
    PROVE  Pieces(l, c)[i].level = Pieces(l, c)[j].level
<1>1. CASE l # GridDepth \/ Fits(c, l)
  <2>1. Len(Pieces(l, c)) = 1
    BY <1>1, WholePiece
  <2>2. i = 1 /\ j = 1
    BY <2>1
  <2> QED
    BY <2>2
<1>2. CASE l = GridDepth /\ ~Fits(c, l)
  <2>1. PICK k \in 1 .. SplitLevelCap :
             /\ Len(Pieces(l, c)) = Parts(k)
             /\ \A n \in 1 .. Parts(k) : Pieces(l, c)[n].level = GridDepth + k
    BY <1>2, SplitPieces
  <2> QED
    BY <2>1
<1> QED
  BY <1>1, <1>2

LEMMA PlanApart ==
    ASSUME GivenOK, PlanFor(chunks, Levels, Cells),
           NEW i \in 1 .. Len(chunks), NEW j \in 1 .. Len(chunks),
           i # j, chunks[i].level <= chunks[j].level
    PROVE  Up(chunks[j].cell, chunks[j].level - chunks[i].level) # chunks[i].cell
<1>1. SUFFICES ASSUME Up(chunks[j].cell, chunks[j].level - chunks[i].level) = chunks[i].cell
               PROVE  FALSE
  OBVIOUS
<1>2. PICK l \in Levels : \E c \in Cells :
             /\ IsRoot(l, c) /\ c \in Grid(l)
             /\ PieceOf(chunks[i], l, c, Population(c, l))
             /\ \E n \in 1 .. Len(Pieces(l, c)) : chunks[i] = Pieces(l, c)[n]
  BY ChunkOf
<1>3. PICK c \in Cells :
             /\ IsRoot(l, c) /\ c \in Grid(l)
             /\ PieceOf(chunks[i], l, c, Population(c, l))
             /\ \E n \in 1 .. Len(Pieces(l, c)) : chunks[i] = Pieces(l, c)[n]
  BY <1>2
<1>4. PICK m \in Levels : \E d \in Cells :
             /\ IsRoot(m, d) /\ d \in Grid(m)
             /\ PieceOf(chunks[j], m, d, Population(d, m))
             /\ \E n \in 1 .. Len(Pieces(m, d)) : chunks[j] = Pieces(m, d)[n]
  BY ChunkOf
<1>5. PICK d \in Cells :
             /\ IsRoot(m, d) /\ d \in Grid(m)
             /\ PieceOf(chunks[j], m, d, Population(d, m))
             /\ \E n \in 1 .. Len(Pieces(m, d)) : chunks[j] = Pieces(m, d)[n]
  BY <1>4
<1> DEFINE x == chunks[i].cell
           y == chunks[j].cell
           p == chunks[i].level
           q == chunks[j].level
<1>6. /\ l \in Nat /\ m \in Nat /\ l <= GridDepth /\ m <= GridDepth /\ GridDepth \in Nat
  BY LevelsAre
<1>7. /\ p \in Nat /\ l <= p /\ Up(x, p - l) = c /\ (l # GridDepth => p = l)
  BY <1>3, <1>6 DEF PieceOf
<1>8. /\ q \in Nat /\ m <= q /\ Up(y, q - m) = d /\ (m # GridDepth => q = m) /\ y \in Grid(q)
  BY <1>5, <1>6 DEF PieceOf
<1>9. p <= q /\ Up(y, q - p) = x
  BY <1>1
<1>10. y \in Cells
  BY <1>8, GridCells
<1>11. Voxel(chunks[i]) = <<p, x>> /\ Voxel(chunks[j]) = <<q, y>> /\ Distinct(chunks)
  BY DEF Voxel, PlanFor
<1> HIDE DEF x, y, p, q
<1>12. Up(y, q - l) = c
  <2>1. q - p \in Nat /\ p - l \in Nat /\ (q - p) + (p - l) = q - l
    BY <1>6, <1>7, <1>8, <1>9
  <2>2. Up(Up(y, q - p), p - l) = Up(y, (q - p) + (p - l))
    BY <1>10, <2>1, UpIs
  <2> QED
    BY <1>7, <1>9, <2>1, <2>2
<1>13. CASE l < m
  <2>1. q - m \in Nat /\ m - l \in Nat /\ (q - m) + (m - l) = q - l
    BY <1>6, <1>7, <1>8, <1>13
  <2>2. Up(Up(y, q - m), m - l) = Up(y, (q - m) + (m - l))
    BY <1>10, <2>1, UpIs
  <2>3. Up(d, m - l) = c
    BY <1>8, <1>12, <2>1, <2>2
  <2>4. Up(d, m - l) # c
    BY <1>3, <1>5, <1>13, RootsApart
  <2> QED
    BY <2>3, <2>4
<1>14. CASE m < l
  BY <1>6, <1>7, <1>8, <1>9, <1>14
<1>15. CASE l = m
  <2>1. c = d
    BY <1>8, <1>12, <1>15
  <2>2. p = q
    BY <1>3, <1>5, <1>15, <2>1, PiecesLevel DEF p, q
  <2>3. q - p = 0 /\ Up(y, 0) = y
    BY <1>8, <1>10, <2>2, UpIs
  <2>4. Voxel(chunks[i]) = Voxel(chunks[j])
    BY <1>9, <1>11, <2>2, <2>3
  <2> QED
    BY <1>11, <2>4 DEF Distinct
<1> QED
  BY <1>6, <1>13, <1>14, <1>15

LEMMA InvariantIsApart ==
    ASSUME IInv
    PROVE  ChunksApart
<1>1. TypeOK
  BY InvariantIsTyped
<1>2. ASSUME Planned, NEW i \in DOMAIN chunks, NEW j \in DOMAIN chunks,
             i # j, chunks[i].level <= chunks[j].level
      PROVE  Up(chunks[j].cell, chunks[j].level - chunks[i].level) # chunks[i].cell
  <2>1. GivenOK /\ PlanFor(chunks, Levels, Cells) /\ DOMAIN chunks = 1 .. Len(chunks)
    BY <1>2, PlannedIs
  <2> QED
    BY <1>2, <2>1, PlanApart
<1> QED
  BY <1>1, <1>2 DEF ChunksApart

LEMMA InvariantConserves ==
    ASSUME IInv
    PROVE  EstimatesConserve
<1>1. SUFFICES ASSUME Planned
               PROVE  /\ SumOf([i \in DOMAIN chunks |-> chunks[i].points]) = TotalPoints
                      /\ \A i \in DOMAIN chunks : chunks[i].level <= GridDepth =>
                            chunks[i].points = Population(chunks[i].cell, chunks[i].level)
  BY DEF EstimatesConserve
<1>2. GivenOK /\ PlanFor(chunks, Levels, Cells) /\ DOMAIN chunks = 1 .. Len(chunks)
  BY <1>1, PlannedIs
<1>3. Weights(chunks) = [i \in DOMAIN chunks |-> chunks[i].points]
  BY <1>2 DEF Weights
<1>4. SumOf(Weights(chunks)) = TotalPoints
  BY <1>2, AllTaken DEF PlanFor
<1>5. ASSUME NEW i \in 1 .. Len(chunks), chunks[i].level <= GridDepth
      PROVE  chunks[i].points = Population(chunks[i].cell, chunks[i].level)
  <2>1. \E l \in Levels : \E c \in Cells : PieceOf(chunks[i], l, c, Population(c, l))
    BY <1>2, ChunkOf
  <2>2. GridDepth \in Nat
    BY <1>2, LevelsAre
  <2> QED
    BY <1>5, <2>1, <2>2 DEF PieceOf
<1> QED
  BY <1>2, <1>3, <1>4, <1>5

LEMMA InvariantFitsBudget ==
    ASSUME IInv
    PROVE  PlanFitsBudget
<1>1. SUFFICES ASSUME Planned, override = NoOverride, NEW i \in DOMAIN chunks
               PROVE  \/ chunks[i].points * PerPointPeak * 100 <= budget * SingleChunkPercent
                      \/ chunks[i].points <= MinChunkPoints
                      \/ chunks[i].level = GridDepth + SplitLevelCap
  BY DEF PlanFitsBudget
<1>2. /\ GivenOK /\ PlanFor(chunks, Levels, Cells) /\ i \in 1 .. Len(chunks)
      /\ chunks \in Seq(Chunk)
  BY <1>1, PlannedIs
<1>3. PICK l \in Levels : \E c \in Cells : IsRoot(l, c) /\ PieceOf(chunks[i], l, c, Population(c, l))
  BY <1>2, ChunkOf
<1>4. PICK c \in Cells : IsRoot(l, c) /\ PieceOf(chunks[i], l, c, Population(c, l))
  BY <1>3
<1>5. chunks[i].points <= ChunkTarget \/ chunks[i].level = GridDepth + SplitLevelCap
  BY <1>4 DEF PieceOf, IsRoot, Fits
<1> DEFINE n == chunks[i].points
           t == ChunkTarget
           f == PerPointPeak
           b == budget * SingleChunkPercent
<1>6. n \in Nat
  <2>1. chunks[i] \in Chunk
    BY <1>2, ElementOfSeq
  <2> QED
    BY <2>1 DEF Chunk
<1>7. f \in Nat /\ t \in Nat /\ b \in Nat /\ MinChunkPoints \in Nat
  BY <1>2, ConstantsAre, TargetIs
<1>8. t <= MinChunkPoints \/ t * f * 100 <= b
  BY <1>1, <1>2, TargetIs
<1>9. n <= t \/ chunks[i].level = GridDepth + SplitLevelCap
  BY <1>5
<1> HIDE DEF n, t, f, b
<1>10. n <= t => n * f * 100 <= t * f * 100
  <2>1. n <= t => n * f <= t * f
    BY <1>6, <1>7
  <2>2. n * f \in Nat /\ t * f \in Nat
    BY <1>6, <1>7
  <2> QED
    BY <2>1, <2>2
<1>11. n * f * 100 \in Nat /\ t * f * 100 \in Nat
  BY <1>6, <1>7
<1>12. n * f * 100 <= b \/ n <= MinChunkPoints \/ chunks[i].level = GridDepth + SplitLevelCap
  <2>1. CASE n <= t /\ t <= MinChunkPoints
    BY <1>6, <1>7, <2>1
  <2>2. CASE n <= t /\ t * f * 100 <= b
    BY <1>7, <1>10, <1>11, <2>2
  <2> QED
    BY <1>8, <1>9, <2>1, <2>2
<1> QED
  BY <1>12 DEF n, f, b

LEMMA InvariantBoundsExact ==
    ASSUME IInv
    PROVE  BoundsExact
<1>1. SUFFICES ASSUME phase = "planned" /\ AllPoints # <<>>, NEW a \in Axes
               PROVE  LET ends == {Encoded(AllPoints[i])[a] : i \in DOMAIN AllPoints}
                      IN  /\ <<"low", a>>  \in HeaderMismatch <=>
                               Min(ends) \notin header.low[a] - 1 .. header.low[a] + 1
                          /\ <<"high", a>> \in HeaderMismatch <=>
                               Max(ends) \notin header.high[a] - 1 .. header.high[a] + 1
  BY DEF BoundsExact
<1>2. GivenOK /\ BoundsOf(actual, 1 .. TotalPoints)
  BY <1>1 DEF IInv, PlanInv
<1> QED
  BY <1>1, <1>2, BoundsGiveMismatch, Zenon

LEMMA ChunksOfRoot ==
    ASSUME GivenOK, PlanFor(chunks, Levels, Cells), NEW l \in Levels, NEW c, IsRoot(l, c)
    PROVE  \E b \in Nat : FoundAt(chunks, Pieces(l, c), b)
<1>1. c \in Cells
  BY LevelsAre, GridCells DEF IsRoot
<1> QED
  BY <1>1 DEF PlanFor

LEMMA InvariantIsCoarsest ==
    ASSUME IInv
    PROVE  PlanIsCoarsest
<1> DEFINE FitsIn(cell, l) == Population(cell, l) <= ChunkTarget
           Roots(l) == {cell \in Grid(l) :
                           /\ Population(cell, l) > 0
                           /\ FitsIn(cell, l) \/ l = GridDepth
                           /\ l = 0 \/ ~FitsIn(Up(cell, 1), l - 1)}
           InPlan(l) == {chunks[i].cell : i \in {i \in DOMAIN chunks : chunks[i].level = l}}
           Split  == {Up(chunks[i].cell, chunks[i].level - GridDepth) :
                         i \in {i \in DOMAIN chunks : chunks[i].level > GridDepth}}
<1>1. SUFFICES ASSUME Planned
               PROVE  /\ \A l \in 0 .. GridDepth - 1 : InPlan(l) = Roots(l)
                      /\ InPlan(GridDepth) = {cell \in Roots(GridDepth) : FitsIn(cell, GridDepth)}
                      /\ Split = {cell \in Roots(GridDepth) : ~FitsIn(cell, GridDepth)}
  BY DEF PlanIsCoarsest
<1>2. GivenOK /\ PlanFor(chunks, Levels, Cells) /\ DOMAIN chunks = 1 .. Len(chunks)
  BY <1>1, PlannedIs
<1>3. \A l, c : c \in Roots(l) <=> IsRoot(l, c)
  BY DEF IsRoot, Fits
<1>4. \A l, c : FitsIn(c, l) <=> Fits(c, l)
  BY DEF Fits
<1>5. \A l, x : x \in InPlan(l) <=> \E i \in 1 .. Len(chunks) : chunks[i].level = l /\ x = chunks[i].cell
  BY <1>2
<1>6. \A x : x \in Split <=> \E i \in 1 .. Len(chunks) :
                 chunks[i].level > GridDepth /\ x = Up(chunks[i].cell, chunks[i].level - GridDepth)
  BY <1>2
<1> HIDE DEF FitsIn, Roots, InPlan, Split
<1>7. GridDepth \in Nat /\ GridDepth \in Levels /\ \A l \in Levels : l \in Nat /\ l <= GridDepth
  BY <1>2, LevelsAre DEF Levels
<1>8. ASSUME NEW i \in 1 .. Len(chunks)
      PROVE  \/ /\ chunks[i].level \in Levels /\ IsRoot(chunks[i].level, chunks[i].cell)
                /\ Fits(chunks[i].cell, chunks[i].level)
             \/ /\ chunks[i].level > GridDepth
                /\ IsRoot(GridDepth, Up(chunks[i].cell, chunks[i].level - GridDepth))
                /\ ~Fits(Up(chunks[i].cell, chunks[i].level - GridDepth), GridDepth)
  <2>1. PICK l \in Levels : \E c \in Cells : IsRoot(l, c) /\ PieceOf(chunks[i], l, c, Population(c, l))
    BY <1>2, ChunkOf
  <2>2. PICK c \in Cells : IsRoot(l, c) /\ PieceOf(chunks[i], l, c, Population(c, l))
    BY <2>1
  <2>3. CASE chunks[i].level = l /\ chunks[i].cell = c /\ (l # GridDepth \/ Population(c, l) <= ChunkTarget)
    <3>1. Fits(c, l)
      BY <2>2, <2>3 DEF IsRoot, Fits
    <3> QED
      BY <2>2, <2>3, <3>1
  <2>4. CASE chunks[i].level > GridDepth /\ l = GridDepth /\ ~(Population(c, l) <= ChunkTarget)
    <3>1. Up(chunks[i].cell, chunks[i].level - GridDepth) = c
      BY <2>2, <2>4 DEF PieceOf
    <3> QED
      BY <2>2, <2>4, <3>1 DEF Fits
  <2> QED
    BY <2>2, <2>3, <2>4 DEF PieceOf
<1>9. \A i \in 1 .. Len(chunks) : chunks[i].level \in Levels => ~(chunks[i].level > GridDepth)
  <2>1. \A l \in Levels : ~(l > GridDepth)
    BY <1>7 DEF Levels
  <2> QED
    BY <2>1
<1>10. ASSUME NEW l \in Levels, NEW c, IsRoot(l, c), Fits(c, l)
       PROVE  \E i \in 1 .. Len(chunks) : chunks[i].level = l /\ c = chunks[i].cell
  <2>1. c \in Grid(l)
    BY <1>10 DEF IsRoot
  <2>2. PICK b \in Nat : FoundAt(chunks, Pieces(l, c), b)
    BY <1>2, <1>10, ChunksOfRoot
  <2>3. Len(Pieces(l, c)) = 1 /\ Pieces(l, c)[1].level = l /\ Pieces(l, c)[1].cell = c
    BY <1>2, <1>10, <2>1, WholePiece
  <2>4. b + 1 \in 1 .. Len(chunks) /\ chunks[b + 1] = Pieces(l, c)[1]
    BY <2>2, <2>3 DEF FoundAt
  <2> QED
    BY <2>3, <2>4
<1>11. ASSUME NEW c, IsRoot(GridDepth, c), ~Fits(c, GridDepth)
       PROVE  \E i \in 1 .. Len(chunks) :
                 chunks[i].level > GridDepth /\ c = Up(chunks[i].cell, chunks[i].level - GridDepth)
  <2>1. c \in Grid(GridDepth)
    BY <1>11 DEF IsRoot
  <2>2. PICK b \in Nat : FoundAt(chunks, Pieces(GridDepth, c), b)
    BY <1>2, <1>7, <1>11, ChunksOfRoot
  <2>3. /\ Len(Pieces(GridDepth, c)) \in Nat \ {0}
        /\ \A j \in 1 .. Len(Pieces(GridDepth, c)) :
             PieceOf(Pieces(GridDepth, c)[j], GridDepth, c, Population(c, GridDepth))
    BY <1>2, <1>7, <2>1, PiecesAre
  <2>4. 1 \in 1 .. Len(Pieces(GridDepth, c))
    BY <2>3
  <2>5. b + 1 \in 1 .. Len(chunks) /\ chunks[b + 1] = Pieces(GridDepth, c)[1]
    BY <2>2, <2>4 DEF FoundAt
  <2>6. PieceOf(chunks[b + 1], GridDepth, c, Population(c, GridDepth))
    BY <2>3, <2>4, <2>5
  <2>7. chunks[b + 1].level > GridDepth /\ Up(chunks[b + 1].cell, chunks[b + 1].level - GridDepth) = c
    BY <1>11, <2>6 DEF PieceOf, Fits
  <2> QED
    BY <2>5, <2>7
<1>12. ASSUME NEW l \in Levels, NEW x
       PROVE  x \in InPlan(l) <=> IsRoot(l, x) /\ Fits(x, l)
  <2>1. ASSUME x \in InPlan(l) PROVE IsRoot(l, x) /\ Fits(x, l)
    <3>1. PICK i \in 1 .. Len(chunks) : chunks[i].level = l /\ x = chunks[i].cell
      BY <1>5, <2>1
    <3> QED
      BY <1>8, <1>9, <3>1
  <2>2. ASSUME IsRoot(l, x), Fits(x, l) PROVE x \in InPlan(l)
    BY <1>5, <1>10, <2>2
  <2> QED
    BY <2>1, <2>2
<1>13. ASSUME NEW l \in 0 .. GridDepth - 1 PROVE InPlan(l) = Roots(l)
  <2>1. l \in Levels /\ l # GridDepth
    BY <1>7 DEF Levels
  <2>2. \A x : IsRoot(l, x) => Fits(x, l)
    BY <2>1 DEF IsRoot
  <2>3. \A x : x \in InPlan(l) <=> x \in Roots(l)
    BY <1>3, <1>12, <2>1, <2>2
  <2>4. InPlan(l) \subseteq Roots(l) /\ Roots(l) \subseteq InPlan(l)
    BY <2>3
  <2> QED
    BY <2>4
<1>14. InPlan(GridDepth) = {cell \in Roots(GridDepth) : FitsIn(cell, GridDepth)}
  <2>1. \A x : x \in InPlan(GridDepth) <=> x \in Roots(GridDepth) /\ FitsIn(x, GridDepth)
    BY <1>3, <1>4, <1>7, <1>12
  <2> QED
    BY <2>1
<1>15. Split = {cell \in Roots(GridDepth) : ~FitsIn(cell, GridDepth)}
  <2>1. ASSUME NEW x \in Split PROVE IsRoot(GridDepth, x) /\ ~Fits(x, GridDepth)
    <3>1. PICK i \in 1 .. Len(chunks) :
                 chunks[i].level > GridDepth /\ x = Up(chunks[i].cell, chunks[i].level - GridDepth)
      BY <1>6
    <3> QED
      BY <1>8, <1>9, <3>1
  <2>2. ASSUME NEW x, IsRoot(GridDepth, x), ~Fits(x, GridDepth) PROVE x \in Split
    BY <1>6, <1>11, <2>2
  <2>3. \A x : x \in Split <=> x \in Roots(GridDepth) /\ ~FitsIn(x, GridDepth)
    BY <1>3, <1>4, <2>1, <2>2
  <2> QED
    BY <2>3
<1> QED
  BY <1>13, <1>14, <1>15

(***************************************************************************)
(* Classification                                                          *)
(***************************************************************************)
LEMMA OneIsMost ==
    ASSUME NEW n \in Nat
    PROVE  Max({n}) = n /\ Min({n}) = n
<1> DEFINE S == {n}
<1>1. S \subseteq Int /\ S # {} /\ n \in Int /\ \A x \in S : x = n
  OBVIOUS
<1> HIDE DEF S
<1>2. (\A x \in S : x <= n) /\ \A x \in S : n <= x
  BY <1>1
<1>3. Max(S) \in S
  BY <1>1, <1>2, MaxIs
<1>4. Min(S) \in S
  BY <1>1, <1>2, MinIs
<1> QED
  BY <1>1, <1>3, <1>4 DEF S

WholeAt(cell) == {i \in DOMAIN chunks : chunks[i].level <= GridDepth
                    /\ Up(cell, GridDepth - chunks[i].level) = chunks[i].cell}
PartsAt(cell) == {i \in DOMAIN chunks : chunks[i].level > GridDepth
                    /\ Up(chunks[i].cell, chunks[i].level - GridDepth) = cell}

\* A chunk that fills the cell of a point is made of the root of the point,
\* and so is one that is a part of the cell.
LEMMA WholeIsOwn ==
    ASSUME GivenOK, PlanFor(chunks, Levels, Cells), DOMAIN chunks = 1 .. Len(chunks),
           NEW i \in 1 .. TotalPoints, NEW n \in WholeAt(Key(i, GridDepth))
    PROVE  /\ chunks[n].level \in Levels
           /\ chunks[n].cell = Key(i, chunks[n].level)
           /\ IsRoot(chunks[n].level, Key(i, chunks[n].level))
           /\ Fits(Key(i, chunks[n].level), chunks[n].level)
<1> DEFINE e == chunks[n]
<1>1. n \in 1 .. Len(chunks) /\ e.level <= GridDepth
      /\ Up(Key(i, GridDepth), GridDepth - e.level) = e.cell
  BY DEF WholeAt
<1>2. PICK l \in Levels : \E c \in Cells : IsRoot(l, c) /\ PieceOf(e, l, c, Population(c, l))
  BY <1>1, ChunkOf
<1>3. PICK c \in Cells : IsRoot(l, c) /\ PieceOf(e, l, c, Population(c, l))
  BY <1>2
<1> HIDE DEF e
<1>4. l \in Nat /\ l <= GridDepth /\ GridDepth \in Nat /\ GridDepth <= Span
  BY LevelsAre, GridDepthIs
<1>5. e.level = l /\ e.cell = c /\ (l # GridDepth \/ Population(c, l) <= ChunkTarget)
  BY <1>1, <1>3, <1>4 DEF PieceOf
<1>6. GridDepth - l \in Nat /\ l + (GridDepth - l) = GridDepth
  BY <1>4
<1>7. Up(Key(i, l + (GridDepth - l)), GridDepth - l) = Key(i, l)
  BY <1>4, <1>6, KeyIs
<1>8. c = Key(i, l)
  BY <1>1, <1>5, <1>6, <1>7
<1>9. Fits(c, l)
  BY <1>3, <1>5 DEF IsRoot, Fits
<1> QED
  BY <1>3, <1>5, <1>8, <1>9 DEF e

LEMMA PartIsOwn ==
    ASSUME GivenOK, PlanFor(chunks, Levels, Cells), DOMAIN chunks = 1 .. Len(chunks),
           NEW cell, NEW n \in PartsAt(cell)
    PROVE  /\ IsRoot(GridDepth, cell) /\ ~Fits(cell, GridDepth)
           /\ \E j \in 1 .. Len(Pieces(GridDepth, cell)) : chunks[n] = Pieces(GridDepth, cell)[j]
<1> DEFINE e == chunks[n]
<1>1. n \in 1 .. Len(chunks) /\ e.level > GridDepth /\ Up(e.cell, e.level - GridDepth) = cell
  BY DEF PartsAt
<1>2. PICK l \in Levels : \E c \in Cells :
         /\ IsRoot(l, c) /\ PieceOf(e, l, c, Population(c, l))
         /\ \E j \in 1 .. Len(Pieces(l, c)) : e = Pieces(l, c)[j]
  BY <1>1, ChunkOf
<1>3. PICK c \in Cells :
         /\ IsRoot(l, c) /\ PieceOf(e, l, c, Population(c, l))
         /\ \E j \in 1 .. Len(Pieces(l, c)) : e = Pieces(l, c)[j]
  BY <1>2
<1> HIDE DEF e
<1>4. l \in Nat /\ l <= GridDepth /\ GridDepth \in Nat
  BY LevelsAre
<1>5. l = GridDepth /\ ~(Population(c, l) <= ChunkTarget)
  BY <1>1, <1>3, <1>4 DEF PieceOf
<1>6. c = cell
  BY <1>1, <1>3, <1>5 DEF PieceOf
<1> QED
  BY <1>3, <1>5, <1>6 DEF Fits, e

\* The point's cell belongs to one chunk.
LEMMA RoutedWhole ==
    ASSUME GivenOK, PlanFor(chunks, Levels, Cells), DOMAIN chunks = 1 .. Len(chunks),
           NEW i \in 1 .. TotalPoints, NEW l \in Levels,
           IsRoot(l, Key(i, l)), Fits(Key(i, l), l)
    PROVE  LET n == Route(AllPoints[i])
           IN  /\ n \in DOMAIN chunks
               /\ Key(i, chunks[n].level) = chunks[n].cell
<1> DEFINE cell == Key(i, GridDepth)
           c == Key(i, l)
<1>1. l \in Nat /\ l <= GridDepth /\ GridDepth \in Nat /\ GridDepth <= Span /\ GridDepth \in Levels
  BY LevelsAre, GridDepthIs DEF Levels
<1>2. c \in Grid(l)
  BY DEF IsRoot
<1>3. PICK b \in Nat : FoundAt(chunks, Pieces(l, c), b)
  BY ChunksOfRoot
<1>4. Len(Pieces(l, c)) = 1 /\ Pieces(l, c)[1].level = l /\ Pieces(l, c)[1].cell = c
  BY <1>2, WholePiece
<1>5. b + 1 \in 1 .. Len(chunks) /\ chunks[b + 1] = Pieces(l, c)[1]
  BY <1>3, <1>4 DEF FoundAt
<1> DEFINE n == b + 1
<1>6. n \in Nat /\ n \in DOMAIN chunks /\ n \in 1 .. Len(chunks) /\ chunks[n].level = l /\ chunks[n].cell = c
  BY <1>4, <1>5
<1>7. Up(cell, GridDepth - l) = c
  <2>1. GridDepth - l \in Nat /\ l + (GridDepth - l) = GridDepth
    BY <1>1
  <2>2. Up(Key(i, l + (GridDepth - l)), GridDepth - l) = Key(i, l)
    BY <1>1, <2>1, KeyIs
  <2> QED
    BY <2>1, <2>2
<1> HIDE DEF n
<1>8. n \in WholeAt(cell)
  BY <1>1, <1>6, <1>7 DEF WholeAt
<1>9. ASSUME NEW p \in WholeAt(cell) PROVE p = n
  <2>1. /\ p \in 1 .. Len(chunks) /\ chunks[p].level \in Levels
        /\ chunks[p].cell = Key(i, chunks[p].level)
        /\ IsRoot(chunks[p].level, Key(i, chunks[p].level))
    BY WholeIsOwn DEF WholeAt
  <2> DEFINE m == chunks[p].level
  <2>2. m \in Levels /\ IsRoot(m, Key(i, m)) /\ m \in Nat /\ chunks[p].cell = Key(i, m)
    BY <2>1, LevelsAre
  <2> HIDE DEF m
  <2>3. m = l
    <3>1. ~(m < l)
      BY <2>2, OneRoot
    <3>2. ~(l < m)
      BY <2>2, OneRoot
    <3> QED
      BY <1>1, <2>2, <3>1, <3>2
  <2>4. Voxel(chunks[p]) = Voxel(chunks[n])
    BY <1>6, <2>2, <2>3 DEF Voxel, m
  <2> QED
    BY <1>6, <2>1, <2>4 DEF PlanFor, Distinct
<1>10. ASSUME NEW p \in PartsAt(cell) PROVE FALSE
  <2>1. IsRoot(GridDepth, cell) /\ ~Fits(cell, GridDepth)
    BY PartIsOwn
  <2>2. l # GridDepth
    BY <2>1
  <2>3. l < GridDepth
    BY <1>1, <2>2
  <2> QED
    BY <1>1, <2>1, <2>3, OneRoot
<1> DEFINE W == WholeAt(cell)
           P == PartsAt(cell)
<1>11. W = {n} /\ P = {}
  BY <1>8, <1>9, <1>10
<1>12. ChunkLut(cell) =
         IF W \cup P = {} THEN NoChunk
         ELSE IF Max(W \cup P) \in W THEN [chunk |-> Max(W)]
         ELSE LET first == Min(P)
                  k     == chunks[first].level - GridDepth
              IN  [k |-> k, base |-> first - SubOctantIndex(chunks[first].cell, k)]
  BY DEF ChunkLut, WholeAt, PartsAt
<1>13. Max({n}) = n
  BY <1>6, OneIsMost
<1> HIDE DEF W, P
<1>14. W \cup P = {n}
  BY <1>11
<1>15. ChunkLut(cell) = [chunk |-> n]
  BY <1>11, <1>12, <1>13, <1>14
<1>16. Route(AllPoints[i]) = n
  <2> DEFINE entry == ChunkLut(cell)
  <2>1. "chunk" \in DOMAIN entry /\ entry.chunk = n
    BY <1>15
  <2>2. cell = PointToKey(Encoded(AllPoints[i]), GridDepth)
    BY DEF Key
  <2> HIDE DEF entry, cell
  <2> QED
    BY <2>1, <2>2 DEF Route, entry
<1> QED
  BY <1>6, <1>16

\* Where in its cell the table finds the sub-chunk of a point is where the
\* sub-chunk is: the clamp never takes effect.
LEMMA PlaceInCell ==
    ASSUME NEW deep \in Cells, NEW k \in Nat, NEW cell, Up(deep, k) = cell
    PROVE  CellIndex([a \in Axes |-> Clamp(deep[a] - cell[a] * Pow(2, k), 0, Pow(2, k) - 1)], Pow(2, k))
           = SubOctantIndex(deep, k)
<1>1. ASSUME NEW a \in Axes
      PROVE  Clamp(deep[a] - cell[a] * Pow(2, k), 0, Pow(2, k) - 1) = deep[a] % Pow(2, k)
  <2> DEFINE x == deep[a]
             n == Pow(2, k)
             q == x \div n
             r == x % n
  <2>1. n \in Nat \ {0}
    BY TwoPowers
  <2>2. x \in Int
    BY DEF Cells
  <2>3. cell[a] = q
    BY DEF Up
  <2>4. q \in Int /\ r \in 0 .. n - 1 /\ x = n * q + r
    <3> HIDE DEF x, n
    <3> QED
      BY <2>1, <2>2, DivMod
  <2> HIDE DEF x, n, q, r
  <2>5. x - q * n = r
    <3>1. q * n = n * q /\ n * q \in Int
      BY <2>1, <2>4
    <3> QED
      BY <2>1, <2>4, <3>1
  <2>6. Clamp(r, 0, n - 1) = r
    BY <2>1, <2>4 DEF Clamp
  <2> QED
    BY <2>3, <2>5, <2>6 DEF x, n, r
<1>2. [a \in Axes |-> Clamp(deep[a] - cell[a] * Pow(2, k), 0, Pow(2, k) - 1)]
      = [a \in Axes |-> deep[a] % Pow(2, k)]
  BY <1>1
<1> QED
  BY <1>2 DEF SubOctantIndex

\* The point's cell is split.
LEMMA RoutedPart ==
    ASSUME GivenOK, PlanFor(chunks, Levels, Cells), DOMAIN chunks = 1 .. Len(chunks),
           NEW i \in 1 .. TotalPoints,
           IsRoot(GridDepth, Key(i, GridDepth)), ~Fits(Key(i, GridDepth), GridDepth)
    PROVE  LET n == Route(AllPoints[i])
           IN  /\ n \in DOMAIN chunks
               /\ Key(i, chunks[n].level) = chunks[n].cell
<1> DEFINE cell == Key(i, GridDepth)
           s == Pieces(GridDepth, cell)
<1>1. /\ GridDepth \in Nat /\ GridDepth <= Span /\ GridDepth \in Levels
      /\ Span \in Nat /\ SplitLevelCap \in Nat /\ GridDepth + SplitLevelCap <= Span
  BY LevelsAre, GridDepthIs DEF Levels
<1>2. cell \in Grid(GridDepth) /\ cell \in Cells
  BY <1>1, GridCells DEF IsRoot
<1>3. PICK b \in Nat : FoundAt(chunks, s, b)
  BY <1>1, ChunksOfRoot
<1>4. PICK k \in 1 .. SplitLevelCap :
        /\ Len(s) = Parts(k)
        /\ \A j \in 1 .. Parts(k) : s[j].level = GridDepth + k /\ s[j].cell = Below(cell, k, j - 1)
  BY <1>2, SplitPieces
<1>5. k \in Nat /\ k > 0 /\ GridDepth + k <= Span /\ GridDepth + k > GridDepth /\ (GridDepth + k) - GridDepth = k
  BY <1>1
<1> DEFINE N == Parts(k)
<1>6. N \in Nat \ {0}
  BY <1>5, TwoPowers
<1>7. \A j \in 1 .. N : \A x : Below(cell, k, j - 1) = x =>
        x \in Cells /\ Up(x, k) = cell /\ SubOctantIndex(x, k) = j - 1
  <2>1. ASSUME NEW j \in 1 .. N
        PROVE  /\ Below(cell, k, j - 1) \in Cells /\ Up(Below(cell, k, j - 1), k) = cell
               /\ SubOctantIndex(Below(cell, k, j - 1), k) = j - 1
    <3>1. j - 1 \in 0 .. Parts(k) - 1
      BY <1>6
    <3> QED
      BY <1>2, <1>5, <3>1, BelowIs
  <2> QED
    BY <2>1
<1>8. \A j \in 1 .. N : /\ b + j \in DOMAIN chunks /\ chunks[b + j] = s[j]
                        /\ chunks[b + j].level = GridDepth + k
                        /\ chunks[b + j].cell = Below(cell, k, j - 1)
  BY <1>3, <1>4 DEF FoundAt
<1>9. Distinct(chunks)
  BY DEF PlanFor
<1> HIDE DEF N, cell
<1> DEFINE W == WholeAt(cell)
           P == PartsAt(cell)
<1>10. ASSUME NEW p \in W PROVE FALSE
  <2>1. p \in WholeAt(Key(i, GridDepth))
    BY DEF cell
  <2> DEFINE m == chunks[p].level
  <2>2. /\ m \in Levels /\ IsRoot(m, Key(i, m)) /\ Fits(Key(i, m), m)
    BY <2>1, WholeIsOwn
  <2> HIDE DEF m
  <2>3. m \in Nat /\ m <= GridDepth
    BY <2>2, LevelsAre
  <2>4. m # GridDepth
    BY <2>2
  <2>5. m < GridDepth
    BY <1>1, <2>3, <2>4
  <2> QED
    BY <1>1, <2>2, <2>5, OneRoot
<1>11. ASSUME NEW j \in 1 .. N PROVE b + j \in P
  BY <1>5, <1>7, <1>8, <1>11 DEF PartsAt
<1>12. ASSUME NEW p \in P PROVE \E j \in 1 .. N : p = b + j
  <2>1. p \in 1 .. Len(chunks) /\ \E j \in 1 .. Len(s) : chunks[p] = s[j]
    BY PartIsOwn DEF PartsAt
  <2>2. PICK j \in 1 .. N : chunks[p] = s[j]
    BY <1>4, <2>1 DEF N
  <2>3. b + j \in 1 .. Len(chunks) /\ chunks[p] = chunks[b + j]
    BY <1>8, <2>2
  <2>4. Voxel(chunks[p]) = Voxel(chunks[b + j])
    BY <2>3 DEF Voxel
  <2>5. p = b + j
    BY <1>9, <2>1, <2>3, <2>4 DEF Distinct
  <2> QED
    BY <2>5
<1>13. ChunkLut(cell) =
         IF W \cup P = {} THEN NoChunk
         ELSE IF Max(W \cup P) \in W THEN [chunk |-> Max(W)]
         ELSE LET first == Min(P)
                  d     == chunks[first].level - GridDepth
              IN  [k |-> d, base |-> first - SubOctantIndex(chunks[first].cell, d)]
  BY DEF ChunkLut, WholeAt, PartsAt
<1> HIDE DEF W, P, s
<1>14. Min(P) = b + 1
  <2>1. 1 \in 1 .. N
    BY <1>6
  <2>2. b + 1 \in P
    BY <1>11, <2>1
  <2>3. \A p \in P : p \in Int /\ b + 1 <= p
    BY <1>6, <1>12
  <2>4. P \subseteq Int /\ P # {} /\ b + 1 \in Int
    BY <2>2, <2>3
  <2>5. Min(P) \in P /\ \A p \in P : Min(P) <= p
    BY <2>3, <2>4, MinIs
  <2>6. b + 1 <= Min(P) /\ Min(P) <= b + 1 /\ Min(P) \in Int
    BY <2>2, <2>3, <2>5
  <2> QED
    BY <2>6
<1>15. W = {} /\ P # {}
  <2>1. 1 \in 1 .. N
    BY <1>6
  <2> QED
    BY <1>10, <1>11, <2>1
<1>16. /\ chunks[b + 1].level - GridDepth = k
       /\ SubOctantIndex(chunks[b + 1].cell, k) = 0
  <2>1. 1 \in 1 .. N
    BY <1>6
  <2>2. chunks[b + 1].level = GridDepth + k /\ chunks[b + 1].cell = Below(cell, k, 1 - 1)
    BY <1>8, <2>1
  <2>3. SubOctantIndex(chunks[b + 1].cell, k) = 1 - 1
    BY <1>7, <2>1, <2>2
  <2> QED
    BY <1>5, <2>2, <2>3
<1>17. ChunkLut(cell) = [k |-> k, base |-> b + 1]
  <2>1. ChunkLut(cell) = LET first == Min(P)
                             d     == chunks[first].level - GridDepth
                         IN  [k |-> d, base |-> first - SubOctantIndex(chunks[first].cell, d)]
    BY <1>13, <1>15
  <2>2. (b + 1) - 0 = b + 1
    OBVIOUS
  <2>3. ChunkLut(cell) = [k |-> k, base |-> (b + 1) - 0]
    BY <1>14, <1>16, <2>1
  <2> QED
    BY <2>2, <2>3
<1> DEFINE deep == Key(i, GridDepth + k)
           j == SubOctantIndex(deep, k)
<1>18. deep \in Grid(GridDepth + k) /\ Up(deep, k) = cell /\ deep \in Cells
  <2>1. Key(i, GridDepth + k) \in Grid(GridDepth + k) /\ Up(Key(i, GridDepth + k), k) = Key(i, GridDepth)
    BY <1>1, <1>5, KeyIs
  <2>2. GridDepth + k \in Nat
    BY <1>1, <1>5
  <2> QED
    BY <2>1, <2>2, GridCells DEF cell
<1>19. j \in 0 .. N - 1 /\ Below(cell, k, j) = deep
  <2> HIDE DEF deep
  <2>1. SubOctantIndex(deep, k) \in 0 .. Parts(k) - 1 /\ Below(Up(deep, k), k, SubOctantIndex(deep, k)) = deep
    BY <1>5, <1>18, BelowAll
  <2> QED
    BY <1>18, <2>1 DEF N
<1>20. Route(AllPoints[i]) = (b + 1) + j
  <2> DEFINE entry == ChunkLut(cell)
             point == AllPoints[i]
             in == [a \in Axes |-> Clamp(deep[a] - cell[a] * Pow(2, k), 0, Pow(2, k) - 1)]
  <2>1. ~("chunk" \in DOMAIN entry) /\ entry.k = k /\ entry.base = b + 1
    BY <1>17
  <2>2. cell = PointToKey(Encoded(point), GridDepth)
    BY DEF Key, cell
  <2>3. deep = PointToKey(Encoded(point), GridDepth + k)
    BY DEF Key
  <2>4. CellIndex(in, Pow(2, k)) = j
    <3> HIDE DEF deep
    <3> QED
      BY <1>5, <1>18, PlaceInCell
  <2>5. Route(point) =
          IF "chunk" \in DOMAIN entry THEN entry.chunk
          ELSE LET dp == PointToKey(Encoded(point), GridDepth + entry.k)
                   at == [a \in Axes |-> Clamp(dp[a] - cell[a] * Pow(2, entry.k),
                                               0, Pow(2, entry.k) - 1)]
               IN  entry.base + CellIndex(at, Pow(2, entry.k))
    <3> HIDE DEF cell
    <3> QED
      BY <2>2 DEF Route
  <2> HIDE DEF entry, point, deep, j
  <2>6. Route(point) = entry.base + CellIndex(in, Pow(2, k))
    BY <2>1, <2>3, <2>5
  <2> QED
    BY <2>1, <2>4, <2>6 DEF point
<1> HIDE DEF deep, j
<1>21. j + 1 \in 1 .. N /\ (j + 1) - 1 = j /\ (b + 1) + j = b + (j + 1)
  BY <1>6, <1>19
<1> DEFINE n == b + (j + 1)
<1>22. n \in DOMAIN chunks /\ chunks[n].level = GridDepth + k /\ chunks[n].cell = deep
  BY <1>8, <1>19, <1>21
<1>23. Route(AllPoints[i]) = n
  BY <1>20, <1>21
<1>24. Key(i, chunks[n].level) = chunks[n].cell
  BY <1>22 DEF deep
<1> HIDE DEF n
<1> QED
  BY <1>22, <1>23, <1>24

LEMMA InvariantRoutes ==
    ASSUME IInv
    PROVE  RoutedIntoOwnChunk
<1>1. SUFFICES ASSUME Planned, NEW i \in DOMAIN AllPoints
               PROVE  LET n == Route(AllPoints[i])
                      IN  /\ n \in DOMAIN chunks
                          /\ PointToKey(Encoded(AllPoints[i]), chunks[n].level) = chunks[n].cell
  BY DEF RoutedIntoOwnChunk
<1>2. GivenOK /\ PlanFor(chunks, Levels, Cells) /\ DOMAIN chunks = 1 .. Len(chunks)
  BY <1>1, PlannedIs
<1>3. i \in 1 .. TotalPoints
  BY <1>1, <1>2, PointsAre
<1>4. PICK l \in Levels : IsRoot(l, Key(i, l))
  BY <1>2, <1>3, RootExists
<1> DEFINE n == Route(AllPoints[i])
<1>5. n \in DOMAIN chunks /\ Key(i, chunks[n].level) = chunks[n].cell
  <2>1. CASE Fits(Key(i, l), l)
    BY <1>2, <1>3, <1>4, <2>1, RoutedWhole
  <2>2. CASE ~Fits(Key(i, l), l)
    <3>1. l = GridDepth
      BY <1>4, <2>2 DEF IsRoot
    <3> QED
      BY <1>2, <1>3, <1>4, <2>2, <3>1, RoutedPart
  <2> QED
    BY <2>1, <2>2
<1> HIDE DEF n
<1>6. PointToKey(Encoded(AllPoints[i]), chunks[n].level) = chunks[n].cell
  BY <1>5 DEF Key
<1> QED
  BY <1>5, <1>6 DEF n

(***************************************************************************)
(* Theorems                                                                *)
(***************************************************************************)
\* The table and the plan are never out of step: a point is led to a chunk
\* of the plan that it lies in, wherever its coordinates are.
THEOREM PointsAreRouted == Spec => []RoutedIntoOwnChunk
<1>1. IInv => RoutedIntoOwnChunk
  BY InvariantRoutes
<1> QED
  BY <1>1, PlannerInvariant, PTL

\* The state is of its type, and no chunk lies in another.
THEOREM PlanIsApart == Spec => []ChunksApart
<1>1. IInv => ChunksApart
  BY InvariantIsApart
<1> QED
  BY <1>1, PlannerInvariant, PTL

\* No point is planned twice or forgotten: the estimates add up to the
\* input, with remainders shared out, and are exact where nothing is split.
THEOREM EstimatesAddUp == Spec => []EstimatesConserve
<1>1. IInv => EstimatesConserve
  BY InvariantConserves
<1> QED
  BY <1>1, PlannerInvariant, PTL

\* Merging level by level finds the largest voxels that fit the target, and
\* what is split below the grid is what does not fit in one cell.
THEOREM MergeFindsCoarsest == Spec => []PlanIsCoarsest
<1>1. IInv => PlanIsCoarsest
  BY InvariantIsCoarsest
<1> QED
  BY <1>1, PlannerInvariant, PTL

\* A chunk fits its share of the memory budget, but for the lower bound of
\* the target and for the depth to which cells are split.
THEOREM PlanKeepsBudget == Spec => []PlanFitsBudget
<1>1. IInv => PlanFitsBudget
  BY InvariantFitsBudget
<1> QED
  BY <1>1, PlannerInvariant, PTL

\* The bounds the headers are compared with are those of the points, for any
\* number of workers and any division of the files among them.
THEOREM ScannedBounds == Spec => []BoundsExact
<1>1. IInv => BoundsExact
  BY InvariantBoundsExact
<1> QED
  BY <1>1, PlannerInvariant, PTL
==============================================================================
