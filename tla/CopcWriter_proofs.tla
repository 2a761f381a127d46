-------------------------- MODULE CopcWriter_proofs --------------------------
(***************************************************************************)
(* The windows of the writer are bounded and lose no node, the walk over   *)
(* the node list and the chunk table finds every node's own chunk, the     *)
(* header is exact, and a reader finds every node in the pages.  The first *)
(* part is about sums of lists of numbers and sets listed in order, which  *)
(* the statements are made of: a sum counts the members of sets that are   *)
(* apart, and the n-th of a set in order is the one with n - 1 before it.  *)
(* The second part is the inductive invariant, action by action; the third *)
(* draws the properties of the loop from it.  The fourth part is about     *)
(* pages: a tree of pages is Good, which is shown for a page that is not   *)
(* cut, then for a cut with Good pages behind it, and so for every number  *)
(* of boundaries; Good pages laid out and patched are where the pointers   *)
(* to them say; and a reader reaches them.  The last part is the invariant *)
(* of what the file has behind its chunks, and the theorems.               *)
(***************************************************************************)
EXTENDS CopcWriter, SequenceTheorems, FiniteSetTheorems, WellFoundedInduction, TLAPS

(***************************************************************************)
(* Numbers and sums                                                        *)
(***************************************************************************)
\* A nonempty set of naturals has a least element.
LEMMA Least ==
    ASSUME NEW T, T \subseteq Nat, T # {}
    PROVE  \E n \in T : \A m \in T : n <= m
<1> DEFINE R == OpToRel(<, Nat)
<1>1. IsWellFoundedOn(R, Nat)
  BY NatLessThanWellFounded
<1>2. \A x, y \in Nat : <<x, y>> \in R <=> x < y
  BY DEF OpToRel
<1> HIDE DEF R
<1>3. PICK x \in T : \A y \in T : ~(<<y, x>> \in R)
  BY <1>1, WFMin
<1>4. \A y \in T : ~(y < x)
  BY <1>2, <1>3
<1> QED
  BY <1>4

\* u has the sums of the prefixes of s up to the n-th.
PrefixSums(s, n, u) ==
    /\ u \in [0 .. n -> Nat] /\ u[0] = 0
    /\ \A i \in 1 .. n : u[i] = u[i - 1] + s[i]

\* There are prefix sums: take the least prefix without any.
LEMMA PrefixSumsExist ==
    ASSUME NEW s \in Seq(Nat), NEW n \in 0 .. Len(s)
    PROVE  \E u : PrefixSums(s, n, u)
<1> DEFINE P(m) == \E u : PrefixSums(s, m, u)
           B == {m \in 0 .. Len(s) : ~P(m)}
<1>1. SUFFICES ASSUME B # {} PROVE FALSE
  BY DEF B
<1>2. Len(s) \in Nat /\ \A i \in 1 .. Len(s) : s[i] \in Nat
  BY LenProperties, ElementOfSeq
<1>3. B \subseteq Nat
  BY <1>2
<1> HIDE DEF B
<1>4. PICK m \in B : \A k \in B : m <= k
  BY <1>1, <1>3, Least
<1>5. m \in 0 .. Len(s) /\ ~P(m)
  BY <1>4 DEF B
<1>6. m # 0
  <2>1. PrefixSums(s, 0, [i \in 0 .. 0 |-> 0])
    BY DEF PrefixSums
  <2> QED
    BY <1>5, <2>1
<1>7. P(m - 1)
  <2>1. m - 1 \in 0 .. Len(s) /\ m - 1 \notin B
    BY <1>2, <1>4, <1>5, <1>6
  <2> QED
    BY <2>1 DEF B
<1>8. PICK u : PrefixSums(s, m - 1, u)
  BY <1>7
<1> DEFINE v == [i \in 0 .. m |-> IF i < m THEN u[i] ELSE u[m - 1] + s[m]]
<1>9. m \in Nat \ {0} /\ m - 1 \in Nat /\ s[m] \in Nat
  BY <1>2, <1>5, <1>6
<1>10. u \in [0 .. m - 1 -> Nat] /\ u[0] = 0 /\ \A i \in 1 .. m - 1 : u[i] = u[i - 1] + s[i]
  BY <1>8 DEF PrefixSums
<1>11. PrefixSums(s, m, v)
  <2>1. v \in [0 .. m -> Nat]
    BY <1>9, <1>10
  <2>2. v[0] = 0
    BY <1>9, <1>10
  <2>3. ASSUME NEW i \in 1 .. m PROVE v[i] = v[i - 1] + s[i]
    <3>1. CASE i < m
      BY <1>9, <1>10, <3>1
    <3>2. CASE i = m
      BY <1>9, <1>10, <3>2
    <3> QED
      BY <1>9, <3>1, <3>2
  <2> QED
    BY <2>1, <2>2, <2>3 DEF PrefixSums
<1> QED
  BY <1>5, <1>11

\* The sum of a list is the last of its prefix sums.
LEMMA SumIs ==
    ASSUME NEW s \in Seq(Nat)
    PROVE  \E u : PrefixSums(s, Len(s), u) /\ SumOf(s) = u[Len(s)]
<1> DEFINE F(u) == [n \in 0 .. Len(s) |-> IF n = 0 THEN 0 ELSE u[n - 1] + s[n]]
           U == CHOOSE u : u = F(u)
<1>1. Len(s) \in Nat
  BY LenProperties
<1>2. PICK u : PrefixSums(s, Len(s), u)
  BY <1>1, PrefixSumsExist
<1>3. u = F(u)
  BY <1>1, <1>2 DEF PrefixSums
<1>4. U = F(U)
  BY <1>3
<1>5. SumOf(s) = U[Len(s)]
  BY DEF SumOf
<1> HIDE DEF U
<1> DEFINE B == {n \in 0 .. Len(s) : U[n] # u[n]}
<1>6. ASSUME NEW n \in 0 .. Len(s) PROVE U[n] = u[n]
  <2> SUFFICES ASSUME B # {} PROVE FALSE
    BY <1>6
  <2>1. B \subseteq Nat
    BY <1>1
  <2> HIDE DEF B
  <2>2. PICK m \in B : \A k \in B : m <= k
    BY <2>1, Least
  <2>3. m \in 0 .. Len(s) /\ U[m] # u[m] /\ m \in Nat
    BY <1>1, <2>2 DEF B
  <2>4. U[m] = IF m = 0 THEN 0 ELSE U[m - 1] + s[m]
    BY <1>4, <2>3
  <2>5. u[m] = IF m = 0 THEN 0 ELSE u[m - 1] + s[m]
    BY <1>3, <2>3
  <2>6. m # 0
    BY <2>3, <2>4, <2>5
  <2>7. m - 1 \in 0 .. Len(s) /\ m - 1 \notin B
    BY <1>1, <2>2, <2>3, <2>6
  <2>8. U[m - 1] = u[m - 1]
    BY <2>7 DEF B
  <2> QED
    BY <2>3, <2>4, <2>5, <2>6, <2>8
<1>7. U[Len(s)] = u[Len(s)]
  BY <1>1, <1>6
<1> QED
  BY <1>2, <1>5, <1>7

LEMMA SumIsNat ==
    ASSUME NEW s \in Seq(Nat)
    PROVE  SumOf(s) \in Nat
<1>1. PICK u : PrefixSums(s, Len(s), u) /\ SumOf(s) = u[Len(s)]
  BY SumIs
<1>2. Len(s) \in Nat
  BY LenProperties
<1> QED
  BY <1>1, <1>2 DEF PrefixSums

\* The first n of the sets together.
Joined(P, n) == UNION {P[i] : i \in 1 .. n}

\* Sets that are apart have together as many elements as they have one by one.
LEMMA SumCounts ==
    ASSUME NEW s \in Seq(Nat), NEW P,
           \A i \in 1 .. Len(s) : IsFiniteSet(P[i]) /\ Cardinality(P[i]) = s[i],
           \A i, j \in 1 .. Len(s) : i # j => P[i] \cap P[j] = {}
    PROVE  Cardinality(Joined(P, Len(s))) = SumOf(s)
<1> DEFINE All(n) == Joined(P, n)
           Counted(n, u) == IsFiniteSet(All(n)) /\ Cardinality(All(n)) = u[n]
<1>1. PICK u : PrefixSums(s, Len(s), u) /\ SumOf(s) = u[Len(s)]
  BY SumIs
<1>2. Len(s) \in Nat
  BY LenProperties
<1> DEFINE B == {n \in 0 .. Len(s) : ~Counted(n, u)}
<1>3. SUFFICES ASSUME B # {} PROVE FALSE
  <2>1. Len(s) \notin B => Counted(Len(s), u)
    BY <1>2
  <2> QED
    BY <1>1, <2>1
<1>4. B \subseteq Nat
  BY <1>2
<1> HIDE DEF B
<1>5. PICK m \in B : \A k \in B : m <= k
  BY <1>3, <1>4, Least
<1>6. m \in 0 .. Len(s) /\ ~Counted(m, u) /\ m \in Nat
  BY <1>2, <1>5 DEF B
<1>7. m # 0
  <2>1. All(0) = {}
    BY DEF Joined
  <2>2. u[0] = 0
    BY <1>1 DEF PrefixSums
  <2> QED
    BY <1>6, <2>1, <2>2, FS_EmptySet
<1>8. m \in 1 .. Len(s) /\ m - 1 \in 0 .. Len(s) /\ m - 1 \notin B
  BY <1>2, <1>5, <1>6, <1>7
<1>9. Counted(m - 1, u)
  BY <1>8 DEF B
<1>10. All(m) = All(m - 1) \cup P[m]
  <2>1. 1 .. m = (1 .. m - 1) \cup {m}
    BY <1>6, <1>8
  <2> QED
    BY <2>1 DEF Joined
<1>11. All(m - 1) \cap P[m] = {}
  BY <1>2, <1>8 DEF Joined
<1>12. IsFiniteSet(P[m]) /\ Cardinality(P[m]) = s[m]
  BY <1>8
<1>13. u[m] = u[m - 1] + s[m] /\ u[m - 1] \in Nat /\ s[m] \in Nat
  BY <1>1, <1>8, ElementOfSeq DEF PrefixSums
<1> HIDE DEF All
<1>14. /\ IsFiniteSet(All(m))
       /\ Cardinality(All(m)) = Cardinality(All(m - 1)) + Cardinality(P[m]) - Cardinality({})
  <2> DEFINE X == All(m - 1)
             Y == P[m]
  <2>1. IsFiniteSet(X) /\ IsFiniteSet(Y)
    BY <1>9, <1>12
  <2>2. X \cap Y = {} /\ All(m) = X \cup Y
    BY <1>10, <1>11
  <2> HIDE DEF X, Y
  <2>3. /\ IsFiniteSet(X \cup Y)
        /\ Cardinality(X \cup Y) = Cardinality(X) + Cardinality(Y) - Cardinality(X \cap Y)
    BY <2>1, FS_Union
  <2> QED
    BY <2>2, <2>3 DEF X, Y
<1>15. Cardinality({}) = 0
  BY FS_EmptySet
<1>16. Cardinality(All(m)) = u[m]
  BY <1>9, <1>12, <1>13, <1>14, <1>15
<1> QED
  BY <1>6, <1>14, <1>16

(***************************************************************************)
(* A set in order                                                          *)
(***************************************************************************)
\* R orders S from the least element on.
Orders(R, S) ==
    /\ \A x \in S : <<x, x>> \notin R
    /\ \A x, y \in S : x = y \/ <<x, y>> \in R \/ <<y, x>> \in R
    /\ \A x, y, z \in S : <<x, y>> \in R /\ <<y, z>> \in R => <<x, z>> \in R

\* The number of predecessors.
RankOf(R, S, x) == Cardinality({y \in S : <<y, x>> \in R})

\* In a finite set that R orders every number of predecessors occurs once.
LEMMA Ranks ==
    ASSUME NEW S, IsFiniteSet(S), NEW R, Orders(R, S)
    PROVE  /\ \A x \in S : RankOf(R, S, x) \in 0 .. Cardinality(S) - 1
           /\ \A u, v \in S : RankOf(R, S, u) = RankOf(R, S, v) => u = v
           /\ \A u, v \in S : <<u, v>> \in R => RankOf(R, S, u) < RankOf(R, S, v)
           /\ \A n \in 1 .. Cardinality(S) : \E x \in S : RankOf(R, S, x) = n - 1
<1> DEFINE Below(x) == {y \in S : <<y, x>> \in R}
           Rank(x) == Cardinality(Below(x))
           N == Cardinality(S)
<1>1. N \in Nat
  BY FS_CardinalityType
<1>2. ASSUME NEW x \in S
      PROVE  IsFiniteSet(Below(x)) /\ Rank(x) \in 0 .. N - 1
  <2>1. Below(x) \subseteq S /\ Below(x) # S
    BY DEF Orders
  <2> HIDE DEF Below
  <2>2. IsFiniteSet(Below(x)) /\ Rank(x) <= N /\ (N = Rank(x) => S = Below(x))
    BY <2>1, FS_Subset
  <2>3. Rank(x) \in Nat
    BY <2>2, FS_CardinalityType
  <2> QED
    BY <1>1, <2>1, <2>2, <2>3
<1>3. ASSUME NEW x \in S, NEW y \in S, <<x, y>> \in R
      PROVE  Rank(x) < Rank(y)
  <2>1. Below(x) \subseteq Below(y) /\ x \in Below(y) /\ x \notin Below(x)
    BY <1>3 DEF Orders
  <2>2. IsFiniteSet(Below(y)) /\ Rank(y) \in 0 .. N - 1 /\ Rank(x) \in 0 .. N - 1
    BY <1>2
  <2> HIDE DEF Below
  <2>3. Rank(x) <= Rank(y) /\ (Rank(y) = Rank(x) => Below(y) = Below(x))
    BY <2>1, <2>2, FS_Subset
  <2> HIDE DEF N
  <2> QED
    BY <1>1, <2>1, <2>2, <2>3
<1>4. ASSUME NEW x \in S, NEW y \in S, Rank(x) = Rank(y)
      PROVE  x = y
  <2>1. Rank(x) \in Int /\ Rank(y) \in Int
    BY <1>1, <1>2
  <2>2. ~(Rank(x) < Rank(y)) /\ ~(Rank(y) < Rank(x))
    BY <1>4, <2>1
  <2> QED
    BY <1>3, <2>2 DEF Orders
<1> HIDE DEF Rank, N
<1>5. ASSUME NEW n \in 1 .. N PROVE \E x \in S : Rank(x) = n - 1
  <2> DEFINE f == [x \in S |-> Rank(x) + 1]
  <2>1. ASSUME NEW x \in S PROVE Rank(x) + 1 \in 1 .. N /\ Rank(x) \in Int
    <3>1. Rank(x) \in 0 .. N - 1
      BY <1>2
    <3> QED
      BY <1>1, <3>1
  <2>2. \A x, y \in S : Rank(x) + 1 = Rank(y) + 1 => x = y
    BY <1>4, <2>1
  <2>3. f \in Injection(S, 1 .. N)
    BY <2>1, <2>2 DEF Injection, IsInjective
  <2>4. IsFiniteSet(1 .. N) /\ Cardinality(1 .. N) = N
    BY <1>1, FS_Interval
  <2> HIDE DEF f
  <2>8. Cardinality(S) = N
    BY DEF N
  <2>5. f \in Surjection(S, 1 .. N)
    BY <2>3, <2>4, <2>8, FS_Injection
  <2>6. PICK x \in S : f[x] = n
    BY <1>5, <2>5 DEF Surjection
  <2>7. Rank(x) + 1 = n
    BY <2>6 DEF f
  <2> QED
    BY <2>1, <2>7
<1>6. /\ \A x \in S : Rank(x) \in 0 .. N - 1
      /\ \A x, y \in S : Rank(x) = Rank(y) => x = y
      /\ \A x, y \in S : <<x, y>> \in R => Rank(x) < Rank(y)
      /\ \A n \in 1 .. N : \E x \in S : Rank(x) = n - 1
  BY <1>2, <1>3, <1>4, <1>5
<1> QED
  BY <1>6, Zenon DEF RankOf, Rank, N, Below

\* e lists S in the order R: all of it, nothing twice.
Ordered(e, S, R) ==
    /\ e \in Seq(S) /\ Len(e) = Cardinality(S) /\ DOMAIN e = 1 .. Len(e)
    /\ \A i \in DOMAIN e : e[i] \in S
    /\ \A i, j \in DOMAIN e : e[i] = e[j] => i = j
    /\ \A x \in S : \E i \in DOMAIN e : e[i] = x
    /\ \A i \in DOMAIN e : RankOf(R, S, e[i]) = i - 1

\* A list of n things is a function on 1 .. n.
LEMMA FunctionIsList ==
    ASSUME NEW S, NEW n \in Nat, NEW f \in [1 .. n -> S]
    PROVE  f \in Seq(S) /\ Len(f) = n /\ DOMAIN f = 1 .. n
<1>1. f \in Seq(S)
  <2>1. Seq(S) = UNION {[1 .. m -> S] : m \in Nat}
    BY SeqDef
  <2> QED
    BY <2>1, Zenon
<1>2. Len(f) \in Nat /\ DOMAIN f = 1 .. Len(f)
  BY <1>1, LenProperties
<1>3. DOMAIN f = 1 .. n
  OBVIOUS
<1>4. Len(f) = n
  <2> DEFINE m == Len(f)
  <2>1. m \in Nat /\ 1 .. n = 1 .. m
    BY <1>2, <1>3
  <2> HIDE DEF m
  <2>2. CASE n = 0
    <3>1. 1 \notin 1 .. m
      BY <2>1, <2>2
    <3> QED
      BY <2>1, <2>2, <3>1 DEF m
  <2>3. CASE n # 0
    <3>1. n \in 1 .. m
      BY <2>1, <2>3
    <3>2. m \in 1 .. n
      BY <2>1, <3>1
    <3> QED
      BY <3>1, <3>2 DEF m
  <2> QED
    BY <2>2, <2>3
<1> QED
  BY <1>1, <1>3, <1>4

\* A list in which the n-th has n - 1 predecessors.
LEMMA ByRank ==
    ASSUME NEW S, IsFiniteSet(S), NEW R, Orders(R, S),
           NEW e \in [1 .. Cardinality(S) -> S],
           \A i \in 1 .. Cardinality(S) : RankOf(R, S, e[i]) = i - 1
    PROVE  Ordered(e, S, R)
<1> DEFINE N == Cardinality(S)
<1>1. N \in Nat
  BY FS_CardinalityType
<1>2. e \in Seq(S) /\ Len(e) = N /\ DOMAIN e = 1 .. N
  BY <1>1, FunctionIsList
<1>3. /\ \A x \in S : RankOf(R, S, x) \in 0 .. N - 1
      /\ \A x, y \in S : RankOf(R, S, x) = RankOf(R, S, y) => x = y
  BY Ranks
<1>4. \A i \in 1 .. N : e[i] \in S /\ RankOf(R, S, e[i]) = i - 1
  OBVIOUS
<1> HIDE DEF N
<1>5. ASSUME NEW i \in 1 .. N, NEW j \in 1 .. N, e[i] = e[j] PROVE i = j
  BY <1>1, <1>4, <1>5
<1>6. ASSUME NEW x \in S PROVE \E i \in 1 .. N : e[i] = x
  <2>1. RankOf(R, S, x) + 1 \in 1 .. N /\ (RankOf(R, S, x) + 1) - 1 = RankOf(R, S, x)
    BY <1>1, <1>3
  <2>2. RankOf(R, S, e[RankOf(R, S, x) + 1]) = RankOf(R, S, x)
    BY <1>4, <2>1
  <2> QED
    BY <1>3, <1>4, <2>1, <2>2
<1>7. \A i \in 1 .. N : RankOf(R, S, e[i]) = i - 1
  BY <1>4
<1> QED
  BY <1>2, <1>4, <1>5, <1>6, <1>7 DEF Ordered, N

KeyOrder(S) == {p \in S \X S : KeyLess(p[1], p[2])}

\* Keys are ordered by level, then along the level.
LEMMA KeysAreOrdered ==
    ASSUME NEW S, S \subseteq Nat \X Nat
    PROVE  /\ Orders(KeyOrder(S), S)
           /\ \A x, y \in S : <<x, y>> \in KeyOrder(S) <=> KeyLess(x, y)
<1>1. \A x, y \in S : <<x, y>> \in KeyOrder(S) <=> KeyLess(x, y)
  BY DEF KeyOrder
<1>2. \A x \in S : x[1] \in Nat /\ x[2] \in Nat /\ x = <<x[1], x[2]>>
  OBVIOUS
<1>3. \A x \in S : ~KeyLess(x, x)
  BY <1>2 DEF KeyLess
<1>4. \A x, y \in S : x = y \/ KeyLess(x, y) \/ KeyLess(y, x)
  BY <1>2 DEF KeyLess
<1>5. \A x, y, z \in S : KeyLess(x, y) /\ KeyLess(y, z) => KeyLess(x, z)
  BY <1>2 DEF KeyLess
<1> QED
  BY <1>1, <1>3, <1>4, <1>5 DEF Orders

LEMMA KeysInOrder ==
    ASSUME NEW S, S \subseteq Nat \X Nat, IsFiniteSet(S)
    PROVE  Ordered(InOrder(S, KeyLess), S, KeyOrder(S))
<1> DEFINE e == InOrder(S, KeyLess)
           N == Cardinality(S)
           R == KeyOrder(S)
<1>1. Orders(R, S) /\ \A x, y \in S : <<x, y>> \in R <=> KeyLess(x, y)
  BY KeysAreOrdered
<1>2. ASSUME NEW x \in S
      PROVE  Cardinality({y \in S : KeyLess(y, x)}) = RankOf(R, S, x)
  <2>1. {y \in S : KeyLess(y, x)} = {y \in S : <<y, x>> \in R}
    BY <1>1
  <2> QED
    BY <2>1 DEF RankOf
<1>3. e = [n \in 1 .. N |-> CHOOSE x \in S : Cardinality({y \in S : KeyLess(y, x)}) = n - 1]
  BY DEF InOrder
<1> HIDE DEF R
<1>4. \A n \in 1 .. Cardinality(S) : \E x \in S : RankOf(R, S, x) = n - 1
  <2> HIDE DEF e
  <2> QED
    BY <1>1, Ranks
<1>5. ASSUME NEW n \in 1 .. N
      PROVE  e[n] \in S /\ RankOf(R, S, e[n]) = n - 1
  <2>1. PICK x \in S : RankOf(R, S, x) = n - 1
    BY <1>4
  <2>2. Cardinality({y \in S : KeyLess(y, x)}) = n - 1
    BY <1>2, <2>1
  <2>3. e[n] = CHOOSE z \in S : Cardinality({y \in S : KeyLess(y, z)}) = n - 1
    BY <1>3
  <2> HIDE DEF e
  <2>4. e[n] \in S /\ Cardinality({y \in S : KeyLess(y, e[n])}) = n - 1
    BY <2>2, <2>3
  <2> QED
    BY <1>2, <2>4
<1>6. e \in [1 .. N -> S]
  <2>1. DOMAIN e = 1 .. N /\ e = [n \in 1 .. N |-> e[n]]
    BY <1>3
  <2> HIDE DEF e
  <2> QED
    BY <1>5, <2>1
<1> HIDE DEF e
<1>7. Ordered(e, S, R)
  BY <1>1, <1>5, <1>6, ByRank
<1> QED
  BY <1>7 DEF e, R

\* The members of a set in an order in which each has a number of predecessors.
LEMMA RanksPick ==
    ASSUME NEW S, IsFiniteSet(S), NEW R, Orders(R, S), NEW e,
           e = [n \in 1 .. Cardinality(S) |-> e[n]],
           \A n \in 1 .. Cardinality(S) : e[n] = CHOOSE x \in S : RankOf(R, S, x) = n - 1
    PROVE  e \in [1 .. Cardinality(S) -> S]
<1>1. \A n \in 1 .. Cardinality(S) : \E x \in S : RankOf(R, S, x) = n - 1
  BY Ranks
<1>2. \A n \in 1 .. Cardinality(S) : e[n] \in S
  BY <1>1
<1> QED
  BY <1>2

LEMMA RankTaken ==
    ASSUME NEW S, IsFiniteSet(S), NEW R, Orders(R, S), NEW n \in 1 .. Cardinality(S)
    PROVE  \E x \in S : RankOf(R, S, x) = n - 1
BY Ranks

NumberOrder(S) == {p \in S \X S : p[1] < p[2]}

LEMMA NumberRank ==
    ASSUME NEW S, NEW x \in S
    PROVE  Cardinality({y \in S : y < x}) = RankOf(NumberOrder(S), S, x)
<1>1. {y \in S : y < x} = {y \in S : <<y, x>> \in NumberOrder(S)}
  BY DEF NumberOrder
<1> QED
  BY <1>1 DEF RankOf

LEMMA NumbersAreOrdered ==
    ASSUME NEW S, S \subseteq Int
    PROVE  Orders(NumberOrder(S), S)
<1>1. \A x, y \in S : <<x, y>> \in NumberOrder(S) <=> x < y
  BY DEF NumberOrder
<1> QED
  BY <1>1 DEF Orders

\* Of numbers it matters only that the list has them.
LEMMA NumbersInOrder ==
    ASSUME NEW S, IsFiniteSet(S), Orders(NumberOrder(S), S)
    PROVE  InOrder(S, <) \in [1 .. Cardinality(S) -> S]
<1> DEFINE e == InOrder(S, <)
           N == Cardinality(S)
<1>1. e = [n \in 1 .. N |-> CHOOSE x \in S : Cardinality({y \in S : y < x}) = n - 1]
  BY DEF InOrder
<1>2. ASSUME NEW n \in 1 .. N
      PROVE  e[n] = CHOOSE x \in S : RankOf(NumberOrder(S), S, x) = n - 1
  <2>1. e[n] = CHOOSE x \in S : Cardinality({y \in S : y < x}) = n - 1
    BY <1>1
  <2>2. \A x \in S : Cardinality({y \in S : y < x}) = RankOf(NumberOrder(S), S, x)
    BY NumberRank
  <2> HIDE DEF e
  <2> QED
    BY <2>1, <2>2
<1>3. e = [n \in 1 .. N |-> e[n]]
  BY <1>1
<1> HIDE DEF e
<1>4. e \in [1 .. N -> S]
  BY <1>2, <1>3, RanksPick
<1> QED
  BY <1>4 DEF e

\* A finite nonempty set of integers has both its ends.
LEMMA Ends ==
    ASSUME NEW S, S \subseteq Int, IsFiniteSet(S), S # {}
    PROVE  /\ Max(S) \in S /\ \A y \in S : y <= Max(S)
           /\ Min(S) \in S /\ \A y \in S : Min(S) <= y
<1> DEFINE R == NumberOrder(S)
           N == Cardinality(S)
<1>1. \A x, y \in S : <<x, y>> \in R <=> x < y
  BY DEF NumberOrder
<1>2. Orders(R, S)
  BY NumbersAreOrdered
<1>3. N \in Nat /\ N # 0
  BY FS_CardinalityType, FS_EmptySet
<1> HIDE DEF R
<1>4. \A x \in S : RankOf(R, S, x) \in 0 .. N - 1
  BY <1>2, Ranks
<1>5. \A u, v \in S : <<u, v>> \in R => RankOf(R, S, u) < RankOf(R, S, v)
  BY <1>2, Ranks
<1>6. \A n \in 1 .. N : \E x \in S : RankOf(R, S, x) = n - 1
  <2>1. ASSUME NEW n \in 1 .. Cardinality(S)
        PROVE  \E x \in S : RankOf(R, S, x) = n - 1
    BY <1>2, RankTaken
  <2> QED
    BY <2>1
<1> HIDE DEF N
<1>7. PICK x \in S : RankOf(R, S, x) = N - 1
  BY <1>3, <1>6
<1>8. PICK z \in S : RankOf(R, S, z) = 0
  BY <1>3, <1>6
<1>9. ASSUME NEW y \in S PROVE y <= x
  <2>1. SUFFICES ASSUME x < y PROVE FALSE
    BY <2>1
  <2>2. RankOf(R, S, x) < RankOf(R, S, y)
    BY <1>1, <1>5, <2>1
  <2>3. RankOf(R, S, y) \in 0 .. N - 1
    BY <1>4
  <2> QED
    BY <1>3, <1>7, <2>2, <2>3
<1>10. ASSUME NEW y \in S PROVE z <= y
  <2>1. SUFFICES ASSUME y < z PROVE FALSE
    BY <2>1
  <2>2. RankOf(R, S, y) < RankOf(R, S, z)
    BY <1>1, <1>5, <2>1
  <2>3. RankOf(R, S, y) \in 0 .. N - 1
    BY <1>4
  <2> QED
    BY <1>3, <1>8, <2>2, <2>3
<1>11. Max(S) \in S /\ \A y \in S : y <= Max(S)
  BY <1>9 DEF Max
<1>12. Min(S) \in S /\ \A y \in S : Min(S) <= y
  BY <1>10 DEF Min
<1> QED
  BY <1>11, <1>12

\* A sum can be taken in two parts.
LEMMA SumSplits ==
    ASSUME NEW n \in Nat, NEW m \in 0 .. n, NEW f \in [1 .. n -> Nat]
    PROVE  SumOf(f) = SumOf([i \in 1 .. m |-> f[i]]) + SumOf([i \in 1 .. n - m |-> f[m + i]])
<1> DEFINE g == [i \in 1 .. m |-> f[i]]
           h == [i \in 1 .. n - m |-> f[m + i]]
<1>1. m \in Nat /\ n - m \in Nat
  OBVIOUS
<1>2. f \in Seq(Nat) /\ Len(f) = n
  BY FunctionIsList
<1>3. g \in Seq(Nat) /\ Len(g) = m
  <2>1. g \in [1 .. m -> Nat]
    OBVIOUS
  <2> HIDE DEF g
  <2> QED
    BY <1>1, <2>1, FunctionIsList
<1>4. h \in Seq(Nat) /\ Len(h) = n - m
  <2>1. h \in [1 .. n - m -> Nat]
    OBVIOUS
  <2> HIDE DEF h
  <2> QED
    BY <1>1, <2>1, FunctionIsList
<1>5. \A i \in 1 .. m : g[i] = f[i]
  OBVIOUS
<1>6. \A i \in 1 .. n - m : h[i] = f[m + i]
  OBVIOUS
<1> HIDE DEF g, h
<1>7. PICK u : PrefixSums(f, n, u) /\ SumOf(f) = u[n]
  BY <1>2, SumIs
<1>8. PICK v : PrefixSums(g, m, v) /\ SumOf(g) = v[m]
  BY <1>3, SumIs
<1>9. PICK w : PrefixSums(h, n - m, w) /\ SumOf(h) = w[n - m]
  BY <1>4, SumIs
<1>10. /\ u \in [0 .. n -> Nat] /\ u[0] = 0 /\ \A i \in 1 .. n : u[i] = u[i - 1] + f[i]
       /\ v \in [0 .. m -> Nat] /\ v[0] = 0 /\ \A i \in 1 .. m : v[i] = v[i - 1] + g[i]
       /\ w \in [0 .. n - m -> Nat] /\ w[0] = 0 /\ \A i \in 1 .. n - m : w[i] = w[i - 1] + h[i]
  BY <1>7, <1>8, <1>9 DEF PrefixSums
<1> DEFINE B == {i \in 0 .. n : u[i] # IF i <= m THEN v[i] ELSE v[m] + w[i - m]}
<1>11. B = {}
  <2> SUFFICES ASSUME B # {} PROVE FALSE
    OBVIOUS
  <2>1. B \subseteq Nat
    OBVIOUS
  <2> HIDE DEF B
  <2>2. PICK i \in B : \A k \in B : i <= k
    BY <2>1, Least
  <2>3. i \in 0 .. n /\ u[i] # IF i <= m THEN v[i] ELSE v[m] + w[i - m]
    BY <2>2 DEF B
  <2>4. i # 0
    BY <1>10, <2>3
  <2>5. i - 1 \in 0 .. n /\ i - 1 \notin B
    BY <2>2, <2>3, <2>4
  <2>6. u[i - 1] = IF i - 1 <= m THEN v[i - 1] ELSE v[m] + w[i - 1 - m]
    BY <2>5 DEF B
  <2>7. CASE i <= m
    <3>1. i \in 1 .. m /\ i \in 1 .. n /\ i - 1 <= m
      BY <2>3, <2>4, <2>7
    <3>2. u[i] = u[i - 1] + f[i] /\ v[i] = v[i - 1] + g[i] /\ g[i] = f[i]
      BY <1>5, <1>10, <3>1
    <3> QED
      BY <2>3, <2>6, <2>7, <3>1, <3>2
  <2>8. CASE i = m + 1
    <3>1. i \in 1 .. n /\ 1 \in 1 .. n - m /\ i - 1 = m /\ i - m = 1
      BY <2>3, <2>8
    <3>2. u[i] = u[m] + f[i] /\ w[1] = w[0] + h[1] /\ h[1] = f[m + 1]
      <4>1. u[i] = u[i - 1] + f[i]
        BY <1>10, <3>1
      <4>2. w[1] = w[0] + h[1]
        <5>1. \A k \in 1 .. n - m : w[k] = w[k - 1] + h[k]
          BY <1>9 DEF PrefixSums
        <5>2. \A k \in 1 .. n - m : k = 1 => w[k] = w[0] + h[k]
          BY <5>1
        <5> QED
          BY <3>1, <5>2
      <4>3. h[1] = f[m + 1]
        BY <1>6, <3>1
      <4> QED
        BY <3>1, <4>1, <4>2, <4>3
    <3>3. u[m] = v[m] /\ u[i] # v[m] + w[1]
      BY <2>3, <2>6, <2>8, <3>1
    <3>4. f[i] \in Nat
      BY <3>1
    <3> QED
      BY <1>10, <2>8, <3>2, <3>3, <3>4
  <2>9. CASE i > m + 1
    <3>1. i \in 1 .. n /\ i - m \in 1 .. n - m /\ i - m - 1 \in 0 .. n - m /\ ~(i <= m) /\ ~(i - 1 <= m)
          /\ i - 1 - m = i - m - 1 /\ m + (i - m) = i
      BY <2>3, <2>9
    <3>2. u[i] = u[i - 1] + f[i] /\ w[i - m] = w[i - m - 1] + h[i - m] /\ h[i - m] = f[i]
      BY <1>6, <1>10, <3>1
    <3>3. u[i - 1] = v[m] + w[i - m - 1] /\ u[i] # v[m] + w[i - m]
      BY <2>3, <2>6, <3>1
    <3>4. f[i] \in Nat
      BY <3>1
    <3>5. v[m] \in Nat
      <4>1. m \in 0 .. m
        BY <1>1
      <4> QED
        BY <1>10, <4>1
    <3>6. w[i - m - 1] \in Nat
      BY <1>10, <3>1
    <3> QED
      BY <3>2, <3>3, <3>4, <3>5, <3>6
  <2> QED
    BY <2>3, <2>7, <2>8, <2>9
<1>12. u[n] = IF n <= m THEN v[n] ELSE v[m] + w[n - m]
  BY <1>11
<1>13. u[n] = v[m] + w[n - m]
  <2>1. CASE n <= m
    <3>1. n = m /\ n - m = 0
      BY <2>1
    <3>2. m \in 0 .. m
      BY <1>1
    <3>3. v[m] \in Nat
      BY <1>10, <3>2
    <3> QED
      BY <1>10, <1>12, <3>1, <3>3
  <2> QED
    BY <1>12, <2>1
<1>14. SumOf(f) = SumOf(g) + SumOf(h)
  BY <1>7, <1>8, <1>9, <1>13
<1> QED
  BY <1>14 DEF g, h

\* The values of a function with a finite domain.
LEMMA ValuesFinite ==
    ASSUME NEW S, IsFiniteSet(S), NEW f
    PROVE  IsFiniteSet({f[x] : x \in S})
<1> DEFINE T == {f[x] : x \in S}
           g == [x \in S |-> f[x]]
<1>1. g \in [S -> T]
  OBVIOUS
<1>2. \A t \in T : \E x \in S : g[x] = t
  OBVIOUS
<1> HIDE DEF g, T
<1>3. g \in Surjection(S, T)
  BY <1>1, <1>2 DEF Surjection
<1>4. IsFiniteSet(T)
  BY <1>3, FS_Surjection
<1> QED
  BY <1>4 DEF T

(***************************************************************************)
(* What the closure for one node returns                                   *)
(***************************************************************************)
Point == [gps : GpsTimes, ret : Nat]

CountOf(points, r) == Cardinality({i \in DOMAIN points : points[i].ret = r})

\* The earliest of the times, and Endless when there are none.
IsLow(t, times) == t \in times \cup {Endless} /\ \A u \in times \cup {Endless} : t <= u

IsHigh(t, times) == t \in times \cup {-Endless} /\ \A u \in times \cup {-Endless} : u <= t

OfNode(result, key, points) ==
    /\ result.chunk = key
    /\ result.returns \in [1 .. MaxReturn -> Nat]
    /\ \A r \in 1 .. MaxReturn : result.returns[r] = CountOf(points, r)
    /\ IsLow(result.gpsMin, TimesIn(points))
    /\ IsHigh(result.gpsMax, TimesIn(points))
    /\ result.samples \in Seq(GpsTimes)

\* A time is a number between the two sentinels, or NaN, which is neither.
LEMMA TimesAre ==
    /\ GpsTimes \subseteq Int /\ Endless \in Nat /\ NaN \in Int
    /\ \A t \in GpsTimes : t = NaN \/ (-Endless < t /\ t < Endless)
    /\ ~(-Endless < NaN /\ NaN < Endless)
  BY PagesAssumption DEF GpsTimes, NaN

LEMMA TimesAreFinite ==
    ASSUME NEW points \in Seq(Point)
    PROVE  /\ IsFiniteSet(TimesIn(points)) /\ TimesIn(points) \subseteq Int
           /\ \A t \in TimesIn(points) : -Endless < t /\ t < Endless
           /\ \A r : CountOf(points, r) \in Nat
<1>1. Len(points) \in Nat /\ DOMAIN points = 1 .. Len(points)
  BY LenProperties
<1>2. IsFiniteSet(DOMAIN points)
  BY <1>1, FS_Interval
<1>3. \A i \in DOMAIN points : points[i] \in Point
  BY <1>1, ElementOfSeq
<1>4. IsFiniteSet(TimesIn(points))
  <2> DEFINE f == [i \in DOMAIN points |-> points[i].gps]
  <2>1. \A i \in DOMAIN points : f[i] = points[i].gps
    OBVIOUS
  <2> HIDE DEF f
  <2>2. IsFiniteSet({f[i] : i \in DOMAIN points})
    BY <1>2, ValuesFinite
  <2>3. TimesIn(points) \in SUBSET {f[i] : i \in DOMAIN points}
    BY <2>1 DEF TimesIn
  <2> QED
    BY <2>2, <2>3, FS_Subset
<1>5. /\ TimesIn(points) \subseteq Int
      /\ \A t \in TimesIn(points) : -Endless < t /\ t < Endless
  <2>1. \A i \in DOMAIN points : points[i].gps \in GpsTimes
    BY <1>3 DEF Point
  <2>2. \A t \in TimesIn(points) : t \in GpsTimes /\ t # NaN
    BY <2>1 DEF TimesIn
  <2> QED
    BY <2>2, TimesAre
<1>6. ASSUME NEW r PROVE CountOf(points, r) \in Nat
  <2> DEFINE C == {i \in DOMAIN points : points[i].ret = r}
  <2>1. C \in SUBSET DOMAIN points
    OBVIOUS
  <2> HIDE DEF C
  <2>2. IsFiniteSet(C)
    BY <1>2, <2>1, FS_Subset
  <2>3. Cardinality(C) \in Nat
    BY <2>2, FS_CardinalityType
  <2> QED
    BY <2>3 DEF C, CountOf
<1> QED
  BY <1>4, <1>5, <1>6

(***************************************************************************)
(* Sorting leaves the points it is given, and no others; without a NaN     *)
(* among their times they ascend.                                          *)
(***************************************************************************)
Arranged(list, points) ==
    /\ list \in Seq(Point) /\ Len(list) = Len(points)
    /\ TimesIn(list) = TimesIn(points)
    /\ \A r : CountOf(list, r) = CountOf(points, r)
    /\ \A i \in DOMAIN points : \E j \in DOMAIN points : list[i] = points[j]
    /\ Untimed(points) \/ Ascending(list)

LEMMA SortArranges ==
    ASSUME NEW points \in Seq(Point), NEW list \in Arrangements(points)
    PROVE  Arranged(list, points)
<1> DEFINE D == DOMAIN points
<1>1. Len(points) \in Nat /\ D = 1 .. Len(points)
  BY LenProperties
<1>2. IsFiniteSet(D)
  BY <1>1, FS_Interval
<1>3. PICK place \in Bijection(D, D) :
          list = [n \in D |-> points[place[n]]] /\ (Untimed(points) \/ Ascending(list))
  BY DEF Arrangements
<1>4. /\ place \in [D -> D]
      /\ \A i, j \in D : place[i] = place[j] => i = j
      /\ \A i \in D : \E j \in D : place[j] = i
  BY <1>3 DEF Bijection, Injection, IsInjective, Surjection
<1>5. \A i \in D : points[i] \in Point
  BY <1>1, ElementOfSeq
<1> HIDE DEF D
<1>6. DOMAIN list = D /\ \A i \in D : list[i] = points[place[i]] /\ place[i] \in D
  BY <1>3, <1>4
<1>7. list \in [D -> Point]
  BY <1>3, <1>4, <1>5
<1>8. list \in Seq(Point) /\ Len(list) = Len(points)
  BY <1>1, <1>7, FunctionIsList
<1>9. \A i \in D : \E j \in D : list[j] = points[i]
  BY <1>4, <1>6
<1>10. TimesIn(list) = TimesIn(points)
  <2>1. {list[i].gps : i \in D} = {points[i].gps : i \in D}
    BY <1>6, <1>9
  <2> QED
    BY <1>6, <2>1 DEF TimesIn, D
<1>11. ASSUME NEW r PROVE CountOf(list, r) = CountOf(points, r)
  <2> DEFINE S == {i \in D : list[i].ret = r}
             T == {i \in D : points[i].ret = r}
             g == [i \in S |-> place[i]]
  <2>1. S \in SUBSET D /\ T \in SUBSET D
    OBVIOUS
  <2>2. \A i \in S : g[i] = place[i] /\ place[i] \in T
    BY <1>6
  <2>3. g \in [S -> T]
    BY <2>2
  <2>4. \A i, j \in S : g[i] = g[j] => i = j
    BY <1>4, <2>1, <2>2
  <2>5. ASSUME NEW t \in T PROVE \E i \in S : g[i] = t
    <3>1. PICK i \in D : place[i] = t
      BY <1>4, <2>1
    <3>2. i \in S
      BY <1>6, <2>5, <3>1
    <3> QED
      BY <2>2, <3>1, <3>2
  <2>6. IsFiniteSet(S)
    BY <1>2, <2>1, FS_Subset
  <2>7. CountOf(list, r) = Cardinality(S) /\ CountOf(points, r) = Cardinality(T)
    BY <1>6 DEF CountOf, D
  <2> HIDE DEF S, T, g
  <2>8. g \in Bijection(S, T)
    BY <2>3, <2>4, <2>5 DEF Bijection, Injection, IsInjective, Surjection
  <2>9. ExistsBijection(S, T)
    BY <2>8 DEF ExistsBijection
  <2> QED
    BY <2>6, <2>7, <2>9, FS_Bijection
<1>12. \A i \in D : \E j \in D : list[i] = points[j]
  BY <1>6
<1> QED
  BY <1>3, <1>8, <1>10, <1>11, <1>12 DEF Arranged, D

LEMMA SamplesAreTimes ==
    ASSUME NEW points \in Seq(Point), stride \in Nat
    PROVE  Samples(points) \in Seq(GpsTimes)
<1> DEFINE picked == {i \in DOMAIN points : (i - 1) % stride = 0 \/ i = Len(points)}
           e == InOrder(picked, <)
           N == Cardinality(picked)
           times == [j \in DOMAIN e |-> points[e[j]].gps]
<1>1. Len(points) \in Nat /\ DOMAIN points = 1 .. Len(points)
  BY LenProperties
<1>2. IsFiniteSet(DOMAIN points)
  BY <1>1, FS_Interval
<1>3. \A i \in DOMAIN points : points[i].gps \in GpsTimes
  <2>1. \A i \in DOMAIN points : points[i] \in Point
    BY <1>1, ElementOfSeq
  <2> QED
    BY <2>1 DEF Point
<1>4. picked \in SUBSET DOMAIN points /\ picked \subseteq Int
  BY <1>1
<1>5. Samples(points) = IF stride = 0 THEN <<>> ELSE times
  BY DEF Samples
<1>6. times = [j \in DOMAIN e |-> points[e[j]].gps]
  OBVIOUS
<1> HIDE DEF picked, times
<1>7. IsFiniteSet(picked) /\ Orders(NumberOrder(picked), picked)
  BY <1>2, <1>4, FS_Subset, NumbersAreOrdered
<1>8. e \in [1 .. Cardinality(picked) -> picked]
  BY <1>7, NumbersInOrder
<1> HIDE DEF e
<1>9. N \in Nat
  BY <1>7, FS_CardinalityType
<1>10. times \in [1 .. N -> GpsTimes]
  <2> HIDE DEF N
  <2>1. DOMAIN e = 1 .. N /\ \A j \in 1 .. N : e[j] \in DOMAIN points
    BY <1>4, <1>8 DEF N
  <2> QED
    BY <1>3, <1>6, <2>1
<1>11. times \in Seq(GpsTimes)
  BY <1>9, <1>10, FunctionIsList
<1> QED
  BY <1>5, <1>11, EmptySeq

\* The closure counts the points of its node, finds their range and samples them.
LEMMA EncodedIs ==
    ASSUME NEW k, nodes[k] \in Seq(Point), stride \in Nat, NEW list \in Arrangements(nodes[k])
    PROVE  OfNode(EncodedNode(k, list), k, nodes[k])
<1> DEFINE points == nodes[k]
           low == TimesIn(points) \cup {Endless}
           high == TimesIn(points) \cup {-Endless}
<1>2. points \in Seq(Point) /\ Arranged(list, points)
  BY SortArranges
<1>1. /\ EncodedNode(k, list).chunk = k /\ EncodedNode(k, list).returns = ReturnCounts(list)
      /\ EncodedNode(k, list).gpsMin = Min(low) /\ EncodedNode(k, list).gpsMax = Max(high)
      /\ EncodedNode(k, list).samples = Samples(list)
  BY <1>2 DEF EncodedNode, Arranged
<1> HIDE DEF points
<1>3. IsFiniteSet(TimesIn(points)) /\ TimesIn(points) \subseteq Int /\ \A r : CountOf(points, r) \in Nat
  BY <1>2, TimesAreFinite
<1>4. /\ ReturnCounts(list) \in [1 .. MaxReturn -> Nat]
      /\ \A r \in 1 .. MaxReturn : ReturnCounts(list)[r] = CountOf(points, r)
  <2>1. ReturnCounts(list) = [r \in 1 .. MaxReturn |-> CountOf(list, r)]
    BY DEF ReturnCounts, CountOf
  <2> QED
    BY <1>2, <1>3, <2>1 DEF Arranged
<1>5. IsLow(Min(low), TimesIn(points)) /\ IsHigh(Max(high), TimesIn(points))
  <2>1. /\ low \subseteq Int /\ low # {} /\ IsFiniteSet(low)
        /\ high \subseteq Int /\ high # {} /\ IsFiniteSet(high)
    <3> DEFINE T == TimesIn(points)
    <3>1. IsFiniteSet(T) /\ T \subseteq Int /\ Endless \in Int /\ -Endless \in Int
      BY <1>3, PagesAssumption
    <3> HIDE DEF T
    <3>2. IsFiniteSet(T \cup {Endless}) /\ IsFiniteSet(T \cup {-Endless})
      BY <3>1, FS_AddElement
    <3> QED
      BY <3>1, <3>2 DEF T
  <2>2. Min(low) \in low /\ \A y \in low : Min(low) <= y
    <3> HIDE DEF low
    <3> QED
      BY <2>1, Ends
  <2>3. Max(high) \in high /\ \A y \in high : y <= Max(high)
    <3> HIDE DEF high
    <3> QED
      BY <2>1, Ends
  <2> QED
    BY <2>2, <2>3 DEF IsLow, IsHigh
<1>6. Samples(list) \in Seq(GpsTimes)
  BY <1>2, SamplesAreTimes DEF Arranged
<1> QED
  BY <1>1, <1>4, <1>5, <1>6 DEF OfNode, points

(***************************************************************************)
(* The inductive invariant                                                 *)
(***************************************************************************)
WithPoints == {k \in DOMAIN nodes : nodes[k] # <<>>}

\* PointsOf and the statistics, of lists of keys that are given.
Total(ns, keys) == SumOf([i \in DOMAIN keys |-> Len(ns[keys[i]])])

CountUpto(ns, keys, n, r) == SumOf([i \in 1 .. n |-> CountOf(ns[keys[i]], r)])

TimesUpto(ns, keys, n) == UNION {TimesIn(ns[keys[i]]) : i \in 1 .. n}

FixedOK ==
    /\ nodes \in NodeLists /\ stride \in Strides
    /\ Ordered(ordered, DOMAIN nodes, KeyOrder(DOMAIN nodes))
    /\ Ordered(dataKeys, WithPoints, KeyOrder(WithPoints))

CursorsOK ==
    /\ phase \in Phases
    /\ start \in 0 .. Len(dataKeys) /\ end \in start .. Len(dataKeys)
    /\ phase = "encoding" =>
          /\ start < end
          /\ end = start + 1 \/ Total(nodes, SubSeq(dataKeys, start + 1, end)) <= WindowPoints
    /\ phase \in {"temporal", "patching", "done"} => start = Len(dataKeys)

ResultsOK ==
    /\ DOMAIN encoded \subseteq 1 .. end - start
    /\ \A i \in DOMAIN encoded :
          OfNode(encoded[i], dataKeys[start + i], nodes[dataKeys[start + i]])

FilledOK ==
    /\ chunks \in Seq([key : DOMAIN nodes, size : Nat]) /\ Len(chunks) = start
    /\ \A n \in 1 .. start : chunks[n].key = dataKeys[n]
    /\ sampled \in Seq([key : DOMAIN nodes, samples : Seq(GpsTimes)])

CountedOK ==
    /\ stats.returns \in [1 .. MaxReturn -> Nat]
    /\ \A r \in 1 .. MaxReturn : stats.returns[r] = CountUpto(nodes, dataKeys, start, r)
    /\ IsLow(stats.gpsMin, TimesUpto(nodes, dataKeys, start))
    /\ IsHigh(stats.gpsMax, TimesUpto(nodes, dataKeys, start))

HeaderOK ==
    phase = "done" =>
        /\ header.total = Total(nodes, ordered) /\ header.returns = stats.returns
        /\ header.gpsMin = IF stats.gpsMin > stats.gpsMax THEN 0 ELSE stats.gpsMin
        /\ header.gpsMax = IF stats.gpsMin > stats.gpsMax THEN 0 ELSE stats.gpsMax

IInv == FixedOK /\ CursorsOK /\ ResultsOK /\ FilledOK /\ CountedOK /\ HeaderOK

\* What the assumption says of the node list of a run.
LEMMA NodesAre ==
    ASSUME nodes \in NodeLists
    PROVE  /\ DOMAIN nodes \subseteq Nat \X Nat /\ IsFiniteSet(DOMAIN nodes)
           /\ nodes \in [DOMAIN nodes -> Seq(Point)]
           /\ \A k \in DOMAIN nodes :
                 /\ nodes[k] \in Seq(Point)
                 /\ Len(nodes[k]) \in Nat /\ DOMAIN nodes[k] = 1 .. Len(nodes[k])
                 /\ \A t \in TimesIn(nodes[k]) : t \in Int /\ -Endless < t /\ t < Endless
                 /\ nodes[k] # <<>> => ChunkSize[Len(nodes[k])] \in Nat
           /\ WithPoints \subseteq Nat \X Nat /\ WithPoints \subseteq DOMAIN nodes
           /\ IsFiniteSet(WithPoints)
<1>1. /\ DOMAIN nodes \subseteq Nat \X Nat /\ IsFiniteSet(DOMAIN nodes)
      /\ nodes \in [DOMAIN nodes -> Seq(Point)]
      /\ \A k \in DOMAIN nodes : nodes[k] # <<>> => ChunkSize[Len(nodes[k])] \in Nat
  BY WriterAssumption DEF Point
<1>2. ASSUME NEW k \in DOMAIN nodes
      PROVE  /\ nodes[k] \in Seq(Point)
             /\ Len(nodes[k]) \in Nat /\ DOMAIN nodes[k] = 1 .. Len(nodes[k])
             /\ \A t \in TimesIn(nodes[k]) : t \in Int /\ -Endless < t /\ t < Endless
  <2>1. nodes[k] \in Seq(Point)
    BY <1>1
  <2>2. Len(nodes[k]) \in Nat /\ DOMAIN nodes[k] = 1 .. Len(nodes[k])
    BY <2>1, LenProperties
  <2> QED
    BY <2>1, <2>2, TimesAreFinite
<1>3. WithPoints \in SUBSET DOMAIN nodes
  BY DEF WithPoints
<1>4. IsFiniteSet(WithPoints)
  BY <1>1, <1>3, FS_Subset
<1> QED
  BY <1>1, <1>2, <1>3, <1>4

\* What the invariant says of the list of data nodes.
LEMMA DataKeysAre ==
    ASSUME FixedOK
    PROVE  /\ dataKeys \in Seq(WithPoints) /\ Len(dataKeys) \in Nat
           /\ DOMAIN dataKeys = 1 .. Len(dataKeys)
           /\ \A i \in 1 .. Len(dataKeys) :
                 /\ dataKeys[i] \in DOMAIN nodes /\ nodes[dataKeys[i]] # <<>>
                 /\ nodes[dataKeys[i]] \in Seq(Point)
                 /\ Len(nodes[dataKeys[i]]) \in Nat
           /\ stride \in Nat
<1>1. dataKeys \in Seq(WithPoints) /\ \A i \in DOMAIN dataKeys : dataKeys[i] \in WithPoints
  BY DEF FixedOK, Ordered
<1>2. Len(dataKeys) \in Nat /\ DOMAIN dataKeys = 1 .. Len(dataKeys)
  BY <1>1, LenProperties
<1>3. \A k \in WithPoints : k \in DOMAIN nodes /\ nodes[k] # <<>>
  BY DEF WithPoints
<1>4. \A k \in DOMAIN nodes : nodes[k] \in Seq(Point) /\ Len(nodes[k]) \in Nat
  BY NodesAre DEF FixedOK
<1>5. stride \in Nat
  BY WriterAssumption DEF FixedOK
<1> QED
  BY <1>1, <1>2, <1>3, <1>4, <1>5

LEMMA NothingSummed ==
    SumOf([i \in 1 .. 0 |-> 0]) = 0
<1> DEFINE s == [i \in 1 .. 0 |-> 0]
<1>1. s \in [1 .. 0 -> Nat]
  OBVIOUS
<1> HIDE DEF s
<1>2. s \in Seq(Nat) /\ Len(s) = 0
  BY <1>1, FunctionIsList
<1>3. PICK u : PrefixSums(s, Len(s), u) /\ SumOf(s) = u[Len(s)]
  BY <1>2, SumIs
<1>4. SumOf(s) = 0
  BY <1>2, <1>3 DEF PrefixSums
<1> QED
  BY <1>4 DEF s

LEMMA Start ==
    ASSUME Init
    PROVE  IInv
<1>1. FixedOK
  <2>1. nodes \in NodeLists /\ stride \in Strides
    BY DEF Init
  <2>2. ordered = InOrder(DOMAIN nodes, KeyLess) /\ dataKeys = InOrder(WithPoints, KeyLess)
    BY DEF Init, WithPoints
  <2>3. Ordered(InOrder(DOMAIN nodes, KeyLess), DOMAIN nodes, KeyOrder(DOMAIN nodes))
    BY <2>1, NodesAre, KeysInOrder
  <2>4. Ordered(InOrder(WithPoints, KeyLess), WithPoints, KeyOrder(WithPoints))
    BY <2>1, NodesAre, KeysInOrder
  <2> QED
    BY <2>1, <2>2, <2>3, <2>4 DEF FixedOK
<1>2. Len(dataKeys) \in Nat
  BY <1>1, DataKeysAre
<1>3. CursorsOK
  BY <1>2 DEF Init, CursorsOK, Phases
<1>4. ResultsOK
  BY DEF Init, ResultsOK
<1>5. FilledOK
  BY DEF Init, FilledOK
<1>6. CountedOK
  <2>1. /\ stats.returns = [r \in 1 .. MaxReturn |-> 0]
        /\ stats.gpsMin = Endless /\ stats.gpsMax = -Endless /\ start = 0
    BY DEF Init, NoStats
  <2>2. \A r : CountUpto(nodes, dataKeys, 0, r) = 0
    <3>1. ASSUME NEW r
          PROVE  [i \in 1 .. 0 |-> CountOf(nodes[dataKeys[i]], r)] = [i \in 1 .. 0 |-> 0]
      OBVIOUS
    <3> QED
      BY <3>1, NothingSummed DEF CountUpto
  <2>3. TimesUpto(nodes, dataKeys, 0) = {}
    BY DEF TimesUpto
  <2> QED
    BY <2>1, <2>2, <2>3, PagesAssumption DEF CountedOK, IsLow, IsHigh
<1>7. HeaderOK
  BY DEF Init, HeaderOK
<1> QED
  BY <1>1, <1>3, <1>4, <1>5, <1>6, <1>7 DEF IInv

\* The window ends behind its first node or at most WindowPoints points on.
LEMMA WindowEndIs ==
    ASSUME FixedOK, start \in 0 .. Len(dataKeys), start < Len(dataKeys)
    PROVE  /\ WindowEnd \in start + 1 .. Len(dataKeys)
           /\ \/ WindowEnd = start + 1
              \/ Total(nodes, SubSeq(dataKeys, start + 1, WindowEnd)) <= WindowPoints
<1> DEFINE E == {e \in start + 1 .. Len(dataKeys) :
                   \/ e = start + 1
                   \/ PointsOf(SubSeq(dataKeys, start + 1, e)) <= WindowPoints}
<1>1. Len(dataKeys) \in Nat
  BY DataKeysAre
<1>2. E \in SUBSET (start + 1 .. Len(dataKeys)) /\ start + 1 \in E /\ E \subseteq Int
  BY <1>1
<1>3. IsFiniteSet(start + 1 .. Len(dataKeys))
  BY <1>1, FS_Interval
<1>4. WindowEnd = Max(E)
  BY DEF WindowEnd
<1>5. \A e \in E : e = start + 1 \/ Total(nodes, SubSeq(dataKeys, start + 1, e)) <= WindowPoints
  BY DEF PointsOf, Total
<1> HIDE DEF E
<1>6. Max(E) \in E
  BY <1>2, <1>3, FS_Subset, Ends
<1> QED
  BY <1>2, <1>4, <1>5, <1>6

LEMMA StepPackWindow ==
    ASSUME IInv, PackWindow
    PROVE  IInv'
<1>1. FixedOK /\ CursorsOK /\ FilledOK /\ CountedOK
  BY DEF IInv
<1>2. /\ phase = "windows" /\ start < Len(dataKeys)
      /\ end' = WindowEnd /\ encoded' = <<>> /\ phase' = "encoding"
      /\ UNCHANGED <<nodes, stride, ordered, dataKeys, start, chunks, sampled, stats, header>>
  BY DEF PackWindow, fixed
<1>3. FixedOK'
  BY <1>1, <1>2 DEF FixedOK, WithPoints
<1>4. CursorsOK'
  <2>1. start \in 0 .. Len(dataKeys) /\ Len(dataKeys) \in Nat
    BY <1>1, DataKeysAre DEF CursorsOK
  <2>2. /\ WindowEnd \in start + 1 .. Len(dataKeys)
        /\ \/ WindowEnd = start + 1
           \/ Total(nodes, SubSeq(dataKeys, start + 1, WindowEnd)) <= WindowPoints
    BY <1>1, <1>2, <2>1, WindowEndIs
  <2>3. /\ end' \in start .. Len(dataKeys) /\ start < end'
        /\ \/ end' = start + 1
           \/ Total(nodes, SubSeq(dataKeys, start + 1, end')) <= WindowPoints
    BY <1>2, <2>1, <2>2
  <2> QED
    BY <1>2, <2>1, <2>3 DEF CursorsOK, Phases
<1>5. ResultsOK'
  BY <1>2 DEF ResultsOK
<1>6. FilledOK'
  BY <1>1, <1>2 DEF FilledOK
<1>7. CountedOK'
  BY <1>1, <1>2 DEF CountedOK
<1>8. HeaderOK'
  BY <1>2 DEF HeaderOK
<1> QED
  BY <1>3, <1>4, <1>5, <1>6, <1>7, <1>8 DEF IInv

\* The nodes of the window are those behind start, up to end.
LEMMA WindowIs ==
    ASSUME FixedOK, CursorsOK
    PROVE  /\ end - start \in Nat /\ start \in Nat /\ end \in Nat
           /\ Window \in Seq(WithPoints) /\ Len(Window) = end - start
           /\ DOMAIN Window = 1 .. end - start
           /\ \A i \in 1 .. end - start :
                 /\ Window[i] = dataKeys[start + i] /\ start + i \in 1 .. Len(dataKeys)
                 /\ Window[i] \in DOMAIN nodes /\ nodes[Window[i]] \in Seq(Point)
<1>1. /\ Len(dataKeys) \in Nat /\ start \in 0 .. Len(dataKeys) /\ end \in start .. Len(dataKeys)
      /\ dataKeys \in Seq(WithPoints)
      /\ \A i \in 1 .. Len(dataKeys) : /\ dataKeys[i] \in DOMAIN nodes
                                       /\ nodes[dataKeys[i]] \in Seq(Point)
  BY DataKeysAre DEF CursorsOK
<1>2. start + 1 \in Int /\ end \in Int /\ start \in Nat /\ end - start \in Nat /\ end \in Nat
  BY <1>1
<1>3. \A i \in start + 1 .. end : dataKeys[i] \in WithPoints
  BY <1>1, ElementOfSeq
<1>4. /\ Window \in Seq(WithPoints)
      /\ Len(Window) = IF start + 1 <= end THEN end - (start + 1) + 1 ELSE 0
      /\ \A i \in 1 .. end - (start + 1) + 1 : Window[i] = dataKeys[start + 1 + i - 1]
  BY <1>2, <1>3, SubSeqProperties DEF Window
<1>5. Len(Window) = end - start
  BY <1>2, <1>4
<1>6. DOMAIN Window = 1 .. end - start
  BY <1>4, <1>5, LenProperties
<1>7. ASSUME NEW i \in 1 .. end - start
      PROVE  /\ Window[i] = dataKeys[start + i] /\ start + i \in 1 .. Len(dataKeys)
  <2>1. i \in 1 .. end - (start + 1) + 1 /\ start + 1 + i - 1 = start + i
    BY <1>2
  <2> QED
    BY <1>1, <1>4, <2>1
<1> QED
  BY <1>1, <1>2, <1>4, <1>5, <1>6, <1>7

LEMMA StepEncodeNode ==
    ASSUME IInv, NEW i \in DOMAIN Window, EncodeNode(i)
    PROVE  IInv'
<1>1. FixedOK /\ CursorsOK /\ ResultsOK /\ FilledOK /\ CountedOK
  BY DEF IInv
<1>2. PICK list \in Arrangements(nodes[Window[i]]) :
      /\ phase = "encoding" /\ i \notin DOMAIN encoded
      /\ encoded' = [j \in DOMAIN encoded \cup {i} |->
                       IF j = i THEN EncodedNode(Window[i], list) ELSE encoded[j]]
      /\ UNCHANGED <<nodes, stride, ordered, dataKeys, start, end, chunks, sampled, stats,
                     header, phase>>
  BY DEF EncodeNode, fixed
<1>3. FixedOK'
  BY <1>1, <1>2 DEF FixedOK, WithPoints
<1>4. CursorsOK'
  BY <1>1, <1>2 DEF CursorsOK
<1>5. ResultsOK'
  <2>1. i \in 1 .. end - start /\ Window[i] = dataKeys[start + i] /\ nodes[Window[i]] \in Seq(Point)
    BY <1>1, WindowIs
  <2>2. stride \in Nat
    BY <1>1, DataKeysAre
  <2>3. OfNode(EncodedNode(Window[i], list), Window[i], nodes[Window[i]])
    BY <2>1, <2>2, EncodedIs
  <2>4. DOMAIN encoded' = DOMAIN encoded \cup {i} /\ DOMAIN encoded' \subseteq 1 .. end - start
    BY <1>1, <1>2, <2>1 DEF ResultsOK
  <2>5. ASSUME NEW j \in DOMAIN encoded'
        PROVE  OfNode(encoded'[j], dataKeys[start + j], nodes[dataKeys[start + j]])
    <3>1. CASE j = i
      BY <1>2, <2>1, <2>3, <3>1
    <3>2. CASE j # i
      <4>1. j \in DOMAIN encoded /\ encoded'[j] = encoded[j]
        BY <1>2, <2>4, <3>2
      <4> QED
        BY <1>1, <4>1 DEF ResultsOK
    <3> QED
      BY <3>1, <3>2
  <2> QED
    BY <1>2, <2>4, <2>5 DEF ResultsOK
<1>6. FilledOK'
  BY <1>1, <1>2 DEF FilledOK
<1>7. CountedOK'
  BY <1>1, <1>2 DEF CountedOK
<1>8. HeaderOK'
  BY <1>2 DEF HeaderOK
<1> QED
  BY <1>3, <1>4, <1>5, <1>6, <1>7, <1>8 DEF IInv

(***************************************************************************)
(* Compressing a window                                                    *)
(***************************************************************************)
Results == [i \in DOMAIN Window |-> encoded[i]]

\* All the results of the window, in its order.
LEMMA ResultsAre ==
    ASSUME IInv, DOMAIN encoded = DOMAIN Window
    PROVE  /\ DOMAIN Results = 1 .. end - start
           /\ \A i \in 1 .. end - start :
                 OfNode(Results[i], dataKeys[start + i], nodes[dataKeys[start + i]])
<1>1. DOMAIN Window = 1 .. end - start
  BY WindowIs DEF IInv
<1>2. \A i \in 1 .. end - start :
         OfNode(encoded[i], dataKeys[start + i], nodes[dataKeys[start + i]])
  BY <1>1 DEF IInv, ResultsOK
<1>3. DOMAIN Results = 1 .. end - start /\ \A i \in 1 .. end - start : Results[i] = encoded[i]
  BY <1>1 DEF Results
<1> QED
  BY <1>2, <1>3

\* The counts of the nodes before the window and of those in it.
LEMMA CountsFolded ==
    ASSUME IInv, DOMAIN encoded = DOMAIN Window, NEW r \in 1 .. MaxReturn
    PROVE  /\ Folded(Results).returns[r] = CountUpto(nodes, dataKeys, end, r)
           /\ CountUpto(nodes, dataKeys, end, r) \in Nat
<1> DEFINE f == [i \in 1 .. end |-> CountOf(nodes[dataKeys[i]], r)]
           g == [i \in 1 .. start |-> f[i]]
           h == [i \in 1 .. end - start |-> f[start + i]]
           c == [i \in DOMAIN Results |-> Results[i].returns[r]]
<1>1. /\ DOMAIN Results = 1 .. end - start
      /\ \A i \in 1 .. end - start :
            OfNode(Results[i], dataKeys[start + i], nodes[dataKeys[start + i]])
  BY ResultsAre
<1>2. /\ end \in Nat /\ start \in 0 .. end /\ end <= Len(dataKeys) /\ Len(dataKeys) \in Nat
      /\ end - start \in Nat /\ start \in Nat
  <2>1. FixedOK /\ CursorsOK
    BY DEF IInv
  <2>2. Len(dataKeys) \in Nat
    BY <2>1, DataKeysAre
  <2>3. start \in 0 .. Len(dataKeys) /\ end \in start .. Len(dataKeys)
    BY <2>1 DEF CursorsOK
  <2> QED
    BY <2>2, <2>3
<1>3. \A i \in 1 .. end : CountOf(nodes[dataKeys[i]], r) \in Nat
  <2>1. ASSUME NEW i \in 1 .. end PROVE nodes[dataKeys[i]] \in Seq(Point)
    <3>1. i \in 1 .. Len(dataKeys)
      BY <1>2
    <3> QED
      BY <3>1, DataKeysAre DEF IInv
  <2> QED
    BY <2>1, TimesAreFinite
<1>4. f \in [1 .. end -> Nat]
  BY <1>3
<1>5. c = h
  <2>1. ASSUME NEW i \in 1 .. end - start
        PROVE  Results[i].returns[r] = f[start + i]
    <3>1. start + i \in 1 .. end
      BY <1>2
    <3>2. f[start + i] = CountOf(nodes[dataKeys[start + i]], r)
      BY <3>1
    <3>3. Results[i].returns[r] = CountOf(nodes[dataKeys[start + i]], r)
      BY <1>1 DEF OfNode
    <3> QED
      BY <3>2, <3>3
  <2> HIDE DEF f
  <2> QED
    BY <1>1, <2>1
<1>6. g = [i \in 1 .. start |-> CountOf(nodes[dataKeys[i]], r)]
  BY <1>2
<1>7. Folded(Results).returns[r] = stats.returns[r] + SumOf(c)
  BY DEF Folded
<1>8. stats.returns[r] = SumOf(g)
  BY <1>6 DEF IInv, CountedOK, CountUpto
<1>9. CountUpto(nodes, dataKeys, end, r) = SumOf(f)
  BY DEF CountUpto
<1> HIDE DEF f
<1>10. SumOf(f) = SumOf(g) + SumOf(h)
  BY <1>2, <1>4, SumSplits
<1>11. SumOf(f) \in Nat
  <2>1. f \in Seq(Nat)
    BY <1>2, <1>4, FunctionIsList
  <2> QED
    BY <2>1, SumIsNat
<1> QED
  BY <1>5, <1>7, <1>8, <1>9, <1>10, <1>11

\* The times of the nodes before the window and of those in it.
LEMMA TimesFolded ==
    ASSUME IInv, DOMAIN encoded = DOMAIN Window
    PROVE  /\ IsLow(Folded(Results).gpsMin, TimesUpto(nodes, dataKeys, end))
           /\ IsHigh(Folded(Results).gpsMax, TimesUpto(nodes, dataKeys, end))
<1> DEFINE all == ToSet(Results) \cup {stats}
           lows == {x.gpsMin : x \in all}
           highs == {x.gpsMax : x \in all}
           T == TimesUpto(nodes, dataKeys, end)
           T0 == TimesUpto(nodes, dataKeys, start)
           TimesOf(i) == TimesIn(nodes[dataKeys[start + i]])
<1>1. /\ DOMAIN Results = 1 .. end - start
      /\ \A i \in 1 .. end - start :
            IsLow(Results[i].gpsMin, TimesOf(i)) /\ IsHigh(Results[i].gpsMax, TimesOf(i))
  BY ResultsAre DEF OfNode
<1>2. /\ end \in Nat /\ start \in 0 .. end /\ end <= Len(dataKeys) /\ Len(dataKeys) \in Nat
      /\ end - start \in Nat /\ start \in Nat
  <2>1. FixedOK /\ CursorsOK
    BY DEF IInv
  <2>2. Len(dataKeys) \in Nat
    BY <2>1, DataKeysAre
  <2>3. start \in 0 .. Len(dataKeys) /\ end \in start .. Len(dataKeys)
    BY <2>1 DEF CursorsOK
  <2> QED
    BY <2>2, <2>3
<1>3. IsLow(stats.gpsMin, T0) /\ IsHigh(stats.gpsMax, T0)
  BY DEF IInv, CountedOK
<1>4. T = T0 \cup UNION {TimesOf(i) : i \in 1 .. end - start}
  <2>1. 1 .. end = (1 .. start) \cup {start + i : i \in 1 .. end - start}
    <3>1. ASSUME NEW n \in 1 .. end, n \notin 1 .. start
          PROVE  \E i \in 1 .. end - start : n = start + i
      <4>1. n - start \in 1 .. end - start /\ n = start + (n - start)
        BY <1>2, <3>1
      <4> QED
        BY <4>1
    <3>2. \A i \in 1 .. end - start : start + i \in 1 .. end
      BY <1>2
    <3>3. 1 .. start \subseteq 1 .. end
      BY <1>2
    <3> QED
      BY <3>1, <3>2, <3>3
  <2> QED
    BY <2>1 DEF TimesUpto
<1>5. T \subseteq Int
  <2>1. ASSUME NEW i \in 1 .. end PROVE TimesIn(nodes[dataKeys[i]]) \subseteq Int
    <3>1. i \in 1 .. Len(dataKeys)
      BY <1>2
    <3>2. nodes[dataKeys[i]] \in Seq(Point)
      BY <3>1, DataKeysAre DEF IInv
    <3> QED
      BY <3>2, TimesAreFinite
  <2> QED
    BY <2>1 DEF TimesUpto
<1> HIDE DEF T, T0, TimesOf
<1>6. /\ lows = {Results[i].gpsMin : i \in 1 .. end - start} \cup {stats.gpsMin}
      /\ highs = {Results[i].gpsMax : i \in 1 .. end - start} \cup {stats.gpsMax}
  BY <1>1 DEF ToSet
<1>7. IsFiniteSet(lows) /\ IsFiniteSet(highs)
  <2> DEFINE low == [i \in 1 .. end - start |-> Results[i].gpsMin]
             high == [i \in 1 .. end - start |-> Results[i].gpsMax]
  <2>1. IsFiniteSet(1 .. end - start)
    BY <1>2, FS_Interval
  <2>2. /\ {low[i] : i \in 1 .. end - start} = {Results[i].gpsMin : i \in 1 .. end - start}
        /\ {high[i] : i \in 1 .. end - start} = {Results[i].gpsMax : i \in 1 .. end - start}
    OBVIOUS
  <2> HIDE DEF low, high
  <2>3. IsFiniteSet({low[i] : i \in 1 .. end - start})
    BY <2>1, ValuesFinite
  <2>4. IsFiniteSet({high[i] : i \in 1 .. end - start})
    BY <2>1, ValuesFinite
  <2>5. IsFiniteSet({low[i] : i \in 1 .. end - start} \cup {stats.gpsMin})
    BY <2>3, FS_AddElement
  <2>6. IsFiniteSet({high[i] : i \in 1 .. end - start} \cup {stats.gpsMax})
    BY <2>4, FS_AddElement
  <2> HIDE DEF lows, highs
  <2> QED
    BY <1>6, <2>2, <2>5, <2>6
<1> HIDE DEF lows, highs
<1>8. /\ \A i \in 1 .. end - start : TimesOf(i) \subseteq T
      /\ T0 \subseteq T
      /\ \A t \in T : t \in T0 \/ \E i \in 1 .. end - start : t \in TimesOf(i)
  BY <1>4
<1>9. /\ stats.gpsMin \in lows /\ \A i \in 1 .. end - start : Results[i].gpsMin \in lows
      /\ \A x \in lows : x = stats.gpsMin \/ \E i \in 1 .. end - start : x = Results[i].gpsMin
      /\ stats.gpsMax \in highs /\ \A i \in 1 .. end - start : Results[i].gpsMax \in highs
      /\ \A x \in highs : x = stats.gpsMax \/ \E i \in 1 .. end - start : x = Results[i].gpsMax
  BY <1>6
<1>10. lows \subseteq T \cup {Endless} /\ highs \subseteq T \cup {-Endless}
  BY <1>1, <1>3, <1>8, <1>9 DEF IsLow, IsHigh
<1>11. lows \subseteq Int /\ highs \subseteq Int
  BY <1>5, <1>10, PagesAssumption
<1>12. /\ Min(lows) \in lows /\ \A x \in lows : Min(lows) <= x
       /\ Max(highs) \in highs /\ \A x \in highs : x <= Max(highs)
  BY <1>7, <1>9, <1>11, Ends
<1>13. IsLow(Min(lows), T)
  <2>1. ASSUME NEW t \in T \cup {Endless} PROVE \E x \in lows : x <= t
    BY <1>1, <1>3, <1>8, <1>9, <2>1 DEF IsLow
  <2>2. ASSUME NEW t \in T \cup {Endless} PROVE Min(lows) <= t
    <3>1. PICK x \in lows : x <= t
      BY <2>1
    <3>2. Min(lows) <= x /\ Min(lows) \in Int /\ x \in Int
      BY <1>11, <1>12
    <3>3. t \in Int
      BY <1>5, <2>2, PagesAssumption
    <3> QED
      BY <3>1, <3>2, <3>3
  <2> QED
    BY <1>10, <1>12, <2>2 DEF IsLow
<1>14. IsHigh(Max(highs), T)
  <2>1. ASSUME NEW t \in T \cup {-Endless} PROVE \E x \in highs : t <= x
    BY <1>1, <1>3, <1>8, <1>9, <2>1 DEF IsHigh
  <2>2. ASSUME NEW t \in T \cup {-Endless} PROVE t <= Max(highs)
    <3>1. PICK x \in highs : t <= x
      BY <2>1
    <3>2. x <= Max(highs) /\ Max(highs) \in Int /\ x \in Int
      BY <1>11, <1>12
    <3>3. t \in Int
      BY <1>5, <2>2, PagesAssumption
    <3> QED
      BY <3>1, <3>2, <3>3
  <2> QED
    BY <1>10, <1>12, <2>2 DEF IsHigh
<1>15. Folded(Results).gpsMin = Min(lows) /\ Folded(Results).gpsMax = Max(highs)
  BY DEF Folded, lows, highs
<1> QED
  BY <1>13, <1>14, <1>15 DEF T

LEMMA StepCompressWindow ==
    ASSUME IInv, CompressWindow
    PROVE  IInv'
<1> DEFINE Chunk == [key : DOMAIN nodes, size : Nat]
           Sample == [key : DOMAIN nodes, samples : Seq(GpsTimes)]
           more == [i \in DOMAIN Window |->
                      [key |-> Results[i].chunk, size |-> ChunkSize[Len(nodes[Results[i].chunk])]]]
           moreSampled == SampledOf(Results)
           w == end - start
<1>1. FixedOK /\ CursorsOK /\ FilledOK /\ CountedOK
  BY DEF IInv
<1>2. /\ phase = "encoding" /\ DOMAIN encoded = DOMAIN Window
      /\ stats' = Folded(Results)
      /\ sampled' = IF stride = 0 THEN sampled ELSE sampled \o moreSampled
      /\ chunks' = chunks \o more
      /\ start' = end /\ encoded' = <<>> /\ phase' = "windows"
      /\ UNCHANGED <<nodes, stride, ordered, dataKeys, end, header>>
  BY DEF CompressWindow, fixed, Results, NextStart
<1>3. FixedOK'
  BY <1>1, <1>2 DEF FixedOK, WithPoints
<1>4. /\ end \in Nat /\ start \in 0 .. end /\ start \in Nat /\ end <= Len(dataKeys)
      /\ Len(dataKeys) \in Nat /\ w \in Nat
  <2>1. start \in 0 .. Len(dataKeys) /\ end \in start .. Len(dataKeys) /\ Len(dataKeys) \in Nat
    BY <1>1, DataKeysAre DEF CursorsOK
  <2> QED
    BY <2>1
<1>5. CursorsOK'
  BY <1>2, <1>4 DEF CursorsOK, Phases
<1>6. ResultsOK'
  BY <1>2 DEF ResultsOK
<1>7. ASSUME NEW i \in 1 .. w
      PROVE  /\ Window[i] = dataKeys[start + i] /\ Window[i] \in DOMAIN nodes
             /\ Results[i].chunk = Window[i] /\ Results[i].samples \in Seq(GpsTimes)
             /\ ChunkSize[Len(nodes[Window[i]])] \in Nat
  <2>1. /\ Window[i] = dataKeys[start + i] /\ Window[i] \in DOMAIN nodes
        /\ start + i \in 1 .. Len(dataKeys)
    BY <1>1, WindowIs
  <2>2. nodes[Window[i]] # <<>>
    BY <1>1, <2>1, DataKeysAre
  <2>3. ChunkSize[Len(nodes[Window[i]])] \in Nat
    BY <1>1, <2>1, <2>2, NodesAre DEF FixedOK
  <2>4. OfNode(Results[i], dataKeys[start + i], nodes[dataKeys[start + i]])
    BY <1>2, ResultsAre
  <2> QED
    BY <2>1, <2>3, <2>4 DEF OfNode
<1>8. DOMAIN Window = 1 .. w /\ DOMAIN Results = 1 .. w
  BY <1>1, <1>2, WindowIs, ResultsAre
<1>9. more \in Seq(Chunk) /\ Len(more) = w /\ \A i \in 1 .. w : more[i].key = dataKeys[start + i]
  <2>1. \A i \in 1 .. w : more[i].key = dataKeys[start + i] /\ more[i] \in Chunk
    BY <1>7, <1>8
  <2>2. more \in [1 .. w -> Chunk]
    <3>1. DOMAIN more = 1 .. w /\ more = [i \in 1 .. w |-> more[i]]
      BY <1>8
    <3> HIDE DEF more, Chunk
    <3> QED
      BY <2>1, <3>1
  <2> HIDE DEF more, Chunk
  <2> QED
    BY <1>4, <2>1, <2>2, FunctionIsList
<1>10. moreSampled \in Seq(Sample)
  <2>1. moreSampled = [i \in 1 .. w |-> [key |-> Window[i], samples |-> Results[i].samples]]
    BY <1>8 DEF SampledOf
  <2>2. moreSampled \in [1 .. w -> Sample]
    BY <1>7, <2>1
  <2> HIDE DEF moreSampled, Sample
  <2> QED
    BY <1>4, <2>2, FunctionIsList
<1>11. chunks \in Seq(Chunk) /\ Len(chunks) = start /\ sampled \in Seq(Sample)
       /\ \A n \in 1 .. start : chunks[n].key = dataKeys[n]
  BY <1>1 DEF FilledOK
<1> HIDE DEF more, moreSampled, Chunk, Sample
<1>12. /\ chunks' \in Seq(Chunk) /\ Len(chunks') = start + w
       /\ \A n \in 1 .. start + w : chunks'[n] = IF n <= start THEN chunks[n] ELSE more[n - start]
  <2> HIDE DEF w
  <2>1. /\ chunks \o more \in Seq(Chunk) /\ Len(chunks \o more) = Len(chunks) + Len(more)
        /\ \A n \in 1 .. Len(chunks) + Len(more) :
              (chunks \o more)[n] = IF n <= Len(chunks) THEN chunks[n] ELSE more[n - Len(chunks)]
    BY <1>9, <1>11, ConcatProperties
  <2> QED
    BY <1>2, <1>9, <1>11, <2>1
<1>13. ASSUME NEW n \in 1 .. end PROVE chunks'[n].key = dataKeys[n]
  <2>1. start + w = end
    BY <1>4
  <2>2. CASE n <= start
    <3>1. n \in 1 .. start
      BY <1>4, <2>2
    <3> QED
      BY <1>11, <1>12, <2>1, <2>2, <3>1
  <2>3. CASE ~(n <= start)
    <3>1. n - start \in 1 .. w /\ start + (n - start) = n
      BY <1>4, <2>3
    <3>2. chunks'[n] = more[n - start]
      BY <1>12, <2>1, <2>3
    <3>3. more[n - start].key = dataKeys[start + (n - start)]
      BY <1>9, <3>1
    <3> QED
      BY <3>1, <3>2, <3>3
  <2> QED
    BY <2>2, <2>3
<1>14. sampled' \in Seq(Sample)
  <2>1. sampled \o moreSampled \in Seq(Sample)
    BY <1>10, <1>11, ConcatProperties
  <2> QED
    BY <1>2, <1>11, <2>1
<1>15. FilledOK'
  <2>1. start + w = end
    BY <1>4
  <2> QED
    BY <1>2, <1>12, <1>13, <1>14, <2>1 DEF FilledOK, Chunk, Sample
<1>16. CountedOK'
  <2>1. \A r \in 1 .. MaxReturn :
           /\ Folded(Results).returns[r] = CountUpto(nodes, dataKeys, end, r)
           /\ CountUpto(nodes, dataKeys, end, r) \in Nat
    BY <1>2, CountsFolded
  <2>2. Folded(Results).returns \in [1 .. MaxReturn -> Nat]
    <3>1. DOMAIN Folded(Results).returns = 1 .. MaxReturn
          /\ Folded(Results).returns = [r \in 1 .. MaxReturn |-> Folded(Results).returns[r]]
      BY DEF Folded
    <3> QED
      BY <2>1, <3>1
  <2>3. /\ IsLow(Folded(Results).gpsMin, TimesUpto(nodes, dataKeys, end))
        /\ IsHigh(Folded(Results).gpsMax, TimesUpto(nodes, dataKeys, end))
    BY <1>2, TimesFolded
  <2> QED
    BY <1>2, <2>1, <2>2, <2>3 DEF CountedOK
<1>17. HeaderOK'
  BY <1>2 DEF HeaderOK
<1> QED
  BY <1>3, <1>5, <1>6, <1>15, <1>16, <1>17 DEF IInv

\* What follows the loop leaves the lists and the statistics alone.
LEMMA StepElse ==
    ASSUME IInv,
           UNCHANGED <<nodes, stride, ordered, dataKeys, start, end, encoded, chunks, sampled, stats>>,
           phase' \in Phases, phase' # "encoding" \/ phase' = phase,
           phase' \in {"temporal", "patching", "done"} => start = Len(dataKeys),
           HeaderOK'
    PROVE  IInv'
<1>1. FixedOK /\ CursorsOK /\ ResultsOK /\ FilledOK /\ CountedOK
  BY DEF IInv
<1>2. FixedOK'
  BY <1>1 DEF FixedOK, WithPoints
<1>3. CursorsOK'
  BY <1>1 DEF CursorsOK
<1>4. ResultsOK'
  BY <1>1 DEF ResultsOK
<1>5. FilledOK'
  BY <1>1 DEF FilledOK
<1>6. CountedOK'
  BY <1>1 DEF CountedOK
<1> QED
  BY <1>2, <1>3, <1>4, <1>5, <1>6 DEF IInv

LEMMA StepWriteHierarchy ==
    ASSUME IInv, WriteHierarchy
    PROVE  IInv'
<1>1. /\ start = Len(dataKeys) /\ phase' = IF stride = 0 THEN "patching" ELSE "temporal"
      /\ UNCHANGED <<nodes, stride, ordered, dataKeys, start, end, encoded, chunks, sampled, stats>>
  BY DEF WriteHierarchy, fixed
<1>2. HeaderOK'
  BY <1>1 DEF HeaderOK
<1>3. phase' \in Phases /\ phase' # "encoding"
  BY <1>1 DEF Phases
<1> QED
  BY <1>1, <1>2, <1>3, StepElse

LEMMA StepWriteTemporal ==
    ASSUME IInv, WriteTemporal
    PROVE  IInv'
<1>1. /\ phase = "temporal" /\ phase' = "patching"
      /\ UNCHANGED <<nodes, stride, ordered, dataKeys, start, end, encoded, chunks, sampled, stats>>
  BY DEF WriteTemporal, fixed
<1>2. HeaderOK'
  BY <1>1 DEF HeaderOK
<1>3. phase' \in Phases /\ phase' # "encoding" /\ start = Len(dataKeys)
  BY <1>1 DEF Phases, IInv, CursorsOK
<1> QED
  BY <1>1, <1>2, <1>3, StepElse

LEMMA StepPatchHeader ==
    ASSUME IInv, PatchHeader
    PROVE  IInv'
<1>1. /\ phase = "patching" /\ phase' = "done"
      /\ header'.total = PointsOf(ordered) /\ header'.returns = stats.returns
      /\ header'.gpsMin = GpsRange[1] /\ header'.gpsMax = GpsRange[2]
      /\ UNCHANGED <<nodes, stride, ordered, dataKeys, start, end, encoded, chunks, sampled, stats>>
  BY DEF PatchHeader, fixed
<1>2. PointsOf(ordered) = Total(nodes, ordered)
  BY DEF PointsOf, Total
<1>3. /\ GpsRange[1] = IF stats.gpsMin > stats.gpsMax THEN 0 ELSE stats.gpsMin
      /\ GpsRange[2] = IF stats.gpsMin > stats.gpsMax THEN 0 ELSE stats.gpsMax
  BY DEF GpsRange
<1>4. HeaderOK'
  BY <1>1, <1>2, <1>3 DEF HeaderOK
<1>5. phase' \in Phases /\ phase' # "encoding" /\ start = Len(dataKeys)
  BY <1>1 DEF Phases, IInv, CursorsOK
<1> QED
  BY <1>1, <1>4, <1>5, StepElse

LEMMA StepFail ==
    ASSUME IInv, Fail
    PROVE  IInv'
<1>1. /\ phase' = "failed"
      /\ UNCHANGED <<nodes, stride, ordered, dataKeys, start, end, encoded, chunks, sampled, stats>>
  BY DEF Fail, fixed
<1>2. HeaderOK'
  BY <1>1 DEF HeaderOK
<1>3. phase' \in Phases /\ phase' # "encoding"
  BY <1>1 DEF Phases
<1> QED
  BY <1>1, <1>2, <1>3, StepElse

LEMMA Stutter ==
    ASSUME IInv, UNCHANGED vars
    PROVE  IInv'
<1>1. UNCHANGED <<nodes, stride, ordered, dataKeys, start, end, encoded, chunks, sampled, stats,
                  header, phase>>
  BY DEF vars, fixed
<1>2. HeaderOK'
  BY <1>1 DEF IInv, HeaderOK
<1>3. phase \in Phases /\ (phase \in {"temporal", "patching", "done"} => start = Len(dataKeys))
  BY DEF IInv, CursorsOK
<1> QED
  BY <1>1, <1>2, <1>3, StepElse

LEMMA Inductive ==
    Spec => []IInv
<1>1. Init => IInv
  BY Start
<1>2. IInv /\ [Next]_vars => IInv'
  <2>1. SUFFICES ASSUME IInv, [Next]_vars PROVE IInv'
    BY <2>1
  <2>2. CASE PackWindow
    BY <2>1, <2>2, StepPackWindow
  <2>3. CASE CompressWindow
    BY <2>1, <2>3, StepCompressWindow
  <2>4. CASE \E i \in DOMAIN Window : EncodeNode(i)
    BY <2>1, <2>4, StepEncodeNode
  <2>5. CASE WriteHierarchy
    BY <2>1, <2>5, StepWriteHierarchy
  <2>6. CASE WriteTemporal
    BY <2>1, <2>6, StepWriteTemporal
  <2>7. CASE PatchHeader
    BY <2>1, <2>7, StepPatchHeader
  <2>8. CASE Fail
    BY <2>1, <2>8, StepFail
  <2>9. CASE UNCHANGED vars
    BY <2>1, <2>9, Stutter
  <2> QED
    BY <2>1, <2>2, <2>3, <2>4, <2>5, <2>6, <2>7, <2>8, <2>9 DEF Next, Loop, Returned
<1> QED
  BY <1>1, <1>2, PTL DEF Spec

(***************************************************************************)
(* What follows from the invariant                                         *)
(***************************************************************************)
LEMMA Bounded ==
    ASSUME IInv
    PROVE  WindowsBounded
<1>1. FixedOK /\ CursorsOK /\ ResultsOK /\ FilledOK /\ CountedOK
  BY DEF IInv
<1>2. /\ Len(dataKeys) \in Nat /\ start \in 0 .. Len(dataKeys) /\ end \in start .. Len(dataKeys)
      /\ phase \in Phases
  BY <1>1, DataKeysAre DEF CursorsOK
<1>3. TypeOK
  <2>1. nodes \in [DOMAIN nodes -> Seq([gps : GpsTimes, ret : Nat])]
    BY <1>1, NodesAre DEF FixedOK, Point
  <2>2. 0 <= start /\ start <= Len(dataKeys) /\ end \in 0 .. Len(dataKeys)
    BY <1>2
  <2>3. DOMAIN encoded \subseteq 1 .. end - start
    BY <1>1 DEF ResultsOK
  <2>4. chunks \in Seq([key : DOMAIN nodes, size : Nat])
    BY <1>1 DEF FilledOK
  <2>5. ToSet(sampled) \subseteq [key : DOMAIN nodes, samples : Seq(GpsTimes)]
    <3> DEFINE Sample == [key : DOMAIN nodes, samples : Seq(GpsTimes)]
    <3>1. sampled \in Seq(Sample)
      BY <1>1 DEF FilledOK
    <3> HIDE DEF Sample
    <3>2. DOMAIN sampled = 1 .. Len(sampled) /\ \A i \in 1 .. Len(sampled) : sampled[i] \in Sample
      BY <3>1, LenProperties, ElementOfSeq
    <3>3. ToSet(sampled) \subseteq Sample
      BY <3>2 DEF ToSet
    <3> QED
      BY <3>3 DEF Sample
  <2>6. stats.returns \in [1 .. MaxReturn -> Nat]
    BY <1>1 DEF CountedOK
  <2> QED
    BY <1>2, <2>1, <2>2, <2>3, <2>4, <2>5, <2>6 DEF TypeOK
<1>4. phase = "encoding" => Len(Window) = 1 \/ PointsOf(Window) <= WindowPoints
  <2>1. SUFFICES ASSUME phase = "encoding" PROVE Len(Window) = 1 \/ PointsOf(Window) <= WindowPoints
    BY <2>1
  <2>2. end = start + 1 \/ Total(nodes, Window) <= WindowPoints
    BY <1>1, <2>1 DEF CursorsOK, Window
  <2>3. Len(Window) = end - start
    BY <1>1, WindowIs
  <2>4. PointsOf(Window) = Total(nodes, Window)
    BY DEF PointsOf, Total
  <2> QED
    BY <1>2, <2>2, <2>3, <2>4
<1>5. [i \in DOMAIN chunks |-> chunks[i].key] = SubSeq(dataKeys, 1, start)
  <2> DEFINE keys == [i \in DOMAIN chunks |-> chunks[i].key]
             first == SubSeq(dataKeys, 1, start)
  <2>1. /\ Len(chunks) = start /\ \A n \in 1 .. start : chunks[n].key = dataKeys[n]
        /\ chunks \in Seq([key : DOMAIN nodes, size : Nat])
    BY <1>1 DEF FilledOK
  <2>2. DOMAIN chunks = 1 .. start
    BY <2>1, LenProperties
  <2>3. \A n \in 1 .. Len(dataKeys) : dataKeys[n] \in DOMAIN nodes
    BY <1>1, DataKeysAre
  <2>4. \A n \in 1 .. start : dataKeys[n] \in DOMAIN nodes
    BY <1>2, <2>3
  <2>5. /\ first \in Seq(DOMAIN nodes)
        /\ Len(first) = IF 1 <= start THEN start - 1 + 1 ELSE 0
        /\ \A i \in 1 .. start - 1 + 1 : first[i] = dataKeys[1 + i - 1]
    BY <1>2, <2>4, SubSeqProperties
  <2>6. Len(first) = start /\ \A i \in 1 .. start : first[i] = dataKeys[i]
    <3>1. start - 1 + 1 = start /\ \A i \in 1 .. start : 1 + i - 1 = i
      BY <1>2
    <3> QED
      BY <1>2, <2>5, <3>1
  <2>7. \A i \in 1 .. start : keys[i] = dataKeys[i]
    BY <2>1, <2>2
  <2>8. keys \in [1 .. start -> DOMAIN nodes]
    BY <2>1, <2>2, <2>4
  <2> HIDE DEF keys, first
  <2>9. keys \in Seq(DOMAIN nodes) /\ Len(keys) = start
    BY <1>2, <2>8, FunctionIsList
  <2>10. keys = first
    BY <2>5, <2>6, <2>7, <2>9, SeqEqual
  <2> QED
    BY <2>10 DEF keys, first
<1> QED
  BY <1>3, <1>4, <1>5 DEF WindowsBounded

\* Pairs with the same first member are as many as their second members.
Pairs(k, C) == {<<k, j>> : j \in C}

LEMMA PairsCount ==
    ASSUME NEW k, NEW C, IsFiniteSet(C)
    PROVE  IsFiniteSet(Pairs(k, C)) /\ Cardinality(Pairs(k, C)) = Cardinality(C)
<1> DEFINE T == Pairs(k, C)
           f == [j \in C |-> <<k, j>>]
<1>1. f \in [C -> T] /\ \A t \in T : \E j \in C : f[j] = t
  BY DEF Pairs
<1>2. \A i, j \in C : f[i] = f[j] => i = j
  OBVIOUS
<1> HIDE DEF f, T
<1>3. f \in Surjection(C, T) /\ f \in Injection(C, T)
  BY <1>1, <1>2 DEF Surjection, Injection, IsInjective
<1>4. IsFiniteSet(T) /\ Cardinality(T) = Cardinality(C)
  BY <1>3, FS_Surjection
<1> QED
  BY <1>4 DEF T

Sizes(C, n) == [i \in 1 .. n |-> Cardinality(C[i])]

AllPairs(keys, C, n) == UNION {Pairs(keys[i], C[i]) : i \in 1 .. n}

\* The points of the nodes of a list, as many as their sum.
LEMMA ListCounts ==
    ASSUME NEW keys, NEW n \in Nat, NEW C,
           \A i, j \in 1 .. n : keys[i] = keys[j] => i = j,
           \A i \in 1 .. n : IsFiniteSet(C[i])
    PROVE  SumOf(Sizes(C, n)) = Cardinality(AllPairs(keys, C, n))
<1> DEFINE s == Sizes(C, n)
           P == [i \in 1 .. n |-> Pairs(keys[i], C[i])]
<1>1. s \in [1 .. n -> Nat]
  BY FS_CardinalityType DEF Sizes
<1>2. \A i \in 1 .. n : s[i] = Cardinality(C[i])
  BY DEF Sizes
<1>3. \A i \in 1 .. n : P[i] = Pairs(keys[i], C[i])
  OBVIOUS
<1>4. \A i, j \in 1 .. n : i # j => P[i] \cap P[j] = {}
  BY <1>3 DEF Pairs
<1> HIDE DEF s, P
<1>5. s \in Seq(Nat) /\ Len(s) = n
  BY <1>1, FunctionIsList
<1>6. ASSUME NEW i \in 1 .. n
      PROVE  IsFiniteSet(P[i]) /\ Cardinality(P[i]) = s[i]
  <2>1. IsFiniteSet(Pairs(keys[i], C[i])) /\ Cardinality(Pairs(keys[i], C[i])) = Cardinality(C[i])
    BY PairsCount
  <2> QED
    BY <1>2, <1>3, <2>1
<1>7. Cardinality(Joined(P, n)) = SumOf(s)
  <2>1. \A i \in 1 .. Len(s) : IsFiniteSet(P[i]) /\ Cardinality(P[i]) = s[i]
    BY <1>5, <1>6
  <2>2. \A i, j \in 1 .. Len(s) : i # j => P[i] \cap P[j] = {}
    BY <1>4, <1>5
  <2>3. Cardinality(Joined(P, Len(s))) = SumOf(s)
    BY <1>5, <2>1, <2>2, SumCounts
  <2> QED
    BY <1>5, <2>3
<1>8. Joined(P, n) = AllPairs(keys, C, n)
  BY <1>3 DEF Joined, AllPairs
<1> QED
  BY <1>7, <1>8 DEF s

PointsAll == UNION {{<<k, i>> : i \in DOMAIN nodes[k]} : k \in DOMAIN nodes}

LEMMA PointOf ==
    ASSUME NEW e \in PointsAll
    PROVE  \E k \in DOMAIN nodes : \E j \in DOMAIN nodes[k] : e = <<k, j>>
BY DEF PointsAll

LEMMA TotalExact ==
    ASSUME FixedOK
    PROVE  Total(nodes, ordered) = Cardinality(PointsAll)
<1> DEFINE n == Len(ordered)
           C == [i \in 1 .. n |-> DOMAIN nodes[ordered[i]]]
<1>1. /\ ordered \in Seq(DOMAIN nodes) /\ DOMAIN ordered = 1 .. n
      /\ \A i \in DOMAIN ordered : ordered[i] \in DOMAIN nodes
      /\ \A i, j \in DOMAIN ordered : ordered[i] = ordered[j] => i = j
      /\ \A x \in DOMAIN nodes : \E i \in DOMAIN ordered : ordered[i] = x
  BY DEF FixedOK, Ordered
<1>2. n \in Nat
  BY <1>1, LenProperties
<1>3. \A i \in 1 .. n : C[i] = DOMAIN nodes[ordered[i]]
  OBVIOUS
<1> HIDE DEF C, n
<1>4. ASSUME NEW i \in 1 .. n
      PROVE  IsFiniteSet(C[i]) /\ Cardinality(C[i]) = Len(nodes[ordered[i]])
  <2>1. ordered[i] \in DOMAIN nodes
    BY <1>1
  <2>2. /\ Len(nodes[ordered[i]]) \in Nat
        /\ C[i] = 1 .. Len(nodes[ordered[i]])
    BY <1>3, <2>1, NodesAre DEF FixedOK
  <2> QED
    BY <2>2, FS_Interval
<1>5. SumOf(Sizes(C, n)) = Cardinality(AllPairs(ordered, C, n))
  BY <1>1, <1>2, <1>4, ListCounts
<1>6. Total(nodes, ordered) = SumOf(Sizes(C, n))
  <2>1. [i \in DOMAIN ordered |-> Len(nodes[ordered[i]])] = Sizes(C, n)
    BY <1>1, <1>4 DEF Sizes
  <2> QED
    BY <2>1 DEF Total
<1>7. AllPairs(ordered, C, n) = PointsAll
  BY <1>1, <1>3 DEF PointsAll, Pairs, AllPairs
<1> QED
  BY <1>5, <1>6, <1>7

LEMMA ReturnsExact ==
    ASSUME FixedOK, NEW r
    PROVE  CountUpto(nodes, dataKeys, Len(dataKeys), r)
              = Cardinality({e \in PointsAll : nodes[e[1]][e[2]].ret = r})
<1> DEFINE n == Len(dataKeys)
           C == [i \in 1 .. n |-> {j \in DOMAIN nodes[dataKeys[i]] : nodes[dataKeys[i]][j].ret = r}]
           hits == {e \in PointsAll : nodes[e[1]][e[2]].ret = r}
<1>1. /\ DOMAIN dataKeys = 1 .. n
      /\ \A i \in DOMAIN dataKeys : dataKeys[i] \in WithPoints
      /\ \A i, j \in DOMAIN dataKeys : dataKeys[i] = dataKeys[j] => i = j
      /\ \A x \in WithPoints : \E i \in DOMAIN dataKeys : dataKeys[i] = x
  BY DEF FixedOK, Ordered
<1>2. n \in Nat
  BY DataKeysAre
<1>3. \A i \in 1 .. n :
         C[i] = {j \in DOMAIN nodes[dataKeys[i]] : nodes[dataKeys[i]][j].ret = r}
  OBVIOUS
<1>4. /\ WithPoints \subseteq DOMAIN nodes
      /\ \A k \in DOMAIN nodes :
            DOMAIN nodes[k] = 1 .. Len(nodes[k]) /\ nodes[k] \in Seq(Point) /\ Len(nodes[k]) \in Nat
  BY NodesAre DEF FixedOK
<1> HIDE DEF C, n
<1>5. ASSUME NEW i \in 1 .. n
      PROVE  IsFiniteSet(C[i]) /\ Cardinality(C[i]) = CountOf(nodes[dataKeys[i]], r)
  <2> DEFINE D == DOMAIN nodes[dataKeys[i]]
  <2>1. dataKeys[i] \in DOMAIN nodes
    BY <1>1, <1>4
  <2>2. Len(nodes[dataKeys[i]]) \in Nat /\ D = 1 .. Len(nodes[dataKeys[i]])
    BY <1>4, <2>1
  <2>3. IsFiniteSet(D)
    BY <2>2, FS_Interval
  <2>4. C[i] \in SUBSET D
    BY <1>3
  <2>5. Cardinality(C[i]) = CountOf(nodes[dataKeys[i]], r)
    BY <1>3 DEF CountOf
  <2> HIDE DEF D
  <2> QED
    BY <2>3, <2>4, <2>5, FS_Subset
<1>6. SumOf(Sizes(C, n)) = Cardinality(AllPairs(dataKeys, C, n))
  BY <1>1, <1>2, <1>5, ListCounts
<1>7. CountUpto(nodes, dataKeys, n, r) = SumOf(Sizes(C, n))
  <2>1. [i \in 1 .. n |-> CountOf(nodes[dataKeys[i]], r)] = Sizes(C, n)
    BY <1>5 DEF Sizes
  <2> QED
    BY <2>1 DEF CountUpto
<1>8. AllPairs(dataKeys, C, n) = hits
  <2>1. ASSUME NEW i \in 1 .. n, NEW j \in C[i] PROVE <<dataKeys[i], j>> \in hits
    <3>1. /\ j \in DOMAIN nodes[dataKeys[i]] /\ nodes[dataKeys[i]][j].ret = r
          /\ dataKeys[i] \in DOMAIN nodes
      BY <1>1, <1>3, <1>4
    <3>2. <<dataKeys[i], j>> \in PointsAll
      BY <3>1 DEF PointsAll
    <3> QED
      BY <3>1, <3>2
  <2>2. ASSUME NEW k \in DOMAIN nodes, NEW j \in DOMAIN nodes[k], nodes[k][j].ret = r
        PROVE  \E i \in 1 .. n : <<k, j>> \in Pairs(dataKeys[i], C[i])
    <3>1. nodes[k] # <<>>
      BY <1>4, <2>2
    <3>2. k \in WithPoints
      BY <3>1 DEF WithPoints
    <3>3. PICK i \in 1 .. n : dataKeys[i] = k
      BY <1>1, <3>2
    <3>4. j \in C[i]
      BY <1>3, <2>2, <3>3
    <3> QED
      BY <3>3, <3>4 DEF Pairs
  <2>3. \A i \in 1 .. n : Pairs(dataKeys[i], C[i]) \subseteq hits
    <3> HIDE DEF hits
    <3> QED
      BY <2>1 DEF Pairs
  <2>4. \A e \in hits : \E i \in 1 .. n : e \in Pairs(dataKeys[i], C[i])
    <3>1. ASSUME NEW e \in hits PROVE \E i \in 1 .. n : e \in Pairs(dataKeys[i], C[i])
      <4>1. e \in PointsAll /\ nodes[e[1]][e[2]].ret = r
        OBVIOUS
      <4> HIDE DEF hits
      <4>2. PICK k \in DOMAIN nodes : \E j \in DOMAIN nodes[k] : e = <<k, j>>
        BY <4>1, PointOf
      <4>3. PICK j \in DOMAIN nodes[k] : e = <<k, j>>
        BY <4>2
      <4>4. nodes[k][j].ret = r
        BY <4>1, <4>3
      <4> QED
        BY <2>2, <4>3, <4>4
    <3> QED
      BY <3>1
  <2> HIDE DEF hits
  <2> QED
    BY <2>3, <2>4 DEF AllPairs
<1> QED
  BY <1>6, <1>7, <1>8 DEF n

LEMMA TimesExact ==
    ASSUME FixedOK
    PROVE  /\ TimesUpto(nodes, dataKeys, Len(dataKeys)) = {nodes[e[1]][e[2]].gps : e \in PointsAll} \ {NaN}
           /\ \A t \in TimesUpto(nodes, dataKeys, Len(dataKeys)) : t \in Int /\ -Endless < t /\ t < Endless
<1> DEFINE n == Len(dataKeys)
           T == TimesUpto(nodes, dataKeys, n)
           U == {nodes[e[1]][e[2]].gps : e \in PointsAll} \ {NaN}
<1>1. /\ DOMAIN dataKeys = 1 .. n
      /\ \A i \in DOMAIN dataKeys : dataKeys[i] \in WithPoints
      /\ \A x \in WithPoints : \E i \in DOMAIN dataKeys : dataKeys[i] = x
  BY DEF FixedOK, Ordered
<1>2. /\ WithPoints \subseteq DOMAIN nodes
      /\ \A k \in DOMAIN nodes :
            /\ nodes[k] \in Seq(Point)
            /\ Len(nodes[k]) \in Nat /\ DOMAIN nodes[k] = 1 .. Len(nodes[k])
            /\ \A t \in TimesIn(nodes[k]) : t \in Int /\ -Endless < t /\ t < Endless
  <2>1. WithPoints \subseteq DOMAIN nodes
    BY DEF WithPoints
  <2>2. nodes \in NodeLists
    BY DEF FixedOK
  <2>3. ASSUME NEW k \in DOMAIN nodes
        PROVE  /\ nodes[k] \in Seq(Point)
               /\ Len(nodes[k]) \in Nat /\ DOMAIN nodes[k] = 1 .. Len(nodes[k])
               /\ \A t \in TimesIn(nodes[k]) : t \in Int /\ -Endless < t /\ t < Endless
    BY <2>2, NodesAre
  <2> HIDE DEF T, U, n
  <2> QED
    BY <2>1, <2>3, Zenon
<1>3. \A k \in DOMAIN nodes : \A t \in TimesIn(nodes[k]) : t \in U
  <2>1. ASSUME NEW k \in DOMAIN nodes, NEW j \in DOMAIN nodes[k], nodes[k][j].gps # NaN
        PROVE  nodes[k][j].gps \in U
    <3> DEFINE e == <<k, j>>
    <3>1. e \in PointsAll /\ nodes[e[1]][e[2]].gps = nodes[k][j].gps
      BY DEF PointsAll
    <3> HIDE DEF e
    <3> QED
      BY <2>1, <3>1
  <2> HIDE DEF U
  <2> QED
    BY <2>1 DEF TimesIn
<1>4. \A t \in U : \E k \in DOMAIN nodes : t \in TimesIn(nodes[k])
  <2>1. ASSUME NEW e \in PointsAll, nodes[e[1]][e[2]].gps # NaN
        PROVE  \E k \in DOMAIN nodes : nodes[e[1]][e[2]].gps \in TimesIn(nodes[k])
    <3>1. PICK k \in DOMAIN nodes : \E j \in DOMAIN nodes[k] : e = <<k, j>>
      BY PointOf
    <3>2. PICK j \in DOMAIN nodes[k] : e = <<k, j>>
      BY <3>1
    <3> QED
      BY <2>1, <3>2 DEF TimesIn
  <2> QED
    BY <2>1
<1> HIDE DEF U, n
<1>5. \A t \in T : t \in U /\ t \in Int /\ -Endless < t /\ t < Endless
  <2>1. \A i \in 1 .. n : dataKeys[i] \in DOMAIN nodes
    BY <1>1, <1>2
  <2> QED
    BY <1>2, <1>3, <2>1 DEF TimesUpto
<1>6. \A t \in U : t \in T
  <2>1. ASSUME NEW k \in DOMAIN nodes, NEW t \in TimesIn(nodes[k]) PROVE t \in T
    <3>1. nodes[k] # <<>>
      BY <1>2, <2>1 DEF TimesIn
    <3>2. k \in WithPoints
      BY <3>1 DEF WithPoints
    <3>3. PICK i \in 1 .. n : dataKeys[i] = k
      BY <1>1, <3>2
    <3> QED
      BY <2>1, <3>3 DEF TimesUpto
  <2> QED
    BY <1>4, <2>1
<1>7. T = U
  BY <1>5, <1>6
<1> QED
  BY <1>5, <1>7 DEF U, n

\* The ends of a nonempty set of times, when they are known.
LEMMA KnownEnds ==
    ASSUME NEW T, T \subseteq Int, NEW a \in T, NEW b \in T,
           \A t \in T : a <= t, \A t \in T : t <= b
    PROVE  Min(T) = a /\ Max(T) = b
<1>1. Min(T) \in T /\ \A t \in T : Min(T) <= t
  BY DEF Min
<1>2. Max(T) \in T /\ \A t \in T : t <= Max(T)
  BY DEF Max
<1>3. Min(T) <= a /\ a <= Min(T) /\ Min(T) \in Int /\ a \in Int
  BY <1>1
<1>4. Max(T) <= b /\ b <= Max(T) /\ Max(T) \in Int /\ b \in Int
  BY <1>2
<1> QED
  BY <1>3, <1>4

LEMMA Exact ==
    ASSUME IInv
    PROVE  HeaderExact
<1> DEFINE Times == {nodes[e[1]][e[2]].gps : e \in PointsAll} \ {NaN}
<1>1. SUFFICES ASSUME phase = "done"
      PROVE  /\ header.total = Cardinality(PointsAll)
             /\ \A r \in 1 .. MaxReturn : header.returns[r] =
                   Cardinality({e \in PointsAll : nodes[e[1]][e[2]].ret = r})
             /\ header.gpsMin = IF Times = {} THEN 0 ELSE Min(Times)
             /\ header.gpsMax = IF Times = {} THEN 0 ELSE Max(Times)
  BY DEF HeaderExact, PointsAll
<1>2. FixedOK /\ CountedOK /\ start = Len(dataKeys)
  BY <1>1 DEF IInv, CursorsOK
<1>3. /\ header.total = Total(nodes, ordered) /\ header.returns = stats.returns
      /\ header.gpsMin = IF stats.gpsMin > stats.gpsMax THEN 0 ELSE stats.gpsMin
      /\ header.gpsMax = IF stats.gpsMin > stats.gpsMax THEN 0 ELSE stats.gpsMax
  BY <1>1 DEF IInv, HeaderOK
<1>4. header.total = Cardinality(PointsAll)
  BY <1>2, <1>3, TotalExact
<1>5. ASSUME NEW r \in 1 .. MaxReturn
      PROVE  header.returns[r] = Cardinality({e \in PointsAll : nodes[e[1]][e[2]].ret = r})
  <2>1. header.returns[r] = CountUpto(nodes, dataKeys, Len(dataKeys), r)
    BY <1>2, <1>3 DEF CountedOK
  <2> QED
    BY <1>2, <2>1, ReturnsExact
<1>6. /\ TimesUpto(nodes, dataKeys, Len(dataKeys)) = Times
      /\ \A t \in TimesUpto(nodes, dataKeys, Len(dataKeys)) : t \in Int /\ -Endless < t /\ t < Endless
  BY <1>2, TimesExact
<1> HIDE DEF Times
<1>7. /\ IsLow(stats.gpsMin, Times) /\ IsHigh(stats.gpsMax, Times)
      /\ \A t \in Times : t \in Int /\ -Endless < t /\ t < Endless
  BY <1>2, <1>6 DEF CountedOK
<1>8. CASE Times = {}
  <2>1. stats.gpsMin = Endless /\ stats.gpsMax = -Endless
    BY <1>7, <1>8 DEF IsLow, IsHigh
  <2>2. header.gpsMin = 0 /\ header.gpsMax = 0
    BY <1>3, <2>1, PagesAssumption
  <2> QED
    BY <1>4, <1>5, <1>8, <2>2
<1>9. CASE Times # {}
  <2>1. PICK t \in Times : TRUE
    BY <1>9
  <2>2. t \in Int /\ -Endless < t /\ t < Endless /\ stats.gpsMin <= t /\ t <= stats.gpsMax
    BY <1>7, <2>1 DEF IsLow, IsHigh
  <2>3. /\ stats.gpsMin \in Times /\ \A u \in Times : stats.gpsMin <= u
        /\ stats.gpsMax \in Times /\ \A u \in Times : u <= stats.gpsMax
    BY <1>7, <2>2, PagesAssumption DEF IsLow, IsHigh
  <2>4. Min(Times) = stats.gpsMin /\ Max(Times) = stats.gpsMax
    <3>1. Times \subseteq Int
      BY <1>7
    <3> QED
      BY <2>3, <3>1, KnownEnds
  <2>5. ~(stats.gpsMin > stats.gpsMax)
    <3>1. stats.gpsMin \in Int /\ stats.gpsMax \in Int
      BY <1>7, <2>3
    <3> QED
      BY <2>2, <3>1
  <2> QED
    BY <1>3, <1>4, <1>5, <1>9, <2>4, <2>5
<1> QED
  BY <1>8, <1>9

\* As many nodes with points come up to the i-th of the list as up to it in
\* the order of those alone.
LEMMA ChunkIndexIs ==
    ASSUME FixedOK, NEW i \in DOMAIN ordered, nodes[ordered[i]] # <<>>
    PROVE  ChunkIndex(i) \in 1 .. Len(dataKeys) /\ dataKeys[ChunkIndex(i)] = ordered[i]
<1> DEFINE D == DOMAIN nodes
           k == ordered[i]
           J == {j \in 1 .. i : nodes[ordered[j]] # <<>>}
           B == {y \in WithPoints : <<y, k>> \in KeyOrder(WithPoints)}
           f == [j \in J |-> ordered[j]]
<1>1. /\ DOMAIN ordered = 1 .. Len(ordered) /\ ordered \in Seq(D)
      /\ \A j \in DOMAIN ordered : ordered[j] \in D
      /\ \A j, m \in DOMAIN ordered : ordered[j] = ordered[m] => j = m
      /\ \A x \in D : \E j \in DOMAIN ordered : ordered[j] = x
      /\ \A j \in DOMAIN ordered : RankOf(KeyOrder(D), D, ordered[j]) = j - 1
  BY DEF FixedOK, Ordered
<1>2. /\ DOMAIN dataKeys = 1 .. Len(dataKeys)
      /\ \A x \in WithPoints : \E m \in DOMAIN dataKeys : dataKeys[m] = x
      /\ \A m \in DOMAIN dataKeys : RankOf(KeyOrder(WithPoints), WithPoints, dataKeys[m]) = m - 1
  BY DEF FixedOK, Ordered
<1>3. /\ D \subseteq Nat \X Nat /\ IsFiniteSet(D) /\ IsFiniteSet(WithPoints)
      /\ WithPoints \subseteq D /\ WithPoints \subseteq Nat \X Nat
  BY NodesAre DEF FixedOK
<1>4. /\ Orders(KeyOrder(D), D)
      /\ \A x, y \in D : <<x, y>> \in KeyOrder(D) <=> KeyLess(x, y)
  BY <1>3, KeysAreOrdered
<1>5. \A x, y \in WithPoints : <<x, y>> \in KeyOrder(WithPoints) <=> KeyLess(x, y)
  BY <1>3, KeysAreOrdered
<1>6. Len(ordered) \in Nat /\ i \in Nat /\ i \in 1 .. Len(ordered)
  BY <1>1, LenProperties
<1>7. k \in D /\ k \in WithPoints
  BY <1>1 DEF WithPoints
<1>8. \A u, v \in D : <<u, v>> \in KeyOrder(D) =>
         RankOf(KeyOrder(D), D, u) < RankOf(KeyOrder(D), D, v)
  BY <1>3, <1>4, Ranks
<1>9. ASSUME NEW j \in DOMAIN ordered
      PROVE  KeyLess(ordered[j], k) <=> j < i
  <2>1. /\ RankOf(KeyOrder(D), D, ordered[j]) = j - 1 /\ RankOf(KeyOrder(D), D, k) = i - 1
        /\ ordered[j] \in D /\ j \in Int /\ i \in Int
    BY <1>1, <1>6
  <2>2. KeyLess(ordered[j], k) => j < i
    <3>1. ASSUME KeyLess(ordered[j], k) PROVE j - 1 < i - 1
      BY <1>4, <1>7, <1>8, <2>1, <3>1
    <3> QED
      BY <2>1, <3>1
  <2>3. KeyLess(k, ordered[j]) => i < j
    <3>1. ASSUME KeyLess(k, ordered[j]) PROVE i - 1 < j - 1
      BY <1>4, <1>7, <1>8, <2>1, <3>1
    <3> QED
      BY <2>1, <3>1
  <2>4. ordered[j] = k \/ KeyLess(ordered[j], k) \/ KeyLess(k, ordered[j])
    BY <1>4, <1>7, <2>1 DEF Orders
  <2>5. ordered[j] = k => j = i
    BY <1>1
  <2> QED
    BY <2>1, <2>2, <2>3, <2>4, <2>5
<1> HIDE DEF D, k
<1>10. J \in SUBSET (1 .. i) /\ IsFiniteSet(1 .. i)
  BY <1>6, FS_Interval
<1>11. \A j \in J : j \in DOMAIN ordered /\ ordered[j] \in WithPoints /\ j \in Int /\ j <= i
  <2>1. \A j \in J : j \in DOMAIN ordered /\ nodes[ordered[j]] # <<>> /\ j \in Int /\ j <= i
    BY <1>1, <1>6
  <2> HIDE DEF J
  <2> QED
    BY <1>1, <2>1 DEF WithPoints, D
<1>12. B = {y \in WithPoints : KeyLess(y, k)}
  BY <1>5, <1>7
<1>13. \A j \in J : f[j] \in B \cup {k}
  <2>1. ASSUME NEW j \in J PROVE ordered[j] \in B \cup {k}
    <3>1. CASE j < i
      BY <1>9, <1>11, <1>12, <3>1
    <3>2. CASE ~(j < i)
      <4>1. j = i
        BY <1>6, <1>11, <3>2
      <4> QED
        BY <4>1 DEF k
    <3> QED
      BY <3>1, <3>2
  <2> HIDE DEF J, B
  <2> QED
    BY <2>1
<1>14. \A y \in B \cup {k} : \E j \in J : f[j] = y
  <2>1. ASSUME NEW y \in WithPoints, KeyLess(y, k) \/ y = k
        PROVE  \E j \in J : ordered[j] = y
    <3>1. PICK j \in DOMAIN ordered : ordered[j] = y
      BY <1>1, <1>3
    <3>2. j < i \/ j = i
      BY <1>1, <1>9, <2>1, <3>1 DEF k
    <3>3. j \in 1 .. i
      BY <1>1, <1>6, <3>1, <3>2
    <3>4. nodes[ordered[j]] # <<>>
      BY <3>1 DEF WithPoints
    <3> QED
      BY <3>1, <3>3, <3>4
  <2>2. \A y \in B \cup {k} : y \in WithPoints /\ (KeyLess(y, k) \/ y = k)
    BY <1>7, <1>12
  <2> HIDE DEF J, B
  <2> QED
    BY <2>1, <2>2
<1>15. \A j, m \in J : f[j] = f[m] => j = m
  BY <1>1, <1>11
<1> HIDE DEF J
<1>16. Cardinality(J) = Cardinality(B \cup {k})
  <2> DEFINE T == B \cup {k}
  <2> HIDE DEF T
  <2>1. f \in [J -> T]
    BY <1>13 DEF T
  <2>2. f \in Surjection(J, T) /\ f \in Injection(J, T)
    <3> HIDE DEF f
    <3> QED
      BY <1>14, <1>15, <2>1 DEF Surjection, Injection, IsInjective, T
  <2>3. IsFiniteSet(J)
    BY <1>10, FS_Subset
  <2>4. Cardinality(T) = Cardinality(J)
    <3> HIDE DEF f
    <3> QED
      BY <2>2, <2>3, FS_Surjection
  <2> QED
    BY <2>4 DEF T
<1>17. Cardinality(B \cup {k}) = RankOf(KeyOrder(WithPoints), WithPoints, k) + 1
  <2>1. k \notin B
    <3>1. ~KeyLess(k, k)
      BY <1>6, <1>9 DEF k
    <3> QED
      BY <1>12, <3>1
  <2>2. B \in SUBSET WithPoints
    OBVIOUS
  <2>3. Cardinality(B) = RankOf(KeyOrder(WithPoints), WithPoints, k)
    BY DEF RankOf
  <2> HIDE DEF B
  <2>4. IsFiniteSet(B)
    BY <1>3, <2>2, FS_Subset
  <2>5. Cardinality(B \cup {k}) = Cardinality(B) + 1
    BY <2>1, <2>4, FS_AddElement
  <2> QED
    BY <2>3, <2>5
<1>18. PICK m \in 1 .. Len(dataKeys) : dataKeys[m] = k
  BY <1>2, <1>7
<1>19. RankOf(KeyOrder(WithPoints), WithPoints, k) = m - 1 /\ m \in Int
  <2>1. m \in DOMAIN dataKeys
    BY <1>2, <1>18
  <2>2. RankOf(KeyOrder(WithPoints), WithPoints, dataKeys[m]) = m - 1
    BY <1>2, <2>1
  <2> QED
    BY <1>18, <2>2
<1>20. ChunkIndex(i) = m
  <2>1. ChunkIndex(i) = Cardinality(J)
    BY DEF ChunkIndex, J
  <2> QED
    BY <1>16, <1>17, <1>19, <2>1
<1> QED
  BY <1>18, <1>20 DEF k

LEMMA Described ==
    ASSUME IInv
    PROVE  EntriesDescribe
<1>1. SUFFICES ASSUME phase = "windows", start = Len(dataKeys), NEW i \in DOMAIN ordered
      PROVE  ChunkInfo[i].key = ordered[i] /\ Describes(ChunkInfo[i], ordered[i])
  BY DEF EntriesDescribe
<1>2. FixedOK /\ FilledOK
  BY DEF IInv
<1> DEFINE n == ChunkIndex(i)
<1>3. ChunkInfo[i] =
         IF nodes[ordered[i]] = <<>>
         THEN [key |-> ordered[i], offset |-> 0, byteSize |-> 0, pointCount |-> 0]
         ELSE [key |-> ordered[i], offset |-> CurrentOffset(n),
               byteSize |-> ChunkTable[n], pointCount |-> Len(nodes[ordered[i]])]
  BY DEF ChunkInfo
<1>4. CASE nodes[ordered[i]] = <<>>
  BY <1>3, <1>4 DEF Describes
<1>5. CASE nodes[ordered[i]] # <<>>
  <2>1. n \in 1 .. Len(dataKeys) /\ dataKeys[n] = ordered[i]
    BY <1>2, <1>5, ChunkIndexIs
  <2> HIDE DEF n
  <2>2. /\ Len(chunks) = Len(dataKeys) /\ DOMAIN chunks = 1 .. Len(dataKeys)
        /\ Len(chunks) \in Nat
        /\ \A m \in 1 .. Len(dataKeys) : chunks[m].key = dataKeys[m] /\ chunks[m].size \in Nat
    <3>1. /\ chunks \in Seq([key : DOMAIN nodes, size : Nat]) /\ Len(chunks) = Len(dataKeys)
          /\ \A m \in 1 .. Len(dataKeys) : chunks[m].key = dataKeys[m]
      BY <1>1, <1>2 DEF FilledOK
    <3>2. DOMAIN chunks = 1 .. Len(chunks) /\ Len(chunks) \in Nat
      BY <3>1, LenProperties
    <3>3. \A m \in 1 .. Len(chunks) : chunks[m] \in [key : DOMAIN nodes, size : Nat]
      BY <3>1, ElementOfSeq
    <3> QED
      BY <3>1, <3>2, <3>3
  <2>3. n \in DOMAIN chunks /\ chunks[n].key = ordered[i] /\ ChunkTable[n] = chunks[n].size
    BY <2>1, <2>2 DEF ChunkTable
  <2>4. CurrentOffset(n) = ChunkOffset(n)
    <3> DEFINE before == SubSeq(ChunkTable, 1, n - 1)
               sizes == [m \in 1 .. n - 1 |-> chunks[m].size]
    <3>1. n - 1 \in Nat /\ \A m \in 1 .. n - 1 : m \in 1 .. Len(dataKeys)
      BY <2>1, <2>2
    <3>2. \A m \in 1 .. n - 1 : ChunkTable[m] = chunks[m].size /\ ChunkTable[m] \in Nat
      BY <2>2, <3>1 DEF ChunkTable
    <3>3. /\ before \in Seq(Nat) /\ Len(before) = IF 1 <= n - 1 THEN n - 1 - 1 + 1 ELSE 0
          /\ \A m \in 1 .. n - 1 - 1 + 1 : before[m] = ChunkTable[1 + m - 1]
      BY <3>1, <3>2, SubSeqProperties
    <3>4. Len(before) = n - 1 /\ \A m \in 1 .. n - 1 : before[m] = ChunkTable[m]
      <4>1. n - 1 - 1 + 1 = n - 1 /\ \A m \in 1 .. n - 1 : 1 + m - 1 = m
        BY <3>1
      <4> QED
        BY <3>1, <3>3, <4>1
    <3>5. sizes \in [1 .. n - 1 -> Nat] /\ \A m \in 1 .. n - 1 : sizes[m] = chunks[m].size
      BY <3>2
    <3> HIDE DEF before, sizes
    <3>6. sizes \in Seq(Nat) /\ Len(sizes) = n - 1
      BY <3>1, <3>5, FunctionIsList
    <3>7. before = sizes
      BY <3>2, <3>3, <3>4, <3>5, <3>6, SeqEqual
    <3> QED
      BY <3>7 DEF CurrentOffset, ChunkOffset, before, sizes
  <2>5. /\ ChunkInfo[i].key = ordered[i] /\ ChunkInfo[i].offset = ChunkOffset(n)
        /\ ChunkInfo[i].byteSize = chunks[n].size
        /\ ChunkInfo[i].pointCount = Len(nodes[ordered[i]])
    BY <1>3, <1>5, <2>3, <2>4
  <2> QED
    BY <1>5, <2>3, <2>5 DEF Describes
<1> QED
  BY <1>4, <1>5

(***************************************************************************)
(* Lists of lists                                                          *)
(***************************************************************************)
\* What holds at 0, and at the next one of every number it holds at, holds
\* throughout an interval from 0: T is where it holds.
LEMMA Climb ==
    ASSUME NEW d \in Nat, NEW T, 0 \in T, \A i \in 1 .. d : i - 1 \in T => i \in T
    PROVE  \A i \in 0 .. d : i \in T
<1> DEFINE B == {i \in 0 .. d : i \notin T}
<1>1. SUFFICES ASSUME B # {} PROVE FALSE
  OBVIOUS
<1>2. B \subseteq Nat
  OBVIOUS
<1> HIDE DEF B
<1>3. PICK i \in B : \A k \in B : i <= k
  BY <1>1, <1>2, Least
<1>4. i \in 0 .. d /\ i \notin T
  BY <1>3 DEF B
<1>5. i # 0
  BY <1>4
<1>6. i \in 1 .. d /\ i - 1 \in 0 .. d /\ i - 1 \notin B
  BY <1>3, <1>4, <1>5
<1>7. i - 1 \in T
  BY <1>6 DEF B
<1> QED
  BY <1>4, <1>6, <1>7

\* u has the powers of n up to the d-th.
Powers(n, d, u) ==
    /\ u \in [0 .. d -> Nat] /\ u[0] = 1
    /\ \A i \in 1 .. d : u[i] = n * u[i - 1]

LEMMA PowersExist ==
    ASSUME NEW n \in Nat, NEW d \in Nat
    PROVE  \E u : Powers(n, d, u)
<1> DEFINE T == {i \in Nat : \E u : Powers(n, i, u)}
<1>1. 0 \in T
  <2>1. Powers(n, 0, [i \in 0 .. 0 |-> 1])
    BY DEF Powers
  <2> QED
    BY <2>1
<1>2. ASSUME NEW i \in 1 .. d, i - 1 \in T PROVE i \in T
  <2>1. PICK u : Powers(n, i - 1, u)
    BY <1>2
  <2>2. /\ u \in [0 .. i - 1 -> Nat] /\ u[0] = 1
        /\ \A k \in 1 .. i - 1 : u[k] = n * u[k - 1]
    BY <2>1 DEF Powers
  <2> DEFINE v == [k \in 0 .. i |-> IF k = i THEN n * u[i - 1] ELSE u[k]]
  <2>3. n * u[i - 1] \in Nat
    BY <2>2
  <2>4. v \in [0 .. i -> Nat]
    BY <2>2, <2>3
  <2>5. v[0] = 1
    BY <2>2
  <2>6. ASSUME NEW k \in 1 .. i PROVE v[k] = n * v[k - 1]
    <3>1. k \in 0 .. i /\ k - 1 \in 0 .. i /\ k - 1 # i
      OBVIOUS
    <3>2. v[k - 1] = u[k - 1] /\ v[k] = IF k = i THEN n * u[i - 1] ELSE u[k]
      BY <3>1
    <3>3. k # i => k \in 1 .. i - 1
      OBVIOUS
    <3> HIDE DEF v
    <3> QED
      BY <2>2, <3>2, <3>3
  <2> HIDE DEF v
  <2>7. Powers(n, i, v)
    BY <2>4, <2>5, <2>6 DEF Powers
  <2> QED
    BY <2>7
<1> HIDE DEF T
<1>3. d \in T
  BY <1>1, <1>2, Climb
<1> QED
  BY <1>3 DEF T

LEMMA PowersAgree ==
    ASSUME NEW n \in Nat, NEW d \in Nat, NEW u, NEW v,
           u[0] = v[0],
           \A i \in 1 .. d : u[i] = n * u[i - 1], \A i \in 1 .. d : v[i] = n * v[i - 1]
    PROVE  u[d] = v[d]
<1> DEFINE T == {i \in Nat : u[i] = v[i]}
<1>1. 0 \in T
  OBVIOUS
<1>2. \A i \in 1 .. d : i - 1 \in T => i \in T
  OBVIOUS
<1> HIDE DEF T
<1>3. d \in T
  BY <1>1, <1>2, Climb
<1> QED
  BY <1>3 DEF T

LEMMA PowIs ==
    ASSUME NEW n \in Nat, NEW d \in Nat
    PROVE  \E u : Powers(n, d, u) /\ Pow(n, d) = u[d]
<1> DEFINE F(u) == [i \in 0 .. d |-> IF i = 0 THEN 1 ELSE n * u[i - 1]]
           U == CHOOSE u : u = F(u)
<1>1. PICK u : Powers(n, d, u)
  BY PowersExist
<1>2. u = F(u)
  BY <1>1 DEF Powers
<1>3. U = F(U)
  BY <1>2
<1>4. Pow(n, d) = U[d]
  BY DEF Pow
<1> HIDE DEF U
<1>5. U[0] = 1 /\ \A i \in 1 .. d : U[i] = n * U[i - 1]
  BY <1>3
<1>6. U[d] = u[d]
  <2>1. u[0] = 1 /\ \A i \in 1 .. d : u[i] = n * u[i - 1]
    BY <1>1 DEF Powers
  <2>2. U[0] = u[0]
    BY <1>5, <2>1
  <2> QED
    BY <1>5, <2>1, <2>2, PowersAgree
<1> QED
  BY <1>1, <1>4, <1>6

\* The equations of a power.
LEMMA PowZero ==
    ASSUME NEW n \in Nat
    PROVE  Pow(n, 0) = 1
<1>1. PICK u : Powers(n, 0, u) /\ Pow(n, 0) = u[0]
  BY PowIs
<1> QED
  BY <1>1 DEF Powers

LEMMA PowNext ==
    ASSUME NEW n \in Nat, NEW d \in Nat
    PROVE  Pow(n, d + 1) = n * Pow(n, d) /\ Pow(n, d) \in Nat
<1>1. PICK u : Powers(n, d, u) /\ Pow(n, d) = u[d]
  BY PowIs
<1>2. PICK v : Powers(n, d + 1, v) /\ Pow(n, d + 1) = v[d + 1]
  BY PowIs
<1>3. u[d] = v[d]
  <2>1. u[0] = 1 /\ \A i \in 1 .. d : u[i] = n * u[i - 1]
    BY <1>1 DEF Powers
  <2>2. v[0] = 1 /\ \A i \in 1 .. d + 1 : v[i] = n * v[i - 1]
    BY <1>2 DEF Powers
  <2>3. u[0] = v[0]
    BY <2>1, <2>2
  <2>4. \A i \in 1 .. d : v[i] = n * v[i - 1]
    BY <2>2
  <2>5. \A i \in 1 .. d : u[i] = n * u[i - 1]
    BY <2>1
  <2> QED
    BY <2>3, <2>4, <2>5, PowersAgree, SMTT(30)
<1>4. v[d + 1] = n * v[d] /\ u[d] \in Nat
  BY <1>1, <1>2 DEF Powers
<1> QED
  BY <1>1, <1>2, <1>3, <1>4

LEMMA PowPositive ==
    ASSUME NEW n \in Nat \ {0}, NEW d \in Nat
    PROVE  Pow(n, d) \in Nat \ {0}
<1> DEFINE T == {i \in Nat : Pow(n, i) \in Nat \ {0}}
<1>1. 0 \in T
  BY PowZero
<1>2. ASSUME NEW i \in 1 .. d, i - 1 \in T PROVE i \in T
  <2>1. Pow(n, (i - 1) + 1) = n * Pow(n, i - 1) /\ Pow(n, i - 1) \in Nat
    BY PowNext
  <2>2. Pow(n, i) = n * Pow(n, i - 1) /\ Pow(n, i - 1) \in Nat \ {0}
    BY <1>2, <2>1
  <2> QED
    BY <2>2
<1> HIDE DEF T
<1>3. d \in T
  BY <1>1, <1>2, Climb
<1> QED
  BY <1>3 DEF T

LEMMA DivPow ==
    ASSUME NEW x \in Nat, NEW d \in Nat
    PROVE  x \div Pow(2, d) \in Nat
<1> DEFINE n == Pow(2, d)
<1>1. n \in Nat \ {0}
  BY PowPositive
<1> HIDE DEF n
<1>2. x \div n \in Nat
  BY <1>1
<1> QED
  BY <1>2 DEF n

\* A fold's results step by step: there are such, for any steps.
Steps(n, A, z, step) ==
    \E u \in [0 .. n -> A] : u[0] = z /\ \A i \in 1 .. n : u[i] = step[i][u[i - 1]]

LEMMA FoldExists ==
    ASSUME NEW n \in Nat, NEW A, NEW z \in A, NEW step \in [1 .. n -> [A -> A]]
    PROVE  Steps(n, A, z, step)
<1> DEFINE P(m, u) == u[0] = z /\ \A i \in 1 .. m : u[i] = step[i][u[i - 1]]
           T == {m \in Nat : m <= n => \E u \in [0 .. m -> A] : P(m, u)}
<1>1. 0 \in T
  <2>1. [i \in 0 .. 0 |-> z] \in [0 .. 0 -> A] /\ P(0, [i \in 0 .. 0 |-> z])
    OBVIOUS
  <2> QED
    BY <2>1
<1>2. ASSUME NEW m \in 1 .. n, m - 1 \in T PROVE m \in T
  <2>1. PICK u \in [0 .. m - 1 -> A] : P(m - 1, u)
    BY <1>2
  <2> DEFINE v == [i \in 0 .. m |-> IF i = m THEN step[m][u[m - 1]] ELSE u[i]]
  <2>2. u[m - 1] \in A
    BY <2>1
  <2>3. step[m][u[m - 1]] \in A
    BY <2>2
  <2>4. v \in [0 .. m -> A]
    BY <2>1, <2>3
  <2>5. v[0] = z
    BY <2>1
  <2>6. ASSUME NEW i \in 1 .. m PROVE v[i] = step[i][v[i - 1]]
    <3>1. i \in 0 .. m /\ i - 1 \in 0 .. m /\ i - 1 # m
      OBVIOUS
    <3>2. v[i - 1] = u[i - 1] /\ v[i] = IF i = m THEN step[m][u[m - 1]] ELSE u[i]
      BY <3>1
    <3>3. i # m => i \in 1 .. m - 1
      OBVIOUS
    <3> HIDE DEF v
    <3> QED
      BY <2>1, <3>2, <3>3
  <2> HIDE DEF v
  <2> QED
    BY <2>4, <2>5, <2>6
<1> HIDE DEF T
<1>3. \A m \in 1 .. n : m - 1 \in T => m \in T
  BY <1>2
<1>4. \A m \in 0 .. n : m \in T
  BY <1>1, <1>3, Climb
<1>5. n \in T
  BY <1>4
<1> QED
  BY <1>5 DEF T, Steps

\* One more number.
LEMMA SumNext ==
    ASSUME NEW n \in Nat, NEW f \in [1 .. n + 1 -> Nat]
    PROVE  SumOf(f) = SumOf([i \in 1 .. n |-> f[i]]) + f[n + 1]
<1> DEFINE g == [i \in 1 .. n |-> f[i]]
<1>1. f \in Seq(Nat) /\ Len(f) = n + 1
  BY FunctionIsList
<1>2. g \in [1 .. n -> Nat]
  OBVIOUS
<1>3. g \in Seq(Nat) /\ Len(g) = n
  BY <1>2, FunctionIsList
<1>4. \A i \in 1 .. n : g[i] = f[i]
  OBVIOUS
<1> HIDE DEF g
<1>5. PICK u : PrefixSums(f, n + 1, u) /\ SumOf(f) = u[n + 1]
  BY <1>1, SumIs
<1>6. PICK v : PrefixSums(g, n, v) /\ SumOf(g) = v[n]
  BY <1>3, SumIs
<1>7. /\ u \in [0 .. n + 1 -> Nat] /\ u[0] = 0
      /\ \A i \in 1 .. n + 1 : u[i] = u[i - 1] + f[i]
  BY <1>5 DEF PrefixSums
<1>8. v[0] = 0 /\ \A i \in 1 .. n : v[i] = v[i - 1] + f[i]
  BY <1>4, <1>6 DEF PrefixSums
<1> DEFINE T == {i \in Nat : u[i] = v[i]}
<1>9. 0 \in T
  BY <1>7, <1>8
<1>10. \A i \in 1 .. n : i - 1 \in T => i \in T
  BY <1>7, <1>8
<1> HIDE DEF T
<1>11. n \in T
  <2>1. \A i \in 0 .. n : i \in T
    BY <1>9, <1>10, Climb
  <2> QED
    BY <2>1
<1>12. u[n] = v[n]
  BY <1>11 DEF T
<1>13. u[n + 1] = u[n] + f[n + 1]
  BY <1>7
<1> QED
  BY <1>5, <1>6, <1>12, <1>13 DEF g

LEMMA NothingSums == SumOf([i \in 1 .. 0 |-> 0]) = 0
<1> DEFINE f == [i \in 1 .. 0 |-> 0]
<1>1. f \in Seq(Nat) /\ Len(f) = 0
  <2>1. f \in [1 .. 0 -> Nat] /\ 0 \in Nat
    OBVIOUS
  <2> HIDE DEF f
  <2> QED
    BY <2>1, FunctionIsList
<1> HIDE DEF f
<1>2. PICK u : PrefixSums(f, 0, u) /\ SumOf(f) = u[0]
  BY <1>1, SumIs
<1> QED
  BY <1>2 DEF PrefixSums, f

\* How much lies before the j-th list.
Before(lists, j) == SumOf([l \in 1 .. j - 1 |-> Len(lists[l])])

LEMMA BeforeNext ==
    ASSUME NEW n \in Nat, NEW lists, \A j \in 1 .. n : Len(lists[j]) \in Nat
    PROVE  /\ Before(lists, 1) = 0
           /\ \A j \in 1 .. n + 1 : Before(lists, j) \in Nat
           /\ \A j \in 1 .. n : Before(lists, j + 1) = Before(lists, j) + Len(lists[j])
<1>1. Before(lists, 1) = 0
  <2>1. [l \in 1 .. 1 - 1 |-> Len(lists[l])] = [l \in 1 .. 0 |-> 0]
    OBVIOUS
  <2> QED
    BY <2>1, NothingSums DEF Before
<1>2. ASSUME NEW j \in 1 .. n + 1 PROVE Before(lists, j) \in Nat
  <2> DEFINE f == [l \in 1 .. j - 1 |-> Len(lists[l])]
  <2>1. f \in [1 .. j - 1 -> Nat] /\ j - 1 \in Nat
    OBVIOUS
  <2> HIDE DEF f
  <2>2. f \in Seq(Nat)
    BY <2>1, FunctionIsList
  <2>3. SumOf(f) \in Nat
    BY <2>2, SumIsNat
  <2> QED
    BY <2>3 DEF f, Before
<1>3. ASSUME NEW j \in 1 .. n PROVE Before(lists, j + 1) = Before(lists, j) + Len(lists[j])
  <2> DEFINE m == j - 1
             f == [l \in 1 .. m + 1 |-> Len(lists[l])]
  <2>1. m \in Nat /\ f \in [1 .. m + 1 -> Nat] /\ m + 1 = j
    OBVIOUS
  <2>2. [l \in 1 .. m |-> f[l]] = [l \in 1 .. j - 1 |-> Len(lists[l])] /\ f[m + 1] = Len(lists[j])
    OBVIOUS
  <2>3. f = [l \in 1 .. (j + 1) - 1 |-> Len(lists[l])]
    OBVIOUS
  <2> HIDE DEF f, m
  <2>4. SumOf(f) = SumOf([l \in 1 .. m |-> f[l]]) + f[m + 1]
    BY <2>1, SumNext
  <2> QED
    BY <2>2, <2>3, <2>4 DEF Before
<1> QED
  BY <1>1, <1>2, <1>3

\* c has the lists one behind the other.
Flat(c, lists, n, A) ==
    /\ c \in Seq(A) /\ Len(c) = Before(lists, n + 1)
    /\ \A j \in 1 .. n : \A m \in 1 .. Len(lists[j]) :
          Before(lists, j) + m \in 1 .. Len(c) /\ c[Before(lists, j) + m] = lists[j][m]
    /\ \A x \in 1 .. Len(c) : \E j \in 1 .. n : \E m \in 1 .. Len(lists[j]) : x = Before(lists, j) + m

LEMMA FlatNext ==
    ASSUME NEW A, NEW n \in Nat, NEW lists, \A j \in 1 .. n + 1 : lists[j] \in Seq(A),
           NEW c, Flat(c, lists, n, A)
    PROVE  Flat(c \o lists[n + 1], lists, n + 1, A)
<1> DEFINE s == lists[n + 1]
           d == c \o s
           b == Before(lists, n + 1)
<1>1. \A j \in 1 .. n + 1 : Len(lists[j]) \in Nat
  BY LenProperties
<1>2. b \in Nat /\ Before(lists, (n + 1) + 1) = b + Len(s)
  <2> DEFINE k == n + 1
  <2>1. k \in Nat /\ k \in 1 .. k /\ k \in 1 .. k + 1 /\ \A j \in 1 .. k : Len(lists[j]) \in Nat
    BY <1>1
  <2> HIDE DEF k
  <2>2. /\ \A j \in 1 .. k + 1 : Before(lists, j) \in Nat
        /\ \A j \in 1 .. k : Before(lists, j + 1) = Before(lists, j) + Len(lists[j])
    BY <2>1, BeforeNext
  <2>3. Before(lists, k) \in Nat /\ Before(lists, k + 1) = Before(lists, k) + Len(lists[k])
    BY <2>1, <2>2
  <2> QED
    BY <2>3 DEF k
<1>3. s \in Seq(A) /\ c \in Seq(A) /\ Len(c) = b /\ Len(s) \in Nat
  BY <1>1 DEF Flat
<1>4. d \in Seq(A) /\ Len(d) = b + Len(s)
      /\ \A x \in 1 .. b + Len(s) : d[x] = IF x <= b THEN c[x] ELSE s[x - b]
  <2> HIDE DEF s, b
  <2>1. d \in Seq(A) /\ Len(d) = Len(c) + Len(s)
    BY <1>3, ConcatProperties
  <2>2. \A x \in 1 .. Len(c) + Len(s) : d[x] = IF x <= Len(c) THEN c[x] ELSE s[x - Len(c)]
    BY <1>3
  <2> QED
    BY <1>3, <2>1, <2>2
<1> HIDE DEF d
<1>5. ASSUME NEW j \in 1 .. n + 1, NEW m \in 1 .. Len(lists[j])
      PROVE  Before(lists, j) + m \in 1 .. Len(d) /\ d[Before(lists, j) + m] = lists[j][m]
  <2>1. CASE j = n + 1
    <3>1. m \in 1 .. Len(s) /\ b + m \in 1 .. Len(d) /\ ~(b + m <= b) /\ (b + m) - b = m
      BY <1>2, <1>3, <1>4, <2>1
    <3>2. d[b + m] = s[(b + m) - b]
      BY <1>4, <3>1
    <3> QED
      BY <2>1, <3>1, <3>2
  <2>2. CASE j # n + 1
    <3>1. j \in 1 .. n
      BY <2>2
    <3>2. Before(lists, j) + m \in 1 .. b /\ c[Before(lists, j) + m] = lists[j][m]
      BY <1>3, <3>1 DEF Flat
    <3> HIDE DEF b, s
    <3>3. Before(lists, j) + m \in 1 .. b + Len(s) /\ Before(lists, j) + m <= b
      BY <1>2, <1>3, <3>2
    <3> QED
      BY <1>4, <3>2, <3>3
  <2> QED
    BY <2>1, <2>2
<1>6. ASSUME NEW x \in 1 .. Len(d)
      PROVE  \E j \in 1 .. n + 1 : \E m \in 1 .. Len(lists[j]) : x = Before(lists, j) + m
  <2>1. CASE x <= b
    <3>1. x \in 1 .. Len(c)
      BY <1>2, <1>3, <1>4, <2>1
    <3>2. PICK j \in 1 .. n : \E m \in 1 .. Len(lists[j]) : x = Before(lists, j) + m
      BY <3>1 DEF Flat
    <3> QED
      BY <3>2
  <2>2. CASE ~(x <= b)
    <3>1. x - b \in 1 .. Len(s) /\ x = b + (x - b) /\ n + 1 \in 1 .. n + 1
      BY <1>2, <1>3, <1>4, <2>2
    <3> QED
      BY <3>1
  <2> QED
    BY <2>1, <2>2
<1>7. Len(d) = Before(lists, (n + 1) + 1)
  BY <1>2, <1>4
<1>8. Flat(d, lists, n + 1, A)
  <2> HIDE DEF b
  <2> QED
    BY <1>4, <1>5, <1>6, <1>7 DEF Flat
<1> QED
  BY <1>8 DEF d

LEMMA ConcatIs ==
    ASSUME NEW A, NEW n \in Nat, NEW lists, Len(lists) = n,
           \A j \in 1 .. n : lists[j] \in Seq(A)
    PROVE  Flat(Concat(lists), lists, n, A)
<1> DEFINE F(u) == [i \in 0 .. n |-> IF i = 0 THEN <<>> ELSE u[i - 1] \o lists[i]]
           U == CHOOSE u : u = F(u)
           B == Seq(A)
           step == [i \in 1 .. n |-> [acc \in B |-> acc \o lists[i]]]
           none == <<>>
<1>1. none \in B
  OBVIOUS
<1>2. \A i \in 1 .. n : lists[i] \in B
  OBVIOUS
<1>3. ASSUME NEW s \in B, NEW t \in B PROVE s \o t \in B
  BY <1>3
<1>4. step \in [1 .. n -> [B -> B]]
  <2> HIDE DEF B
  <2> QED
    BY <1>2, <1>3
<1>5. \E u : u = F(u)
  <2> HIDE DEF step, B, none
  <2>1. Steps(n, B, none, step)
    BY <1>1, <1>4, FoldExists
  <2>2. PICK u \in [0 .. n -> B] : u[0] = none /\ \A i \in 1 .. n : u[i] = step[i][u[i - 1]]
    BY <2>1 DEF Steps
  <2>3. ASSUME NEW i \in 1 .. n PROVE u[i] = u[i - 1] \o lists[i]
    <3>1. i - 1 \in 0 .. n
      OBVIOUS
    <3>2. u[i - 1] \in B
      BY <2>2, <3>1
    <3>3. u[i] = step[i][u[i - 1]]
      BY <2>2
    <3> QED
      BY <3>2, <3>3 DEF step
  <2>4. \A i \in 0 .. n : i # 0 => i \in 1 .. n
    OBVIOUS
  <2>5. u = F(u)
    BY <2>2, <2>3, <2>4 DEF none
  <2> QED
    BY <2>5
<1>6. U = F(U)
  BY <1>5
<1>7. Concat(lists) = U[n]
  BY DEF Concat
<1> HIDE DEF U
<1>8. U[0] = <<>> /\ \A i \in 1 .. n : U[i] = U[i - 1] \o lists[i]
  <2>1. 0 \in 0 .. n /\ \A i \in 1 .. n : i \in 0 .. n /\ i # 0
    OBVIOUS
  <2> QED
    BY <1>6, <2>1
<1> DEFINE T == {m \in Nat : m <= n => Flat(U[m], lists, m, A)}
<1>9. 0 \in T
  <2>1. Before(lists, 0 + 1) = 0
    <3>1. \A j \in 1 .. 0 : Len(lists[j]) \in Nat
      OBVIOUS
    <3>2. Before(lists, 1) = 0
      BY <3>1, BeforeNext
    <3> QED
      BY <3>2
  <2>2. U[0] \in Seq(A) /\ Len(U[0]) = 0
    BY <1>8
  <2>3. Flat(U[0], lists, 0, A)
    BY <2>1, <2>2 DEF Flat
  <2> QED
    BY <2>3
<1>10. ASSUME NEW m \in 1 .. n, m - 1 \in T PROVE m \in T
  <2> DEFINE k == m - 1
  <2>1. k \in Nat /\ k + 1 = m /\ Flat(U[k], lists, k, A)
    BY <1>10
  <2>2. \A j \in 1 .. k + 1 : lists[j] \in Seq(A)
    OBVIOUS
  <2> HIDE DEF k
  <2>3. Flat(U[k] \o lists[k + 1], lists, k + 1, A)
    BY <2>1, <2>2, FlatNext
  <2>4. U[m] = U[k] \o lists[k + 1]
    BY <1>8, <2>1 DEF k
  <2>5. Flat(U[m], lists, m, A)
    <3>1. Flat(U[k] \o lists[k + 1], lists, m, A)
      BY <2>1, <2>3
    <3> QED
      BY <2>4, <3>1
  <2> QED
    BY <2>5
<1> HIDE DEF T
<1>11. n \in T
  <2>1. \A m \in 0 .. n : m \in T
    BY <1>9, <1>10, Climb
  <2> QED
    BY <2>1
<1> QED
  BY <1>7, <1>11 DEF T

\* A place in a list of lists is in one list only.
LEMMA PlacesApart ==
    ASSUME NEW n \in Nat, NEW lists, \A j \in 1 .. n : Len(lists[j]) \in Nat
    PROVE  /\ \A i, j \in 1 .. n : i < j => Before(lists, i) + Len(lists[i]) <= Before(lists, j)
           /\ \A i, j \in 1 .. n : \A k \in 1 .. Len(lists[i]), m \in 1 .. Len(lists[j]) :
                 Before(lists, i) + k = Before(lists, j) + m => i = j /\ k = m
<1>1. /\ \A j \in 1 .. n + 1 : Before(lists, j) \in Nat
      /\ \A j \in 1 .. n : Before(lists, j + 1) = Before(lists, j) + Len(lists[j])
  BY BeforeNext
<1>2. ASSUME NEW i \in 1 .. n, NEW j \in 1 .. n, i < j
      PROVE  Before(lists, i) + Len(lists[i]) <= Before(lists, j)
  <2> DEFINE T == {k \in Nat : i + 1 + k <= n =>
                       Before(lists, i) + Len(lists[i]) <= Before(lists, i + 1 + k)}
  <2>1. 0 \in T
    BY <1>1
  <2>2. ASSUME NEW k \in 1 .. j - i - 1, k - 1 \in T PROVE k \in T
    <3>1. i + 1 + (k - 1) = i + k /\ i + k \in 1 .. n /\ (i + k) + 1 = i + 1 + k
      OBVIOUS
    <3>2. Before(lists, i) + Len(lists[i]) <= Before(lists, i + k)
      BY <2>2, <3>1
    <3>3. Before(lists, (i + k) + 1) = Before(lists, i + k) + Len(lists[i + k])
      BY <1>1, <3>1
    <3>4. Before(lists, i) \in Nat /\ Before(lists, i + k) \in Nat
          /\ Len(lists[i]) \in Nat /\ Len(lists[i + k]) \in Nat
      BY <1>1, <3>1
    <3>5. Before(lists, i) + Len(lists[i]) <= Before(lists, (i + k) + 1)
      BY <3>2, <3>3, <3>4
    <3> QED
      BY <3>1, <3>5
  <2> HIDE DEF T
  <2>3. j - i - 1 \in Nat
    BY <1>2
  <2>4. \A k \in 0 .. j - i - 1 : k \in T
    BY <2>1, <2>2, <2>3, Climb
  <2>5. j - i - 1 \in T
    BY <2>3, <2>4
  <2>6. i + 1 + (j - i - 1) = j
    OBVIOUS
  <2> QED
    BY <2>5, <2>6 DEF T
<1>3. ASSUME NEW i \in 1 .. n, NEW j \in 1 .. n,
             NEW k \in 1 .. Len(lists[i]), NEW m \in 1 .. Len(lists[j]),
             Before(lists, i) + k = Before(lists, j) + m
      PROVE  i = j /\ k = m
  <2>1. Before(lists, i) \in Nat /\ Before(lists, j) \in Nat
    BY <1>1
  <2>2. ~(i < j)
    BY <1>2, <1>3, <2>1
  <2>3. ~(j < i)
    BY <1>2, <1>3, <2>1
  <2>4. i = j
    BY <2>2, <2>3
  <2> QED
    BY <1>3, <2>1, <2>4
<1> QED
  BY <1>2, <1>3

(***************************************************************************)
(* Pages                                                                   *)
(***************************************************************************)
KeySet == Nat \X Nat

\* What a page is made of.
EntrySet(kind) ==
    IF kind = "node"
    THEN [key : KeySet, offset : Nat, byteSize : Nat, pointCount : Nat]
    ELSE [key : KeySet, samples : Seq(GpsTimes) \ {<<>>}]

PointerSet(kind) ==
    IF kind = "node"
    THEN [key : KeySet, offset : Nat, byteSize : Nat, pointCount : {-1}]
    ELSE [key : KeySet, samples : {<<>>}, offset : Nat, byteSize : Nat, range : Int \X Int]

RecordSet(kind) == EntrySet(kind) \cup PointerSet(kind)

PageSet(kind) == [data : Seq(RecordSet(kind)), patches : Seq(Nat \X Nat)]

Kinds == {"node", "time"}

\* A list of entries with a key of its own each.
EntryList(kind, entries) ==
    /\ entries \in Seq(EntrySet(kind))
    /\ \A i, j \in 1 .. Len(entries) : entries[i].key = entries[j].key => i = j

LEMMA RecordsAre ==
    ASSUME NEW kind \in Kinds, NEW r \in RecordSet(kind)
    PROVE  /\ RecordSize(kind, r) \in Nat \ {0}
           /\ r \in PointerSet(kind) <=> IsPointer(kind, r)
           /\ r \in EntrySet(kind) <=> ~IsPointer(kind, r)
           /\ r.key \in KeySet
<1>1. CASE kind = "node"
  <2>1. RecordSize(kind, r) = 32 /\ (IsPointer(kind, r) <=> r.pointCount = -1)
    BY <1>1 DEF RecordSize, IsPointer
  <2>2. r \in EntrySet(kind) => r.pointCount # -1 /\ r.key \in KeySet
    BY <1>1 DEF EntrySet
  <2>3. r \in PointerSet(kind) => r.pointCount = -1 /\ r.key \in KeySet
    BY <1>1 DEF PointerSet
  <2> QED
    BY <2>1, <2>2, <2>3 DEF RecordSet
<1>2. CASE kind = "time"
  <2>1. /\ RecordSize(kind, r) = IF r.samples = <<>> THEN 48 ELSE 20 + 8 * Len(r.samples)
        /\ IsPointer(kind, r) <=> r.samples = <<>>
    BY <1>2 DEF RecordSize, IsPointer
  <2>2. r \in EntrySet(kind) => r.samples # <<>> /\ r.samples \in Seq(GpsTimes) /\ r.key \in KeySet
    BY <1>2 DEF EntrySet
  <2>3. r \in PointerSet(kind) => r.samples = <<>> /\ r.key \in KeySet
    BY <1>2 DEF PointerSet
  <2>4. r \in EntrySet(kind) => 20 + 8 * Len(r.samples) \in Nat \ {0}
    BY <2>2, LenProperties
  <2> QED
    BY <2>1, <2>2, <2>3, <2>4 DEF RecordSet
<1> QED
  BY <1>1, <1>2 DEF Kinds

\* The list of a finite set of numbers has each at the place of its rank.
LEMMA NumbersListed ==
    ASSUME NEW S, S \subseteq Int, IsFiniteSet(S)
    PROVE  Ordered(InOrder(S, <), S, NumberOrder(S))
<1> DEFINE e == InOrder(S, <)
           N == Cardinality(S)
           R == NumberOrder(S)
<1>1. Orders(R, S)
  BY NumbersAreOrdered
<1>2. e \in [1 .. N -> S]
  BY <1>1, NumbersInOrder
<1>3. \A x \in S : Cardinality({y \in S : y < x}) = RankOf(R, S, x)
  BY NumberRank
<1>4. e = [n \in 1 .. N |-> CHOOSE x \in S : Cardinality({y \in S : y < x}) = n - 1]
  BY DEF InOrder
<1>5. \A n \in 1 .. N : e[n] = CHOOSE x \in S : Cardinality({y \in S : y < x}) = n - 1
  BY <1>4
<1> HIDE DEF e, R
<1>6. \A n \in 1 .. N : \E x \in S : RankOf(R, S, x) = n - 1
  <2>1. ASSUME NEW n \in 1 .. Cardinality(S)
        PROVE  \E x \in S : RankOf(R, S, x) = n - 1
    BY <1>1, RankTaken
  <2> QED
    BY <2>1
<1>7. ASSUME NEW n \in 1 .. N PROVE RankOf(R, S, e[n]) = n - 1
  <2>1. PICK x \in S : RankOf(R, S, x) = n - 1
    BY <1>6
  <2>2. Cardinality({y \in S : y < x}) = n - 1
    BY <1>3, <2>1
  <2>3. e[n] \in S /\ Cardinality({y \in S : y < e[n]}) = n - 1
    BY <1>5, <2>2
  <2> QED
    BY <1>3, <2>3
<1>8. Ordered(e, S, R)
  BY <1>1, <1>2, <1>7, ByRank
<1> QED
  BY <1>8 DEF e, R

\* p lists the entries with the numbers S: each once.
IsListOf(p, entries, S, A) ==
    /\ Cardinality(S) \in Nat
    /\ p \in Seq(A) /\ Len(p) = Cardinality(S)
    /\ \A m \in 1 .. Cardinality(S) : \E i \in S : p[m] = entries[i]
    /\ \A i \in S : \E m \in 1 .. Cardinality(S) : p[m] = entries[i]
    /\ (\A i, j \in S : entries[i] = entries[j] => i = j) =>
          \A m, k \in 1 .. Cardinality(S) : p[m] = p[k] => m = k

LEMMA PickedIs ==
    ASSUME NEW n \in Nat, NEW A, NEW entries \in [1 .. n -> A], NEW S \in SUBSET (1 .. n)
    PROVE  IsListOf(Picked(entries, S), entries, S, A)
<1> DEFINE places == InOrder(S, <)
           N == Cardinality(S)
           p == Picked(entries, S)
<1>1. IsFiniteSet(S) /\ N \in Nat /\ S \subseteq Int
  <2>1. IsFiniteSet(1 .. n)
    BY FS_Interval
  <2>2. IsFiniteSet(S)
    BY <2>1, FS_Subset
  <2>3. N \in Nat
    BY <2>2, FS_CardinalityType
  <2> QED
    BY <2>2, <2>3
<1>2. Ordered(places, S, NumberOrder(S))
  BY <1>1, NumbersListed
<1>3. /\ Len(places) = N /\ DOMAIN places = 1 .. N
      /\ \A m \in 1 .. N : places[m] \in S
      /\ \A m, k \in 1 .. N : places[m] = places[k] => m = k
      /\ \A i \in S : \E m \in 1 .. N : places[m] = i
  BY <1>2 DEF Ordered
<1>4. p = [m \in 1 .. N |-> entries[places[m]]]
  BY <1>3 DEF Picked
<1> HIDE DEF places, p, N
<1>5. p \in [1 .. N -> A]
  <2>1. \A m \in 1 .. N : entries[places[m]] \in A
    BY <1>3
  <2> QED
    BY <1>4, <2>1
<1>6. p \in Seq(A) /\ Len(p) = N
  BY <1>1, <1>5, FunctionIsList
<1>7. \A m \in 1 .. N : \E i \in S : p[m] = entries[i]
  BY <1>3, <1>4
<1>8. \A i \in S : \E m \in 1 .. N : p[m] = entries[i]
  BY <1>3, <1>4
<1>9. ASSUME \A i, j \in S : entries[i] = entries[j] => i = j
      PROVE  \A m, k \in 1 .. N : p[m] = p[k] => m = k
  <2>1. ASSUME NEW m \in 1 .. N, NEW k \in 1 .. N, p[m] = p[k] PROVE m = k
    <3>1. p[m] = entries[places[m]] /\ p[k] = entries[places[k]]
      BY <1>4
    <3>2. places[m] \in S /\ places[k] \in S
      BY <1>3
    <3>3. places[m] = places[k]
      BY <1>9, <2>1, <3>1, <3>2
    <3> QED
      BY <1>3, <3>3
  <2> QED
    BY <2>1
<1>10. IsListOf(p, entries, S, A)
  BY <1>1, <1>6, <1>7, <1>8, <1>9 DEF IsListOf, N
<1> QED
  BY <1>10 DEF p

\* A child's page and the pages behind it come after the head page and the
\* pages of the children before it.
Place(under, j, x) == 1 + Before(under, j) + x

\* P is the head page, then the pages of each of the c children.
Assembled(P, head, under, c, A) ==
    /\ P \in Seq(A) /\ Len(P) \in Nat \ {0} /\ P[1] = head
    /\ \A j \in 1 .. c : \A x \in 1 .. Len(under[j]) :
          Place(under, j, x) \in 2 .. Len(P) /\ P[Place(under, j, x)] = under[j][x]
    /\ \A p \in 1 .. Len(P) :
          p = 1 \/ \E j \in 1 .. c : \E x \in 1 .. Len(under[j]) : p = Place(under, j, x)
    /\ \A i, j \in 1 .. c : \A x \in 1 .. Len(under[i]), y \in 1 .. Len(under[j]) :
          Place(under, i, x) = Place(under, j, y) => i = j /\ x = y
    /\ \A j \in 1 .. c : Before(under, j) \in Nat /\ 1 + ChildDistance(under, j) = Place(under, j, 1)

LEMMA PlacesJoined ==
    ASSUME NEW A, NEW s \in Seq(A), NEW t \in Seq(A)
    PROVE  /\ s \o t \in Seq(A) /\ Len(s \o t) = Len(s) + Len(t)
           /\ \A p \in 1 .. Len(s) + Len(t) : (s \o t)[p] = IF p <= Len(s) THEN s[p] ELSE t[p - Len(s)]
BY ConcatProperties, LenProperties

LEMMA IsAssembled ==
    ASSUME NEW A, NEW head \in A, NEW c \in Nat, NEW under, Len(under) = c,
           \A j \in 1 .. c : under[j] \in Seq(A)
    PROVE  Assembled(<<head>> \o Concat(under), head, under, c, A)
<1> DEFINE C == Concat(under)
           h == <<head>>
           P == h \o C
<1>1. Flat(C, under, c, A)
  BY ConcatIs
<1>2. \A j \in 1 .. c : Len(under[j]) \in Nat
  BY LenProperties
<1> HIDE DEF C
<1>3. C \in Seq(A) /\ Len(C) \in Nat
  BY <1>1, LenProperties DEF Flat
<1>4. h \in Seq(A) /\ Len(h) = 1 /\ h[1] = head
  OBVIOUS
<1> HIDE DEF h
<1>5. P \in Seq(A) /\ Len(P) = 1 + Len(C)
  BY <1>3, <1>4, ConcatProperties
<1>6. \A p \in 1 .. 1 + Len(C) : P[p] = IF p <= 1 THEN h[p] ELSE C[p - 1]
  <2>1. \A p \in 1 .. Len(h) + Len(C) : (h \o C)[p] = IF p <= Len(h) THEN h[p] ELSE C[p - Len(h)]
    BY <1>3, <1>4, PlacesJoined
  <2> QED
    BY <1>4, <2>1
<1> HIDE DEF P
<1>7. \A j \in 1 .. c : Before(under, j) \in Nat
  <2>1. \A j \in 1 .. c + 1 : Before(under, j) \in Nat
    BY <1>2, BeforeNext
  <2> QED
    BY <2>1
<1>8. P[1] = head
  BY <1>3, <1>4, <1>6
<1>9. ASSUME NEW j \in 1 .. c, NEW x \in 1 .. Len(under[j])
      PROVE  Place(under, j, x) \in 2 .. Len(P) /\ P[Place(under, j, x)] = under[j][x]
  <2> DEFINE y == Before(under, j) + x
  <2>1. y \in 1 .. Len(C) /\ C[y] = under[j][x]
    BY <1>1 DEF Flat
  <2>2. Place(under, j, x) = 1 + y
    BY <1>2, <1>7 DEF Place
  <2> HIDE DEF y
  <2> DEFINE z == 1 + y
  <2>3. z \in 1 .. 1 + Len(C) /\ ~(z <= 1) /\ z - 1 = y /\ z \in 2 .. 1 + Len(C)
    BY <1>3, <2>1
  <2>5. z = 1 + y
    OBVIOUS
  <2> HIDE DEF z
  <2>4. P[z] = C[z - 1]
    BY <1>6, <2>3
  <2> QED
    BY <1>5, <2>1, <2>2, <2>3, <2>4, <2>5
<1>10. ASSUME NEW p \in 1 .. Len(P), p # 1
       PROVE  \E j \in 1 .. c : \E x \in 1 .. Len(under[j]) : p = Place(under, j, x)
  <2>1. p - 1 \in 1 .. Len(C) /\ p \in Nat
    BY <1>3, <1>5, <1>10
  <2>2. PICK j \in 1 .. c : \E x \in 1 .. Len(under[j]) : p - 1 = Before(under, j) + x
    BY <1>1, <2>1 DEF Flat
  <2>3. PICK x \in 1 .. Len(under[j]) : p - 1 = Before(under, j) + x
    BY <2>2
  <2>4. p = 1 + Before(under, j) + x
    BY <1>2, <1>7, <2>1, <2>3
  <2> QED
    BY <2>4 DEF Place
<1>11. ASSUME NEW i \in 1 .. c, NEW j \in 1 .. c,
              NEW x \in 1 .. Len(under[i]), NEW y \in 1 .. Len(under[j]),
              Place(under, i, x) = Place(under, j, y)
       PROVE  i = j /\ x = y
  <2> DEFINE a == Before(under, i)
             b == Before(under, j)
  <2>3. 1 + a + x = 1 + b + y
    BY <1>11 DEF Place
  <2>4. a \in Nat /\ b \in Nat /\ x \in Nat /\ y \in Nat
    BY <1>2, <1>7
  <2> HIDE DEF a, b
  <2>5. a + x = b + y
    BY <2>3, <2>4
  <2>1. Before(under, i) + x = Before(under, j) + y
    BY <2>5 DEF a, b
  <2> QED
    BY <1>2, <2>1, PlacesApart
<1>12. \A j \in 1 .. c : Before(under, j) \in Nat /\ 1 + ChildDistance(under, j) = Place(under, j, 1)
  <2>1. \A j \in 1 .. c : ChildDistance(under, j) = 1 + Before(under, j)
    BY DEF ChildDistance, Before
  <2> QED
    BY <1>7, <2>1 DEF Place
<1>13. Len(P) \in Nat \ {0}
  BY <1>3, <1>5
<1>14. Assembled(P, head, under, c, A)
  BY <1>5, <1>8, <1>9, <1>10, <1>11, <1>12, <1>13 DEF Assembled
<1> QED
  BY <1>14 DEF P, h, C

LEMMA AncestorIs ==
    ASSUME NEW key \in KeySet, NEW level \in Nat
    PROVE  /\ AncestorAt(key, level) \in KeySet
           /\ level <= key[1] => AncestorAt(key, level)[1] = level
<1>1. key[1] \in Nat /\ key[2] \in Nat
  BY DEF KeySet
<1>2. CASE key[1] <= level
  <2>1. AncestorAt(key, level) = key
    BY <1>2 DEF AncestorAt
  <2> QED
    BY <1>1, <1>2, <2>1
<1>3. CASE ~(key[1] <= level)
  <2>1. AncestorAt(key, level) = <<level, key[2] \div Pow(2, key[1] - level)>>
    BY <1>3 DEF AncestorAt
  <2>2. key[1] - level \in Nat
    BY <1>1, <1>3
  <2>3. key[2] \div Pow(2, key[1] - level) \in Nat
    BY <1>1, <2>2, DivPow
  <2> QED
    BY <2>1, <2>3 DEF KeySet
<1> QED
  BY <1>2, <1>3

\* The first and the last sample of an entry are numbers.
EndsKnown(e) == Head(e.samples) # NaN /\ Last(e.samples) # NaN

\* A time range is around all samples it is taken of.
LEMMA RangeAround ==
    ASSUME NEW F, IsFiniteSet(F), F \subseteq EntrySet("time")
    PROVE  /\ TimeRange(F) \in Int \X Int
           /\ \A e \in F : EndsKnown(e) =>
                 TimeRange(F)[1] <= Head(e.samples) /\ Last(e.samples) <= TimeRange(F)[2]
<1> DEFINE G == {e \in F : e.samples # <<>>}
           H == {Head(e.samples) : e \in G}
           L == {Last(e.samples) : e \in G}
           A == (H \ {NaN}) \cup {Endless}
           B == (L \ {NaN}) \cup {-Endless}
<1>1. \A e \in F : e \in G /\ Head(e.samples) \in Int /\ Last(e.samples) \in Int
  <2>1. ASSUME NEW e \in F
        PROVE  e.samples # <<>> /\ Head(e.samples) \in Int /\ Last(e.samples) \in Int
    <3>1. e.samples \in Seq(GpsTimes) /\ e.samples # <<>>
      BY DEF EntrySet
    <3>2. Len(e.samples) \in Nat \ {0} /\ \A i \in 1 .. Len(e.samples) : e.samples[i] \in GpsTimes
      BY <3>1, LenProperties, ElementOfSeq
    <3>3. 1 \in 1 .. Len(e.samples) /\ Len(e.samples) \in 1 .. Len(e.samples)
      BY <3>2
    <3>4. Head(e.samples) = e.samples[1]
      BY <3>1
    <3> QED
      BY <3>1, <3>2, <3>3, <3>4, TimesAre DEF Last
  <2> QED
    BY <2>1
<1>2. IsFiniteSet(G)
  <2>1. G \subseteq F
    OBVIOUS
  <2> HIDE DEF G
  <2> QED
    BY <2>1, FS_Subset
<1>3. IsFiniteSet(H) /\ IsFiniteSet(L)
  <2> DEFINE f == [e \in G |-> Head(e.samples)]
             g == [e \in G |-> Last(e.samples)]
  <2>1. H = {f[e] : e \in G} /\ L = {g[e] : e \in G}
    OBVIOUS
  <2> HIDE DEF f, g, G, H, L
  <2>2. IsFiniteSet({f[e] : e \in G}) /\ IsFiniteSet({g[e] : e \in G})
    BY <1>2, ValuesFinite
  <2> QED
    BY <2>1, <2>2
<1>4. IsFiniteSet(A) /\ IsFiniteSet(B)
  <2> HIDE DEF H, L
  <2>1. H \ {NaN} \in SUBSET H /\ L \ {NaN} \in SUBSET L
    OBVIOUS
  <2>2. IsFiniteSet(H \ {NaN}) /\ IsFiniteSet(L \ {NaN})
    BY <1>3, <2>1, FS_Subset
  <2> QED
    BY <2>2, FS_AddElement
<1>5. A \subseteq Int /\ B \subseteq Int /\ A # {} /\ B # {}
  BY <1>1, PagesAssumption
<1>6. /\ Min(A) \in A /\ \A y \in A : Min(A) <= y
      /\ Max(B) \in B /\ \A y \in B : y <= Max(B)
  <2> HIDE DEF A, B
  <2> QED
    BY <1>4, <1>5, Ends
<1>7. TimeRange(F) = <<Min(A), Max(B)>>
  BY DEF TimeRange
<1>8. \A e \in F : EndsKnown(e) => Head(e.samples) \in A /\ Last(e.samples) \in B
  BY <1>1 DEF EndsKnown
<1> HIDE DEF A, B
<1>9. TimeRange(F)[1] = Min(A) /\ TimeRange(F)[2] = Max(B)
  BY <1>7
<1>10. Min(A) \in Int /\ Max(B) \in Int
  BY <1>5, <1>6
<1>11. TimeRange(F) \in Int \X Int
  BY <1>7, <1>10
<1>12. \A e \in F : EndsKnown(e) => Min(A) <= Head(e.samples) /\ Last(e.samples) <= Max(B)
  BY <1>6, <1>8
<1> QED
  BY <1>9, <1>11, <1>12

\* d lists the entries with the numbers S, each once.
ListsEntries(kind, E, S, d) ==
    /\ Cardinality(S) \in Nat /\ IsFiniteSet(S) /\ (S # {} => Cardinality(S) # 0)
    /\ d \in Seq(EntrySet(kind)) /\ Len(d) = Cardinality(S)
    /\ \A m \in 1 .. Cardinality(S) : (\E n \in S : d[m] = E[n]) /\ ~IsPointer(kind, d[m])
    /\ \A n \in S : \E m \in 1 .. Cardinality(S) : d[m] = E[n]
    /\ \A m, k \in 1 .. Cardinality(S) : d[m].key = d[k].key => m = k

LEMMA PickedEntries ==
    ASSUME NEW kind \in Kinds, NEW E, EntryList(kind, E), NEW S \in SUBSET (1 .. Len(E))
    PROVE  ListsEntries(kind, E, S, Picked(E, S))
<1> DEFINE A == EntrySet(kind)
           N == Cardinality(S)
           p == Picked(E, S)
           n == Len(E)
<1>1. E \in Seq(A) /\ \A i, j \in 1 .. n : E[i].key = E[j].key => i = j
  BY DEF EntryList
<1>2. n \in Nat /\ E \in [1 .. n -> A] /\ \A i \in 1 .. n : E[i] \in A
  BY <1>1, LenProperties, ElementOfSeq
<1>3. \A i \in S : i \in 1 .. n
  OBVIOUS
<1> HIDE DEF A, n
<1>4. /\ N \in Nat /\ p \in Seq(A) /\ Len(p) = N
      /\ \A m \in 1 .. N : \E i \in S : p[m] = E[i]
      /\ \A i \in S : \E m \in 1 .. N : p[m] = E[i]
      /\ (\A i, j \in S : E[i] = E[j] => i = j) =>
            \A m, k \in 1 .. N : p[m] = p[k] => m = k
  <2>1. S \in SUBSET (1 .. n)
    BY <1>3
  <2>2. IsListOf(Picked(E, S), E, S, A)
    BY <1>2, <2>1, PickedIs
  <2> HIDE DEF p
  <2>3. IsListOf(p, E, S, A)
    BY <2>2 DEF p
  <2> QED
    BY <2>3 DEF IsListOf
<1>5. IsFiniteSet(S) /\ (S # {} => N # 0)
  <2>1. IsFiniteSet(1 .. n)
    BY <1>2, FS_Interval
  <2>2. IsFiniteSet(S)
    BY <1>3, <2>1, FS_Subset
  <2>3. Cardinality(S) = 0 <=> S = {}
    BY <2>2, FS_EmptySet
  <2> QED
    BY <2>2, <2>3
<1> HIDE DEF N, p
<1>6. \A i, j \in S : E[i] = E[j] => i = j
  BY <1>1, <1>3
<1>7. \A m, k \in 1 .. N : p[m] = p[k] => m = k
  BY <1>4, <1>6
<1>8. ASSUME NEW m \in 1 .. N, NEW k \in 1 .. N, p[m].key = p[k].key PROVE m = k
  <2>1. PICK i \in S : p[m] = E[i]
    BY <1>4
  <2>2. PICK j \in S : p[k] = E[j]
    BY <1>4
  <2>3. i = j
    BY <1>1, <1>3, <1>8, <2>1, <2>2
  <2> QED
    BY <1>7, <2>1, <2>2, <2>3
<1>9. ASSUME NEW m \in 1 .. N PROVE ~IsPointer(kind, p[m])
  <2>1. p[m] \in EntrySet(kind) /\ p[m] \in RecordSet(kind)
    BY <1>2, <1>3, <1>4 DEF A, RecordSet
  <2> QED
    BY <2>1, RecordsAre
<1> QED
  BY <1>4, <1>5, <1>8, <1>9 DEF p, N, A, ListsEntries

\* A reader that looks for the entry e follows the pointer.
Leads(kind, pointer, e) ==
    IF kind = "node"
    THEN IsAncestor(pointer.key, e.key)
    ELSE EndsKnown(e) =>
            pointer.range[1] <= Head(e.samples) /\ Last(e.samples) <= pointer.range[2]

\* From every page of T the pages are in T that the pointers which lead to e mean.
Follows(kind, T, P, e) ==
    \A p \in T : p \in 1 .. Len(P) =>
        \A q \in ToSet(P[p].patches) : Leads(kind, P[p].data[q[1]], e) => p + q[2] \in T

FollowsAll(T, P) ==
    \A p \in T : p \in 1 .. Len(P) => \A q \in ToSet(P[p].patches) : p + q[2] \in T

\* The pages P of the entries with the numbers S: they have records of these
\* and pointers only, no entry twice; every pointer has one patch, and it means
\* one of the pages behind; following those that lead to an entry one gets to
\* it, and following all to every page.
Holds(kind, E, S, P) ==
    \A p \in 1 .. Len(P) : \A m \in 1 .. Len(P[p].data) :
        IsPointer(kind, P[p].data[m]) \/ \E n \in S : P[p].data[m] = E[n]

Once(E, S, P) ==
    \A n \in S : \A p, r \in 1 .. Len(P) :
        \A m \in 1 .. Len(P[p].data), k \in 1 .. Len(P[r].data) :
            P[p].data[m] = E[n] /\ P[r].data[k] = E[n] => p = r /\ m = k

Linked(kind, page, room) ==
    /\ \A q \in ToSet(page.patches) :
          /\ q[1] \in 1 .. Len(page.data) /\ IsPointer(kind, page.data[q[1]])
          /\ q[2] \in Nat \ {0} /\ q[2] <= room
    /\ \A m \in 1 .. Len(page.data) :
          IsPointer(kind, page.data[m]) => \E q \in ToSet(page.patches) : q[1] = m
    /\ \A q, r \in ToSet(page.patches) : q[1] = r[1] => q = r

AllLinked(kind, P) == \A p \in 1 .. Len(P) : Linked(kind, P[p], Len(P) - p)

Found(kind, E, S, P) ==
    \A n \in S : \A T \in SUBSET Nat : 1 \in T /\ Follows(kind, T, P, E[n]) =>
        \E p \in 1 .. Len(P) : p \in T /\ \E m \in 1 .. Len(P[p].data) : P[p].data[m] = E[n]

Spanned(P) ==
    \A T \in SUBSET Nat : 1 \in T /\ FollowsAll(T, P) => \A p \in 1 .. Len(P) : p \in T

KeysApart(P) ==
    \A p \in 1 .. Len(P) : \A m, k \in 1 .. Len(P[p].data) :
        P[p].data[m].key = P[p].data[k].key => m = k

NoneEmpty(S, P) == S # {} => \A p \in 1 .. Len(P) : Len(P[p].data) # 0

Good(kind, E, S, P) ==
    /\ P \in Seq(PageSet(kind)) /\ Len(P) \in Nat \ {0}
    /\ Holds(kind, E, S, P) /\ Once(E, S, P) /\ AllLinked(kind, P)
    /\ Found(kind, E, S, P) /\ Spanned(P)
    /\ kind = "node" => KeysApart(P)
    /\ NoneEmpty(S, P)

\* Entries in a single page.
LEMMA WholeIsGood ==
    ASSUME NEW kind \in Kinds, NEW E, EntryList(kind, E), NEW S \in SUBSET (1 .. Len(E))
    PROVE  Good(kind, E, S, WholePage(E, S))
<1> DEFINE d == Picked(E, S)
           N == Cardinality(S)
           page == [data |-> d, patches |-> <<>>]
           P == <<page>>
<1>0. ListsEntries(kind, E, S, d)
  BY PickedEntries
<1>1. /\ N \in Nat /\ (S # {} => N # 0)
      /\ d \in Seq(EntrySet(kind)) /\ Len(d) = N
      /\ \A m \in 1 .. N : (\E n \in S : d[m] = E[n]) /\ ~IsPointer(kind, d[m])
      /\ \A n \in S : \E m \in 1 .. N : d[m] = E[n]
      /\ \A m, k \in 1 .. N : d[m].key = d[k].key => m = k
  <2> HIDE DEF d
  <2> QED
    BY <1>0 DEF ListsEntries
<1> HIDE DEF d, N
<1>2. d \in Seq(RecordSet(kind))
  <2>1. EntrySet(kind) \subseteq RecordSet(kind)
    BY DEF RecordSet
  <2>2. d \in [1 .. N -> RecordSet(kind)]
    <3>1. DOMAIN d = 1 .. N /\ \A m \in 1 .. N : d[m] \in EntrySet(kind)
      BY <1>1, LenProperties, ElementOfSeq
    <3>2. d \in [1 .. N -> EntrySet(kind)]
      BY <1>1
    <3> QED
      BY <2>1, <3>1, <3>2
  <2> QED
    BY <1>1, <2>2, FunctionIsList
<1>3. page \in PageSet(kind) /\ page.data = d /\ page.patches = <<>>
  <2>1. <<>> \in Seq(Nat \X Nat)
    OBVIOUS
  <2> QED
    BY <1>2, <2>1 DEF PageSet
<1>4. ToSet(page.patches) = {}
  BY <1>3 DEF ToSet
<1> HIDE DEF page
<1>5. P \in Seq(PageSet(kind)) /\ Len(P) = 1 /\ P[1] = page
  BY <1>3
<1> HIDE DEF P
<1>6. \A p \in 1 .. Len(P) : p = 1 /\ P[p] = page
  BY <1>5
<1>15. \A p \in 1 .. Len(P) : P[p].data = d /\ Len(P[p].data) = N
  BY <1>1, <1>3, <1>6
<1>7. Holds(kind, E, S, P)
  <2>1. ASSUME NEW p \in 1 .. Len(P), NEW m \in 1 .. Len(P[p].data)
        PROVE  IsPointer(kind, P[p].data[m]) \/ \E n \in S : P[p].data[m] = E[n]
    <3>1. m \in 1 .. N /\ P[p].data[m] = d[m]
      BY <1>15
    <3>2. PICK n \in S : d[m] = E[n]
      BY <1>1, <3>1
    <3> QED
      BY <3>1, <3>2
  <2> QED
    BY <2>1 DEF Holds
<1>8. Once(E, S, P)
  <2>1. ASSUME NEW n \in S, NEW p \in 1 .. Len(P), NEW r \in 1 .. Len(P),
               NEW m \in 1 .. Len(P[p].data), NEW k \in 1 .. Len(P[r].data),
               P[p].data[m] = E[n], P[r].data[k] = E[n]
        PROVE  p = r /\ m = k
    <3>1. d[m] = d[k] /\ m \in 1 .. N /\ k \in 1 .. N
      BY <1>15, <2>1
    <3> QED
      BY <1>1, <1>6, <3>1
  <2> QED
    BY <2>1 DEF Once
<1>9. AllLinked(kind, P)
  BY <1>1, <1>3, <1>4, <1>6 DEF AllLinked, Linked
<1>10. Found(kind, E, S, P)
  <2>1. ASSUME NEW n \in S, NEW T, 1 \in T
        PROVE  \E p \in 1 .. Len(P) : p \in T /\ \E m \in 1 .. Len(P[p].data) : P[p].data[m] = E[n]
    <3>1. 1 \in 1 .. Len(P)
      BY <1>5
    <3>2. PICK m \in 1 .. N : d[m] = E[n]
      BY <1>1
    <3> QED
      BY <1>1, <1>3, <1>5, <2>1, <3>1, <3>2
  <2> QED
    BY <2>1 DEF Found
<1>11. Spanned(P)
  BY <1>6 DEF Spanned
<1>12. KeysApart(P)
  BY <1>1, <1>3, <1>6 DEF KeysApart
<1>13. NoneEmpty(S, P)
  BY <1>1, <1>3, <1>6 DEF NoneEmpty
<1>14. Good(kind, E, S, P)
  BY <1>5, <1>7, <1>8, <1>9, <1>10, <1>11, <1>12, <1>13 DEF Good
<1> QED
  BY <1>14 DEF WholePage, P, page, d

\* How a boundary cuts the entries with the numbers S: mine stay, the others
\* are in the subtrees of the c kids, which are at the boundary.
Parts(kind, E, S, b, mine, kids, c) ==
    /\ mine \in SUBSET S /\ c \in Nat /\ kids \in [1 .. c -> KeySet]
    /\ \A j \in 1 .. c : kids[j][1] = b /\ \E n \in S \ mine : AncestorAt(E[n].key, b) = kids[j]
    /\ \A i, j \in 1 .. c : kids[i] = kids[j] => i = j
    /\ \A n \in S \ mine : b <= E[n].key[1] /\ \E j \in 1 .. c : AncestorAt(E[n].key, b) = kids[j]
    /\ kind = "node" => \A n \in mine : E[n].key[1] < b

LEMMA KeyOf ==
    ASSUME NEW kind \in Kinds, NEW E, EntryList(kind, E), NEW n \in 1 .. Len(E)
    PROVE  E[n] \in EntrySet(kind) /\ E[n].key \in KeySet
<1>1. E[n] \in EntrySet(kind)
  BY ElementOfSeq DEF EntryList
<1>2. E[n] \in RecordSet(kind)
  BY <1>1 DEF RecordSet
<1> QED
  BY <1>1, <1>2, RecordsAre

LEMMA CutParts ==
    ASSUME NEW kind \in Kinds, NEW E, EntryList(kind, E), NEW S \in SUBSET (1 .. Len(E)),
           NEW b \in Nat
    PROVE  Parts(kind, E, S, b, Mine(kind, E, S, b), Kids(kind, E, S, b), Len(Kids(kind, E, S, b)))
<1> DEFINE mine == Mine(kind, E, S, b)
           kids == Kids(kind, E, S, b)
           c == Len(kids)
           rest == S \ mine
           K == {AncestorAt(E[n].key, b) : n \in rest}
<1>1. mine = {n \in S : Stays(kind, Level(E[n].key), b)}
  BY DEF Mine
<1>2. \A n \in S : E[n].key \in KeySet
  BY KeyOf
<1>3. \A n \in S : n \in mine <=> IF kind = "node" THEN E[n].key[1] < b ELSE E[n].key[1] <= b
  BY <1>1 DEF Stays, StaysAbove, StaysThrough, Level
<1>4. mine \in SUBSET S
  BY <1>1
<1>5. kids = InOrder(K, KeyLess)
  BY DEF Kids
<1> HIDE DEF mine, kids
<1>6. \A n \in S : E[n].key[1] \in Nat
  BY <1>2 DEF KeySet
<1>7. \A n \in rest : b <= E[n].key[1]
  BY <1>3, <1>6
<1>8. \A n \in rest : AncestorAt(E[n].key, b) \in KeySet /\ AncestorAt(E[n].key, b)[1] = b
  BY <1>2, <1>7, AncestorIs
<1>9. IsFiniteSet(K)
  <2> DEFINE f == [n \in rest |-> AncestorAt(E[n].key, b)]
  <2>1. K = {f[n] : n \in rest}
    OBVIOUS
  <2>2. IsFiniteSet(rest)
    <3>1. IsFiniteSet(S)
      BY PickedEntries DEF ListsEntries
    <3> QED
      BY <3>1, FS_Subset
  <2> HIDE DEF f, rest, K
  <2>3. IsFiniteSet({f[n] : n \in rest})
    BY <2>2, ValuesFinite
  <2> QED
    BY <2>1, <2>3
<1>10. K \subseteq Nat \X Nat
  BY <1>8 DEF KeySet
<1>11. Ordered(kids, K, KeyOrder(K))
  <2> HIDE DEF K
  <2> QED
    BY <1>5, <1>9, <1>10, KeysInOrder
<1>12. \A x \in K : \E n \in rest : x = AncestorAt(E[n].key, b)
  OBVIOUS
<1>13. \A n \in rest : AncestorAt(E[n].key, b) \in K
  OBVIOUS
<1> HIDE DEF rest, K
<1>14. /\ kids \in Seq(K) /\ DOMAIN kids = 1 .. c
       /\ \A i \in 1 .. c : kids[i] \in K
       /\ \A i, j \in 1 .. c : kids[i] = kids[j] => i = j
       /\ \A x \in K : \E i \in 1 .. c : kids[i] = x
  BY <1>11 DEF Ordered
<1>15. c \in Nat /\ kids \in [1 .. c -> K]
  BY <1>14, LenProperties
<1> HIDE DEF c
<1>16. kids \in [1 .. c -> KeySet]
  BY <1>10, <1>15 DEF KeySet
<1>17. \A j \in 1 .. c : kids[j][1] = b /\ \E n \in rest : AncestorAt(E[n].key, b) = kids[j]
  <2>1. ASSUME NEW j \in 1 .. c
        PROVE  kids[j][1] = b /\ \E n \in rest : AncestorAt(E[n].key, b) = kids[j]
    <3>1. PICK n \in rest : kids[j] = AncestorAt(E[n].key, b)
      BY <1>12, <1>14
    <3> QED
      BY <1>8, <3>1
  <2> QED
    BY <2>1
<1>18. \A n \in rest : b <= E[n].key[1] /\ \E j \in 1 .. c : AncestorAt(E[n].key, b) = kids[j]
  <2>1. ASSUME NEW n \in rest PROVE \E j \in 1 .. c : AncestorAt(E[n].key, b) = kids[j]
    <3>1. PICK j \in 1 .. c : kids[j] = AncestorAt(E[n].key, b)
      BY <1>13, <1>14
    <3> QED
      BY <3>1
  <2> QED
    BY <1>7, <2>1
<1>19. kind = "node" => \A n \in mine : E[n].key[1] < b
  BY <1>3, <1>4
<1>20. Parts(kind, E, S, b, mine, kids, c)
  BY <1>4, <1>14, <1>15, <1>16, <1>17, <1>18, <1>19 DEF Parts, rest
<1> QED
  BY <1>20 DEF mine, kids, c

\* What is in the subtree of the j-th kid.
Subtree(E, S, b, mine, root) == {n \in S \ mine : AncestorAt(E[n].key, b) = root}

\* The page that is cut: mine, and a pointer to every kid with its patch.
HeadOK(kind, E, S, b, mine, kids, c, under, head) ==
    /\ head \in PageSet(kind) /\ Len(head.data) = Cardinality(mine) + c
    /\ Cardinality(mine) \in Nat /\ (mine # {} => Cardinality(mine) # 0)
    /\ \A m \in 1 .. Cardinality(mine) :
          (\E n \in mine : head.data[m] = E[n]) /\ ~IsPointer(kind, head.data[m])
    /\ \A n \in mine : \E m \in 1 .. Cardinality(mine) : head.data[m] = E[n]
    /\ \A m, k \in 1 .. Cardinality(mine) : head.data[m].key = head.data[k].key => m = k
    /\ \A j \in 1 .. c :
          /\ head.data[Cardinality(mine) + j].key = kids[j]
          /\ IsPointer(kind, head.data[Cardinality(mine) + j])
          /\ \A n \in Subtree(E, S, b, mine, kids[j]) :
                kind = "time" => Leads(kind, head.data[Cardinality(mine) + j], E[n])
          /\ <<Cardinality(mine) + j, ChildDistance(under, j)>> \in ToSet(head.patches)
    /\ \A q \in ToSet(head.patches) : \E j \in 1 .. c :
          q = <<Cardinality(mine) + j, ChildDistance(under, j)>>

LEMMA PointerIs ==
    ASSUME NEW kind \in Kinds, NEW root \in KeySet,
           NEW mine, NEW group, IsFiniteSet(mine), IsFiniteSet(group),
           mine \subseteq EntrySet(kind), group \subseteq EntrySet(kind)
    PROVE  /\ PointerTo(kind, root, mine, group) \in PointerSet(kind)
           /\ PointerTo(kind, root, mine, group).key = root
           /\ kind = "time" => \A e \in group : Leads(kind, PointerTo(kind, root, mine, group), e)
<1>1. CASE kind = "node"
  BY <1>1 DEF PointerTo, PointerSet
<1>2. CASE kind = "time"
  <2> DEFINE F == group \cup {e \in mine : e.key = root}
             r == TimeRange(F)
  <2>1. F \subseteq EntrySet("time") /\ IsFiniteSet(F) /\ group \subseteq F
    <3>1. IsFiniteSet({e \in mine : e.key = root})
      <4>1. {e \in mine : e.key = root} \subseteq mine
        OBVIOUS
      <4> QED
        BY <4>1, FS_Subset
    <3>2. IsFiniteSet(F)
      BY <3>1, FS_Union
    <3> QED
      BY <1>2, <3>2
  <2> HIDE DEF F
  <2>2. r \in Int \X Int /\ \A e \in F : EndsKnown(e) => r[1] <= Head(e.samples) /\ Last(e.samples) <= r[2]
    BY <2>1, RangeAround
  <2> HIDE DEF r
  <2>3. PointerTo(kind, root, mine, group) =
           [key |-> root, samples |-> <<>>, offset |-> 0, byteSize |-> 0, range |-> r]
    BY <1>2 DEF PointerTo, SubtreeRange, F, r
  <2>4. PointerTo(kind, root, mine, group) \in PointerSet(kind)
    BY <1>2, <2>2, <2>3 DEF PointerSet
  <2>5. \A e \in group : Leads(kind, PointerTo(kind, root, mine, group), e)
    BY <1>2, <2>1, <2>2, <2>3 DEF Leads
  <2> QED
    BY <2>3, <2>4, <2>5
<1> QED
  BY <1>1, <1>2 DEF Kinds

LEMMA SetPatches ==
    ASSUME NEW c \in Nat, NEW f
    PROVE  ToSet([j \in 1 .. c |-> f[j]]) = {f[j] : j \in 1 .. c}
<1> DEFINE s == [j \in 1 .. c |-> f[j]]
<1>1. DOMAIN s = 1 .. c /\ \A j \in 1 .. c : s[j] = f[j]
  OBVIOUS
<1>2. ToSet(s) = {s[j] : j \in DOMAIN s}
  BY DEF ToSet
<1> HIDE DEF s
<1>3. ToSet(s) = {f[j] : j \in 1 .. c}
  BY <1>1, <1>2
<1> QED
  BY <1>3 DEF s

LEMMA HeadIs ==
    ASSUME NEW kind \in Kinds, NEW E, EntryList(kind, E), NEW S \in SUBSET (1 .. Len(E)),
           NEW b \in Nat, NEW mine, NEW kids, NEW c, Parts(kind, E, S, b, mine, kids, c),
           NEW under, \A j \in 1 .. c : Before(under, j) \in Nat,
           NEW pointers, NEW patches, NEW head,
           pointers = [j \in 1 .. c |-> PointerTo(kind, kids[j], {E[n] : n \in mine},
                                          {E[n] : n \in Subtree(E, S, b, mine, kids[j])})],
           patches = [j \in 1 .. c |-> <<Cardinality(mine) + j, ChildDistance(under, j)>>],
           head = [data |-> Picked(E, mine) \o pointers, patches |-> patches]
    PROVE  HeadOK(kind, E, S, b, mine, kids, c, under, head)
<1> DEFINE N == Cardinality(mine)
           d == Picked(E, mine)
           D == head.data
           sub(j) == Subtree(E, S, b, mine, kids[j])
           f == [j \in 1 .. c |-> <<N + j, ChildDistance(under, j)>>]
<1>1. /\ mine \in SUBSET S /\ c \in Nat /\ \A j \in 1 .. c : kids[j] \in KeySet
  BY DEF Parts
<1>2. mine \in SUBSET (1 .. Len(E))
  BY <1>1
<1>3. /\ N \in Nat /\ IsFiniteSet(mine) /\ (mine # {} => N # 0)
      /\ d \in Seq(EntrySet(kind)) /\ Len(d) = N
      /\ \A m \in 1 .. N : (\E n \in mine : d[m] = E[n]) /\ ~IsPointer(kind, d[m])
      /\ \A n \in mine : \E m \in 1 .. N : d[m] = E[n]
      /\ \A m, k \in 1 .. N : d[m].key = d[k].key => m = k
  <2>1. ListsEntries(kind, E, mine, d)
    BY <1>2, PickedEntries
  <2> HIDE DEF d
  <2> QED
    BY <2>1 DEF ListsEntries
<1> HIDE DEF d
<1>4. ASSUME NEW j \in 1 .. c
      PROVE  /\ pointers[j] \in PointerSet(kind) /\ pointers[j].key = kids[j]
             /\ \A n \in sub(j) : kind = "time" => Leads(kind, pointers[j], E[n])
  <2> DEFINE G == sub(j)
             A == {E[n] : n \in mine}
             B == {E[n] : n \in G}
  <2>6. pointers[j] = PointerTo(kind, kids[j], A, B)
    OBVIOUS
  <2>1. G \in SUBSET (1 .. Len(E)) /\ IsFiniteSet(G)
    <3>1. G \in SUBSET (1 .. Len(E))
      BY DEF Subtree
    <3> HIDE DEF G
    <3>2. IsFiniteSet(G)
      BY <3>1, PickedEntries DEF ListsEntries
    <3> QED
      BY <3>1, <3>2
  <2> HIDE DEF G
  <2>2. A \subseteq EntrySet(kind) /\ B \subseteq EntrySet(kind)
    BY <1>2, <2>1, KeyOf
  <2>3. IsFiniteSet(A) /\ IsFiniteSet(B)
    <3>1. IsFiniteSet(mine) /\ IsFiniteSet(G)
      BY <1>3, <2>1
    <3>2. IsFiniteSet({E[n] : n \in mine})
      BY <3>1, ValuesFinite
    <3>3. IsFiniteSet({E[n] : n \in G})
      BY <3>1, ValuesFinite
    <3> QED
      BY <3>2, <3>3
  <2>4. \A n \in G : E[n] \in B
    OBVIOUS
  <2> HIDE DEF A, B
  <2>5. /\ PointerTo(kind, kids[j], A, B) \in PointerSet(kind)
        /\ PointerTo(kind, kids[j], A, B).key = kids[j]
        /\ kind = "time" => \A e \in B : Leads(kind, PointerTo(kind, kids[j], A, B), e)
    BY <1>1, <2>2, <2>3, PointerIs
  <2>7. \A n \in G : kind = "time" => Leads(kind, pointers[j], E[n])
    BY <2>4, <2>5, <2>6
  <2> QED
    BY <2>5, <2>6, <2>7 DEF G
<1>5. pointers \in Seq(RecordSet(kind)) /\ Len(pointers) = c
  <2>1. \A j \in 1 .. c : pointers[j] \in RecordSet(kind)
    BY <1>4 DEF RecordSet
  <2>2. pointers = [j \in 1 .. c |-> pointers[j]]
    OBVIOUS
  <2>3. pointers \in [1 .. c -> RecordSet(kind)]
    BY <2>1, <2>2
  <2> QED
    BY <1>1, <2>3, FunctionIsList
<1>6. d \in Seq(RecordSet(kind))
  <2>1. EntrySet(kind) \subseteq RecordSet(kind)
    BY DEF RecordSet
  <2>2. \A m \in 1 .. N : d[m] \in EntrySet(kind)
    BY <1>3, ElementOfSeq
  <2>3. d \in [1 .. N -> EntrySet(kind)]
    BY <1>3
  <2>4. d \in [1 .. N -> RecordSet(kind)]
    BY <2>1, <2>2, <2>3
  <2> HIDE DEF N
  <2> QED
    BY <1>3, <2>4, FunctionIsList
<1>7. D = d \o pointers /\ head.patches = patches
  BY DEF d
<1>8. D \in Seq(RecordSet(kind)) /\ Len(D) = N + c
      /\ \A m \in 1 .. N + c : D[m] = IF m <= N THEN d[m] ELSE pointers[m - N]
  <2> HIDE DEF N, D
  <2>1. /\ d \o pointers \in Seq(RecordSet(kind)) /\ Len(d \o pointers) = Len(d) + Len(pointers)
        /\ \A m \in 1 .. Len(d) + Len(pointers) :
              (d \o pointers)[m] = IF m <= Len(d) THEN d[m] ELSE pointers[m - Len(d)]
    BY <1>5, <1>6, PlacesJoined
  <2> QED
    BY <1>3, <1>5, <1>7, <2>1
<1>9. \A m \in 1 .. N : D[m] = d[m]
  <2> HIDE DEF N, D
  <2>1. \A m \in 1 .. N : m \in 1 .. N + c /\ m <= N
    BY <1>1, <1>3
  <2> QED
    BY <1>8, <2>1
<1>10. \A j \in 1 .. c : D[N + j] = pointers[j]
  <2> HIDE DEF N, D
  <2>1. ASSUME NEW j \in 1 .. c PROVE D[N + j] = pointers[j]
    <3> DEFINE m == N + j
    <3>3. N \in Nat /\ c \in Nat
      BY <1>1, <1>3
    <3>1. m \in 1 .. N + c /\ ~(m <= N) /\ m - N = j
      BY <3>3
    <3> HIDE DEF m
    <3>2. D[m] = pointers[j]
      BY <1>8, <3>1
    <3> QED
      BY <3>2 DEF m
  <2> QED
    BY <2>1
<1>11. patches \in Seq(Nat \X Nat)
  <2>1. \A j \in 1 .. c : N + j \in Nat /\ ChildDistance(under, j) \in Nat
    <3>1. \A j \in 1 .. c : ChildDistance(under, j) = 1 + Before(under, j)
      BY DEF ChildDistance, Before
    <3> HIDE DEF N
    <3> QED
      BY <1>3, <3>1
  <2>2. patches \in [1 .. c -> Nat \X Nat]
    BY <2>1
  <2> QED
    BY <1>1, <2>2, FunctionIsList
<1>12. head \in PageSet(kind)
  <2>1. head = [data |-> D, patches |-> patches]
    BY <1>7
  <2> HIDE DEF D
  <2>2. [data |-> D, patches |-> patches] \in PageSet(kind)
    BY <1>8, <1>11 DEF PageSet
  <2> QED
    BY <2>1, <2>2
<1>13. ToSet(head.patches) = {f[j] : j \in 1 .. c}
  <2>1. head.patches = [j \in 1 .. c |-> f[j]]
    BY <1>7
  <2> HIDE DEF f
  <2>2. ToSet([j \in 1 .. c |-> f[j]]) = {f[j] : j \in 1 .. c}
    BY <1>1, SetPatches
  <2> QED
    BY <2>1, <2>2
<1>14. \A j \in 1 .. c : f[j] = <<N + j, ChildDistance(under, j)>>
  OBVIOUS
<1> HIDE DEF f
<1>15. /\ \A j \in 1 .. c : <<N + j, ChildDistance(under, j)>> \in ToSet(head.patches)
       /\ \A q \in ToSet(head.patches) : \E j \in 1 .. c : q = <<N + j, ChildDistance(under, j)>>
  BY <1>13, <1>14
<1>16. \A j \in 1 .. c : IsPointer(kind, pointers[j])
  BY <1>4, RecordsAre DEF RecordSet
<1> HIDE DEF D, N
<1>17. /\ \A m \in 1 .. N : (\E n \in mine : D[m] = E[n]) /\ ~IsPointer(kind, D[m])
       /\ \A n \in mine : \E m \in 1 .. N : D[m] = E[n]
       /\ \A m, k \in 1 .. N : D[m].key = D[k].key => m = k
  <2>1. \A m \in 1 .. N : (\E n \in mine : D[m] = E[n]) /\ ~IsPointer(kind, D[m])
    <3>1. ASSUME NEW m \in 1 .. N
          PROVE  (\E n \in mine : D[m] = E[n]) /\ ~IsPointer(kind, D[m])
      <4>1. D[m] = d[m]
        BY <1>9
      <4>2. (\E n \in mine : d[m] = E[n]) /\ ~IsPointer(kind, d[m])
        BY <1>3
      <4> QED
        BY <4>1, <4>2
    <3> QED
      BY <3>1
  <2>2. \A n \in mine : \E m \in 1 .. N : D[m] = E[n]
    <3>1. \A n \in mine : \E m \in 1 .. N : d[m] = E[n]
      BY <1>3
    <3> QED
      BY <1>9, <3>1
  <2>3. \A m, k \in 1 .. N : D[m].key = D[k].key => m = k
    <3>1. \A m, k \in 1 .. N : d[m].key = d[k].key => m = k
      BY <1>3
    <3> QED
      BY <1>9, <3>1
  <2> QED
    BY <2>1, <2>2, <2>3
<1>18. \A j \in 1 .. c :
          /\ D[N + j].key = kids[j] /\ IsPointer(kind, D[N + j])
          /\ \A n \in Subtree(E, S, b, mine, kids[j]) : kind = "time" => Leads(kind, D[N + j], E[n])
  BY <1>4, <1>10, <1>16
<1> QED
  BY <1>3, <1>8, <1>12, <1>15, <1>17, <1>18 DEF HeadOK, D, N

\* A page cut at a boundary with the good pages of its kids.
Cut(kind, E, S, b, P, mine, kids, c, under, head) ==
    /\ Parts(kind, E, S, b, mine, kids, c)
    /\ HeadOK(kind, E, S, b, mine, kids, c, under, head)
    /\ Assembled(P, head, under, c, PageSet(kind))
    /\ \A j \in 1 .. c : Good(kind, E, Subtree(E, S, b, mine, kids[j]), under[j])

\* A page is the head page or one of a kid's.
LEMMA CutPages ==
    ASSUME NEW kind, NEW E, NEW S, NEW b, NEW P, NEW mine, NEW kids, NEW c, NEW under, NEW head,
           Cut(kind, E, S, b, P, mine, kids, c, under, head), NEW p \in 1 .. Len(P)
    PROVE  \/ p = 1 /\ P[p] = head
           \/ \E j \in 1 .. c : \E x \in 1 .. Len(under[j]) :
                 p = Place(under, j, x) /\ P[p] = under[j][x]
BY DEF Cut, Assembled

\* A record of the head page is an entry of mine or a pointer to a kid.
LEMMA HeadRecords ==
    ASSUME NEW kind, NEW E, NEW S, NEW b, NEW P, NEW mine, NEW kids, NEW c, NEW under, NEW head,
           Cut(kind, E, S, b, P, mine, kids, c, under, head), NEW m \in 1 .. Len(head.data)
    PROVE  \/ /\ m \in 1 .. Cardinality(mine) /\ ~IsPointer(kind, head.data[m])
              /\ \E n \in mine : head.data[m] = E[n]
           \/ \E j \in 1 .. c : /\ m = Cardinality(mine) + j /\ IsPointer(kind, head.data[m])
                                /\ head.data[m].key = kids[j]
<1> DEFINE N == Cardinality(mine)
           D == head.data
<1>1. N \in Nat /\ Len(D) = N + c /\ c \in Nat
  BY DEF Cut, Parts, HeadOK
<1>2. \A i \in 1 .. N : (\E n \in mine : D[i] = E[n]) /\ ~IsPointer(kind, D[i])
  BY DEF Cut, HeadOK
<1>3. \A j \in 1 .. c : D[N + j].key = kids[j] /\ IsPointer(kind, D[N + j])
  BY DEF Cut, HeadOK
<1> HIDE DEF N, D
<1>4. CASE m \in 1 .. N
  BY <1>2, <1>4 DEF N, D
<1>5. CASE m \notin 1 .. N
  <2> DEFINE j == m - N
  <2>1. m \in 1 .. N + c
    BY <1>1 DEF D
  <2>2. j \in 1 .. c /\ m = N + j
    BY <1>1, <1>5, <2>1
  <2> HIDE DEF j
  <2> QED
    BY <1>3, <2>2 DEF N, D
<1> QED
  BY <1>4, <1>5

LEMMA KidEntries ==
    ASSUME NEW E, NEW S, NEW b, NEW mine, NEW root, NEW n \in Subtree(E, S, b, mine, root)
    PROVE  n \in S /\ n \notin mine /\ AncestorAt(E[n].key, b) = root
BY DEF Subtree

LEMMA CutHolds ==
    ASSUME NEW kind, NEW E, NEW S, NEW b, NEW P, NEW mine, NEW kids, NEW c, NEW under, NEW head,
           Cut(kind, E, S, b, P, mine, kids, c, under, head)
    PROVE  Holds(kind, E, S, P)
<1>1. mine \subseteq S
  BY DEF Cut, Parts
<1>2. ASSUME NEW p \in 1 .. Len(P), NEW m \in 1 .. Len(P[p].data)
      PROVE  IsPointer(kind, P[p].data[m]) \/ \E n \in S : P[p].data[m] = E[n]
  <2>1. CASE p = 1 /\ P[p] = head
    <3>1. m \in 1 .. Len(head.data)
      BY <2>1
    <3>2. IsPointer(kind, head.data[m]) \/ \E n \in mine : head.data[m] = E[n]
      BY <3>1, HeadRecords
    <3> QED
      BY <1>1, <2>1, <3>2
  <2>2. ASSUME NEW j \in 1 .. c, NEW x \in 1 .. Len(under[j]), P[p] = under[j][x]
        PROVE  IsPointer(kind, P[p].data[m]) \/ \E n \in S : P[p].data[m] = E[n]
    <3>1. Holds(kind, E, Subtree(E, S, b, mine, kids[j]), under[j])
      BY DEF Cut, Good
    <3>2. \/ IsPointer(kind, P[p].data[m])
          \/ \E n \in Subtree(E, S, b, mine, kids[j]) : P[p].data[m] = E[n]
      BY <2>2, <3>1 DEF Holds
    <3> QED
      BY <3>2, KidEntries
  <2> QED
    BY <2>1, <2>2, CutPages
<1> QED
  BY <1>2 DEF Holds

\* The entry n is the m-th record of the p-th page because it stays in the
\* head page, or because it is in a subtree that has that page.
InPlace(E, S, b, P, mine, kids, c, under, head, n, p, m) ==
    \/ n \in mine /\ p = 1 /\ P[p] = head /\ m \in 1 .. Cardinality(mine)
    \/ \E j \in 1 .. c : \E x \in 1 .. Len(under[j]) :
          /\ p = Place(under, j, x) /\ P[p] = under[j][x]
          /\ n \in Subtree(E, S, b, mine, kids[j])

LEMMA CutWhere ==
    ASSUME NEW kind \in Kinds, NEW E, EntryList(kind, E), NEW S \in SUBSET (1 .. Len(E)),
           NEW b, NEW P, NEW mine, NEW kids, NEW c, NEW under, NEW head,
           Cut(kind, E, S, b, P, mine, kids, c, under, head),
           NEW n \in S, NEW p \in 1 .. Len(P), NEW m \in 1 .. Len(P[p].data), P[p].data[m] = E[n]
    PROVE  InPlace(E, S, b, P, mine, kids, c, under, head, n, p, m)
<1>1. \A i \in S : E[i] = E[n] => i = n
  BY DEF EntryList
<1>2. ~IsPointer(kind, P[p].data[m])
  <2>1. E[n] \in EntrySet(kind) /\ E[n] \in RecordSet(kind)
    BY KeyOf DEF RecordSet
  <2> QED
    BY <2>1, RecordsAre
<1>3. mine \subseteq S
  BY DEF Cut, Parts
<1>4. CASE p = 1 /\ P[p] = head
  <2>1. m \in 1 .. Len(head.data) /\ head.data[m] = E[n] /\ ~IsPointer(kind, head.data[m])
    BY <1>2, <1>4
  <2>2. m \in 1 .. Cardinality(mine) /\ \E i \in mine : head.data[m] = E[i]
    BY <2>1, HeadRecords
  <2>3. n \in mine
    BY <1>1, <1>3, <2>1, <2>2
  <2> QED
    BY <1>4, <2>2, <2>3 DEF InPlace
<1>5. ASSUME NEW j \in 1 .. c, NEW x \in 1 .. Len(under[j]),
             p = Place(under, j, x), P[p] = under[j][x]
      PROVE  n \in Subtree(E, S, b, mine, kids[j])
  <2>1. Holds(kind, E, Subtree(E, S, b, mine, kids[j]), under[j])
    BY DEF Cut, Good
  <2>2. PICK i \in Subtree(E, S, b, mine, kids[j]) : P[p].data[m] = E[i]
    BY <1>2, <1>5, <2>1 DEF Holds
  <2>3. i = n
    BY <1>1, <2>2, KidEntries
  <2> QED
    BY <2>3
<1> QED
  BY <1>4, <1>5, CutPages DEF InPlace

LEMMA CutOnce ==
    ASSUME NEW kind \in Kinds, NEW E, EntryList(kind, E), NEW S \in SUBSET (1 .. Len(E)),
           NEW b, NEW P, NEW mine, NEW kids, NEW c, NEW under, NEW head,
           Cut(kind, E, S, b, P, mine, kids, c, under, head)
    PROVE  Once(E, S, P)
<1>1. ASSUME NEW n \in S, NEW p \in 1 .. Len(P), NEW r \in 1 .. Len(P),
             NEW m \in 1 .. Len(P[p].data), NEW k \in 1 .. Len(P[r].data),
             P[p].data[m] = E[n], P[r].data[k] = E[n]
      PROVE  p = r /\ m = k
  <2>1. \/ n \in mine /\ p = 1 /\ P[p] = head /\ m \in 1 .. Cardinality(mine)
        \/ \E j \in 1 .. c : \E x \in 1 .. Len(under[j]) :
              /\ p = Place(under, j, x) /\ P[p] = under[j][x]
              /\ n \in Subtree(E, S, b, mine, kids[j])
    <3>1. P[p].data[m] = E[n]
      BY <1>1
    <3>2. InPlace(E, S, b, P, mine, kids, c, under, head, n, p, m)
      BY <3>1, CutWhere
    <3> QED
      BY <3>2 DEF InPlace
  <2>2. \/ n \in mine /\ r = 1 /\ P[r] = head /\ k \in 1 .. Cardinality(mine)
        \/ \E j \in 1 .. c : \E x \in 1 .. Len(under[j]) :
              /\ r = Place(under, j, x) /\ P[r] = under[j][x]
              /\ n \in Subtree(E, S, b, mine, kids[j])
    <3>1. P[r].data[k] = E[n]
      BY <1>1
    <3>2. InPlace(E, S, b, P, mine, kids, c, under, head, n, r, k)
      BY <3>1, CutWhere
    <3> QED
      BY <3>2 DEF InPlace
  <2>3. CASE n \in mine
    <3>1. /\ p = 1 /\ P[p] = head /\ m \in 1 .. Cardinality(mine)
          /\ r = 1 /\ P[r] = head /\ k \in 1 .. Cardinality(mine)
      BY <2>1, <2>2, <2>3, KidEntries
    <3>2. head.data[m].key = head.data[k].key
      BY <1>1, <3>1
    <3>3. \A i, j \in 1 .. Cardinality(mine) : head.data[i].key = head.data[j].key => i = j
      BY DEF Cut, HeadOK
    <3> QED
      BY <3>1, <3>2, <3>3
  <2>4. CASE n \notin mine
    <3>1. PICK j \in 1 .. c : \E x \in 1 .. Len(under[j]) :
              /\ p = Place(under, j, x) /\ P[p] = under[j][x]
              /\ n \in Subtree(E, S, b, mine, kids[j])
      BY <2>1, <2>4
    <3>2. PICK x \in 1 .. Len(under[j]) :
              /\ p = Place(under, j, x) /\ P[p] = under[j][x]
              /\ n \in Subtree(E, S, b, mine, kids[j])
      BY <3>1
    <3>3. PICK i \in 1 .. c : \E y \in 1 .. Len(under[i]) :
              /\ r = Place(under, i, y) /\ P[r] = under[i][y]
              /\ n \in Subtree(E, S, b, mine, kids[i])
      BY <2>2, <2>4
    <3>4. PICK y \in 1 .. Len(under[i]) :
              /\ r = Place(under, i, y) /\ P[r] = under[i][y]
              /\ n \in Subtree(E, S, b, mine, kids[i])
      BY <3>3
    <3>5. kids[i] = kids[j]
      BY <3>2, <3>4, KidEntries
    <3>6. i = j
      BY <3>5 DEF Cut, Parts
    <3>7. Once(E, Subtree(E, S, b, mine, kids[j]), under[j])
      BY DEF Cut, Good
    <3>8. y \in 1 .. Len(under[j]) /\ P[r] = under[j][y]
      BY <3>4, <3>6
    <3>9. x = y /\ m = k
      BY <1>1, <3>2, <3>7, <3>8 DEF Once
    <3> QED
      BY <3>2, <3>4, <3>6, <3>9
  <2> QED
    BY <2>3, <2>4
<1>2. \A n \in S : \A p, r \in 1 .. Len(P) :
        \A m \in 1 .. Len(P[p].data), k \in 1 .. Len(P[r].data) :
            P[p].data[m] = E[n] /\ P[r].data[k] = E[n] => p = r /\ m = k
  BY <1>1
<1> QED
  BY <1>2 DEF Once

LEMMA UnderLens ==
    ASSUME NEW kind, NEW E, NEW S, NEW b, NEW P, NEW mine, NEW kids, NEW c, NEW under, NEW head,
           Cut(kind, E, S, b, P, mine, kids, c, under, head), NEW j \in 1 .. c
    PROVE  /\ Len(under[j]) \in Nat \ {0} /\ Len(P) \in Nat \ {0} /\ Before(under, j) \in Nat
           /\ Place(under, j, 1) \in 2 .. Len(P)
           /\ Place(under, j, Len(under[j])) \in 2 .. Len(P)
           /\ ChildDistance(under, j) \in Nat \ {0}
           /\ 1 + ChildDistance(under, j) = Place(under, j, 1)
           /\ ChildDistance(under, j) <= Len(P) - 1
<1>1. Len(under[j]) \in Nat \ {0}
  BY DEF Cut, Good
<1>2. 1 \in 1 .. Len(under[j]) /\ Len(under[j]) \in 1 .. Len(under[j])
  BY <1>1
<1>3. /\ Len(P) \in Nat \ {0} /\ Before(under, j) \in Nat
      /\ Place(under, j, 1) \in 2 .. Len(P)
      /\ Place(under, j, Len(under[j])) \in 2 .. Len(P)
      /\ 1 + ChildDistance(under, j) = Place(under, j, 1)
  BY <1>2 DEF Cut, Assembled
<1>4. ChildDistance(under, j) = 1 + Before(under, j)
  BY DEF ChildDistance, Before
<1> DEFINE d == ChildDistance(under, j)
<1>5. d \in Nat \ {0}
  BY <1>3, <1>4
<1> HIDE DEF d
<1>6. 1 + d \in 2 .. Len(P)
  BY <1>3 DEF d
<1>7. d <= Len(P) - 1
  BY <1>3, <1>5, <1>6
<1> QED
  BY <1>1, <1>3, <1>5, <1>7 DEF d

LEMMA MoreRoom ==
    ASSUME NEW kind, NEW page, NEW r \in Int, NEW s \in Int, r <= s, Linked(kind, page, r)
    PROVE  Linked(kind, page, s)
<1>1. \A q \in ToSet(page.patches) : q[2] \in Nat \ {0} /\ q[2] <= s
  BY DEF Linked
<1> QED
  BY <1>1 DEF Linked

LEMMA CutLinked ==
    ASSUME NEW kind, NEW E, NEW S, NEW b, NEW P, NEW mine, NEW kids, NEW c, NEW under, NEW head,
           Cut(kind, E, S, b, P, mine, kids, c, under, head)
    PROVE  AllLinked(kind, P)
<1> DEFINE N == Cardinality(mine)
           room == Len(P) - 1
<1>1. /\ N \in Nat /\ c \in Nat /\ Len(head.data) = N + c
      /\ \A j \in 1 .. c : /\ IsPointer(kind, head.data[N + j])
                           /\ <<N + j, ChildDistance(under, j)>> \in ToSet(head.patches)
      /\ \A q \in ToSet(head.patches) : \E j \in 1 .. c : q = <<N + j, ChildDistance(under, j)>>
  BY DEF Cut, Parts, HeadOK
<1>2. Linked(kind, head, room)
  <2>1. ASSUME NEW q \in ToSet(head.patches)
        PROVE  /\ q[1] \in 1 .. Len(head.data) /\ IsPointer(kind, head.data[q[1]])
               /\ q[2] \in Nat \ {0} /\ q[2] <= room
    <3>1. PICK j \in 1 .. c : q = <<N + j, ChildDistance(under, j)>>
      BY <1>1
    <3>2. q[1] = N + j /\ q[2] = ChildDistance(under, j)
      BY <3>1
    <3>3. q[1] \in 1 .. Len(head.data)
      <4> HIDE DEF N
      <4> QED
        BY <1>1, <3>2
    <3> QED
      BY <1>1, <3>2, <3>3, UnderLens
  <2>2. ASSUME NEW m \in 1 .. Len(head.data), IsPointer(kind, head.data[m])
        PROVE  \E q \in ToSet(head.patches) : q[1] = m
    <3>1. PICK j \in 1 .. c : m = N + j
      BY <2>2, HeadRecords
    <3> DEFINE q == <<N + j, ChildDistance(under, j)>>
    <3>2. q \in ToSet(head.patches) /\ q[1] = m
      BY <1>1, <3>1
    <3> HIDE DEF q
    <3> QED
      BY <3>2
  <2>3. ASSUME NEW q \in ToSet(head.patches), NEW r \in ToSet(head.patches), q[1] = r[1]
        PROVE  q = r
    <3>1. PICK i \in 1 .. c : q = <<N + i, ChildDistance(under, i)>>
      BY <1>1
    <3>2. PICK j \in 1 .. c : r = <<N + j, ChildDistance(under, j)>>
      BY <1>1
    <3>3. N + i = N + j /\ N \in Nat /\ i \in Int /\ j \in Int
      BY <1>1, <2>3, <3>1, <3>2
    <3> HIDE DEF N
    <3>4. i = j
      BY <3>3
    <3> QED
      BY <3>1, <3>2, <3>4
  <2> HIDE DEF N, room
  <2> QED
    BY <2>1, <2>2, <2>3 DEF Linked
<1>3. ASSUME NEW p \in 1 .. Len(P) PROVE Linked(kind, P[p], Len(P) - p)
  <2>1. CASE p = 1 /\ P[p] = head
    BY <1>2, <2>1
  <2>2. ASSUME NEW j \in 1 .. c, NEW x \in 1 .. Len(under[j]),
               p = Place(under, j, x), P[p] = under[j][x]
        PROVE  Linked(kind, P[p], Len(P) - p)
    <3> DEFINE L == Len(under[j])
               B == Before(under, j)
               M == Len(P)
    <3>1. L \in Nat \ {0} /\ M \in Nat \ {0} /\ B \in Nat /\ Place(under, j, L) \in 2 .. M
      BY UnderLens
    <3>2. Place(under, j, L) = 1 + B + L /\ p = 1 + B + x
      BY <2>2 DEF Place
    <3>3. Linked(kind, under[j][x], L - x)
      BY DEF Cut, Good, AllLinked
    <3>4. x \in 1 .. L
      OBVIOUS
    <3> HIDE DEF L, B, M
    <3>5. L - x \in Int /\ M - p \in Int /\ L - x <= M - p
      BY <3>1, <3>2, <3>4
    <3>6. Linked(kind, under[j][x], M - p)
      BY <3>3, <3>5, MoreRoom
    <3> QED
      BY <2>2, <3>6 DEF M
  <2> QED
    BY <2>1, <2>2, CutPages
<1> QED
  BY <1>3 DEF AllLinked

\* The part of T among the pages of the j-th kid, numbered as they are there.
Shifted(T, under, j) == {x \in Nat : Place(under, j, x) \in T}

LEMMA KidSteps ==
    ASSUME NEW kind, NEW E, NEW S, NEW b, NEW P, NEW mine, NEW kids, NEW c, NEW under, NEW head,
           Cut(kind, E, S, b, P, mine, kids, c, under, head), NEW j \in 1 .. c,
           NEW T, NEW x \in Shifted(T, under, j), x \in 1 .. Len(under[j])
    PROVE  /\ Place(under, j, x) \in T /\ Place(under, j, x) \in 1 .. Len(P)
           /\ P[Place(under, j, x)] = under[j][x]
           /\ \A q \in ToSet(under[j][x].patches) :
                 Place(under, j, x) + q[2] \in T => x + q[2] \in Shifted(T, under, j)
<1>1. /\ Place(under, j, x) \in 2 .. Len(P) /\ P[Place(under, j, x)] = under[j][x]
      /\ Before(under, j) \in Nat /\ Len(P) \in Nat
  BY DEF Cut, Assembled
<1>2. Place(under, j, x) \in T
  BY DEF Shifted
<1>3. Linked(kind, under[j][x], Len(under[j]) - x)
  BY DEF Cut, Good, AllLinked
<1>4. ASSUME NEW q \in ToSet(under[j][x].patches), Place(under, j, x) + q[2] \in T
      PROVE  x + q[2] \in Shifted(T, under, j)
  <2> DEFINE d == q[2]
             B == Before(under, j)
  <2>1. d \in Nat
    BY <1>3 DEF Linked
  <2>2. B \in Nat /\ x \in Nat
    BY <1>1
  <2>3. Place(under, j, x) = 1 + B + x /\ Place(under, j, x + d) = 1 + B + (x + d)
    BY DEF Place
  <2> HIDE DEF d, B
  <2>4. Place(under, j, x) + d = Place(under, j, x + d) /\ x + d \in Nat
    BY <2>1, <2>2, <2>3
  <2>5. Place(under, j, x + d) \in T
    BY <1>4, <2>4 DEF d
  <2>6. x + d \in Shifted(T, under, j)
    BY <2>4, <2>5 DEF Shifted
  <2> QED
    BY <2>6 DEF d
<1>5. Place(under, j, x) \in 1 .. Len(P)
  BY <1>1
<1> QED
  BY <1>1, <1>2, <1>4, <1>5

LEMMA CutFound ==
    ASSUME NEW kind \in Kinds, NEW E, EntryList(kind, E), NEW S \in SUBSET (1 .. Len(E)),
           NEW b, NEW P, NEW mine, NEW kids, NEW c, NEW under, NEW head,
           Cut(kind, E, S, b, P, mine, kids, c, under, head)
    PROVE  Found(kind, E, S, P)
<1>1. ASSUME NEW n \in S, NEW T \in SUBSET Nat, 1 \in T, Follows(kind, T, P, E[n])
      PROVE  \E p \in 1 .. Len(P) : p \in T /\ \E m \in 1 .. Len(P[p].data) : P[p].data[m] = E[n]
  <2>1. P[1] = head /\ 1 \in 1 .. Len(P)
    BY DEF Cut, Assembled
  <2> DEFINE N == Cardinality(mine)
  <2>2. N \in Nat /\ c \in Nat /\ Len(head.data) = N + c
    BY DEF Cut, Parts, HeadOK
  <2>3. CASE n \in mine
    <3>1. PICK m \in 1 .. N : head.data[m] = E[n]
      BY <2>3 DEF Cut, HeadOK
    <3> HIDE DEF N
    <3>2. m \in 1 .. Len(head.data)
      BY <2>2
    <3> QED
      BY <1>1, <2>1, <3>1, <3>2
  <2>4. CASE n \notin mine
    <3>1. b <= E[n].key[1] /\ \E i \in 1 .. c : AncestorAt(E[n].key, b) = kids[i]
      BY <2>4 DEF Cut, Parts
    <3>2. PICK j \in 1 .. c : AncestorAt(E[n].key, b) = kids[j]
      BY <3>1
    <3>3. n \in Subtree(E, S, b, mine, kids[j])
      BY <2>4, <3>2 DEF Subtree
    <3> DEFINE r == head.data[N + j]
    <3>4. Leads(kind, r, E[n])
      <4>1. CASE kind = "node"
        <5>1. r.key = kids[j] /\ kids[j][1] = b
          BY DEF Cut, Parts, HeadOK
        <5> HIDE DEF r
        <5>2. IsAncestor(r.key, E[n].key)
          BY <3>1, <3>2, <5>1 DEF IsAncestor
        <5> QED
          BY <4>1, <5>2 DEF Leads
      <4>2. CASE kind = "time"
        BY <3>3, <4>2 DEF Cut, HeadOK
      <4> QED
        BY <4>1, <4>2 DEF Kinds
    <3>5. <<N + j, ChildDistance(under, j)>> \in ToSet(head.patches)
      BY DEF Cut, HeadOK
    <3>6. 1 + ChildDistance(under, j) \in T
      <4> DEFINE q == <<N + j, ChildDistance(under, j)>>
      <4>1. q[1] = N + j /\ q[2] = ChildDistance(under, j)
        OBVIOUS
      <4> HIDE DEF q, N
      <4>2. q \in ToSet(P[1].patches) /\ Leads(kind, P[1].data[q[1]], E[n])
        BY <2>1, <3>4, <3>5, <4>1 DEF q, N
      <4>3. 1 + q[2] \in T
        BY <1>1, <2>1, <4>2 DEF Follows
      <4> QED
        BY <4>1, <4>3
    <3> DEFINE U == Shifted(T, under, j)
    <3>7. 1 \in U /\ U \in SUBSET Nat
      <4>1. Place(under, j, 1) \in T
        BY <3>6, UnderLens
      <4> QED
        BY <4>1 DEF Shifted
    <3>8. Follows(kind, U, under[j], E[n])
      <4>1. ASSUME NEW x \in U, x \in 1 .. Len(under[j]), NEW q \in ToSet(under[j][x].patches),
                   Leads(kind, under[j][x].data[q[1]], E[n])
            PROVE  x + q[2] \in U
        <5>1. /\ Place(under, j, x) \in T /\ Place(under, j, x) \in 1 .. Len(P)
              /\ P[Place(under, j, x)] = under[j][x]
              /\ Place(under, j, x) + q[2] \in T => x + q[2] \in U
          BY <4>1, KidSteps
        <5> HIDE DEF U
        <5>2. Place(under, j, x) + q[2] \in T
          BY <1>1, <4>1, <5>1 DEF Follows
        <5> QED
          BY <5>1, <5>2
      <4> HIDE DEF U
      <4> QED
        BY <4>1 DEF Follows
    <3>9. Found(kind, E, Subtree(E, S, b, mine, kids[j]), under[j])
      BY DEF Cut, Good
    <3>10. PICK x \in 1 .. Len(under[j]) :
              x \in U /\ \E m \in 1 .. Len(under[j][x].data) : under[j][x].data[m] = E[n]
      <4> HIDE DEF U
      <4> QED
        BY <3>3, <3>7, <3>8, <3>9 DEF Found
    <3>11. /\ Place(under, j, x) \in T /\ Place(under, j, x) \in 1 .. Len(P)
           /\ P[Place(under, j, x)] = under[j][x]
      BY <3>10, KidSteps
    <3> QED
      BY <3>10, <3>11
  <2> QED
    BY <2>3, <2>4
<1> QED
  BY <1>1 DEF Found

LEMMA CutSpanned ==
    ASSUME NEW kind, NEW E, NEW S, NEW b, NEW P, NEW mine, NEW kids, NEW c, NEW under, NEW head,
           Cut(kind, E, S, b, P, mine, kids, c, under, head)
    PROVE  Spanned(P)
<1>1. ASSUME NEW T \in SUBSET Nat, 1 \in T, FollowsAll(T, P), NEW p \in 1 .. Len(P)
      PROVE  p \in T
  <2>1. P[1] = head /\ 1 \in 1 .. Len(P)
    BY DEF Cut, Assembled
  <2>2. ASSUME NEW j \in 1 .. c, NEW x \in 1 .. Len(under[j]), p = Place(under, j, x)
        PROVE  p \in T
    <3> DEFINE q == <<Cardinality(mine) + j, ChildDistance(under, j)>>
               U == Shifted(T, under, j)
    <3>1. q \in ToSet(P[1].patches) /\ q[2] = ChildDistance(under, j)
      BY <2>1 DEF Cut, HeadOK
    <3> HIDE DEF q
    <3>2. 1 + q[2] \in T
      BY <1>1, <2>1, <3>1 DEF FollowsAll
    <3>3. Place(under, j, 1) \in T
      BY <3>1, <3>2, UnderLens
    <3>4. 1 \in U /\ U \in SUBSET Nat
      BY <3>3 DEF Shifted
    <3> HIDE DEF U
    <3>5. ASSUME NEW y \in U, y \in 1 .. Len(under[j]), NEW r \in ToSet(under[j][y].patches)
          PROVE  y + r[2] \in U
      <4>1. /\ Place(under, j, y) \in T /\ Place(under, j, y) \in 1 .. Len(P)
            /\ P[Place(under, j, y)] = under[j][y]
            /\ Place(under, j, y) + r[2] \in T => y + r[2] \in U
        BY <3>5, KidSteps DEF U
      <4>2. Place(under, j, y) + r[2] \in T
        BY <1>1, <3>5, <4>1 DEF FollowsAll
      <4> QED
        BY <4>1, <4>2
    <3>6. FollowsAll(U, under[j])
      BY <3>5 DEF FollowsAll
    <3>7. Spanned(under[j])
      BY DEF Cut, Good
    <3>8. x \in U
      BY <3>4, <3>6, <3>7 DEF Spanned
    <3> QED
      BY <2>2, <3>8 DEF U, Shifted
  <2> QED
    BY <1>1, <2>2, CutPages
<1> QED
  BY <1>1 DEF Spanned

LEMMA CutKeysApart ==
    ASSUME NEW kind \in Kinds, NEW E, EntryList(kind, E), NEW S \in SUBSET (1 .. Len(E)),
           NEW b \in Nat, NEW P, NEW mine, NEW kids, NEW c, NEW under, NEW head,
           Cut(kind, E, S, b, P, mine, kids, c, under, head), kind = "node"
    PROVE  KeysApart(P)
<1> DEFINE N == Cardinality(mine)
           D == head.data
<1>1. /\ N \in Nat /\ c \in Nat
      /\ \A m, k \in 1 .. N : D[m].key = D[k].key => m = k
  BY DEF Cut, Parts, HeadOK
<1>2. /\ \A j \in 1 .. c : kids[j][1] = b
      /\ \A i, j \in 1 .. c : kids[i] = kids[j] => i = j
      /\ \A n \in mine : E[n].key[1] < b /\ E[n].key[1] \in Nat
  <2>1. \A n \in mine : E[n].key[1] < b /\ n \in S
    BY DEF Cut, Parts
  <2>2. \A n \in mine : E[n].key \in KeySet
    BY <2>1, KeyOf
  <2> QED
    BY <2>1, <2>2 DEF Cut, Parts, KeySet
<1>3. \A m \in 1 .. Len(D) :
        \/ m \in 1 .. N /\ \E n \in mine : D[m] = E[n]
        \/ \E j \in 1 .. c : m = N + j /\ D[m].key = kids[j]
  BY HeadRecords
<1> HIDE DEF N, D
<1>4. \A m \in 1 .. Len(D) :
        \/ m \in 1 .. N /\ D[m].key[1] < b /\ D[m].key[1] \in Nat
        \/ \E j \in 1 .. c : m = N + j /\ D[m].key = kids[j] /\ D[m].key[1] = b
  BY <1>2, <1>3
<1>5. ASSUME NEW m \in 1 .. Len(D), NEW k \in 1 .. Len(D), D[m].key = D[k].key
      PROVE  m = k
  <2>1. CASE D[m].key[1] < b /\ D[m].key[1] \in Nat
    <3>1. m \in 1 .. N /\ k \in 1 .. N
      BY <1>4, <1>5, <2>1
    <3> QED
      BY <1>1, <1>5, <3>1
  <2>2. CASE ~(D[m].key[1] < b /\ D[m].key[1] \in Nat)
    <3>1. PICK i \in 1 .. c : m = N + i /\ D[m].key = kids[i]
      BY <1>4, <2>2
    <3>2. PICK j \in 1 .. c : k = N + j /\ D[k].key = kids[j]
      BY <1>4, <1>5, <2>2
    <3> QED
      BY <1>2, <1>5, <3>1, <3>2
  <2> QED
    BY <2>1, <2>2
<1>6. ASSUME NEW p \in 1 .. Len(P), NEW m \in 1 .. Len(P[p].data), NEW k \in 1 .. Len(P[p].data),
             P[p].data[m].key = P[p].data[k].key
      PROVE  m = k
  <2>1. CASE p = 1 /\ P[p] = head
    BY <1>5, <1>6, <2>1 DEF D
  <2>2. ASSUME NEW j \in 1 .. c, NEW x \in 1 .. Len(under[j]), P[p] = under[j][x]
        PROVE  m = k
    <3>1. KeysApart(under[j])
      BY DEF Cut, Good
    <3> QED
      BY <1>6, <2>2, <3>1 DEF KeysApart
  <2> QED
    BY <2>1, <2>2, CutPages
<1> QED
  BY <1>6 DEF KeysApart

LEMMA CutNoneEmpty ==
    ASSUME NEW kind, NEW E, NEW S, NEW b, NEW P, NEW mine, NEW kids, NEW c, NEW under, NEW head,
           Cut(kind, E, S, b, P, mine, kids, c, under, head)
    PROVE  NoneEmpty(S, P)
<1>1. ASSUME S # {}, NEW p \in 1 .. Len(P) PROVE Len(P[p].data) # 0
  <2>1. CASE p = 1 /\ P[p] = head
    <3> DEFINE N == Cardinality(mine)
    <3>1. N \in Nat /\ c \in Nat /\ Len(head.data) = N + c /\ (mine # {} => N # 0)
      BY DEF Cut, Parts, HeadOK
    <3>2. mine = {} => \E j \in 1 .. c : TRUE
      BY <1>1 DEF Cut, Parts
    <3> HIDE DEF N
    <3>3. N # 0 \/ c # 0
      BY <3>1, <3>2
    <3>4. Len(head.data) # 0
      BY <3>1, <3>3
    <3> QED
      BY <2>1, <3>4
  <2>2. ASSUME NEW j \in 1 .. c, NEW x \in 1 .. Len(under[j]), P[p] = under[j][x]
        PROVE  Len(P[p].data) # 0
    <3>1. Subtree(E, S, b, mine, kids[j]) # {}
      <4>1. \E n \in S \ mine : AncestorAt(E[n].key, b) = kids[j]
        BY DEF Cut, Parts
      <4> QED
        BY <4>1 DEF Subtree
    <3>2. NoneEmpty(Subtree(E, S, b, mine, kids[j]), under[j])
      BY DEF Cut, Good
    <3> QED
      BY <2>2, <3>1, <3>2 DEF NoneEmpty
  <2> QED
    BY <2>1, <2>2, CutPages
<1> QED
  BY <1>1 DEF NoneEmpty

LEMMA CutIsGood ==
    ASSUME NEW kind \in Kinds, NEW E, EntryList(kind, E), NEW S \in SUBSET (1 .. Len(E)),
           NEW b \in Nat, NEW deeper, \A G \in SUBSET (1 .. Len(E)) : Good(kind, E, G, deeper[G])
    PROVE  Good(kind, E, S, CutPage(kind, E, S, b, deeper))
<1> DEFINE mine == Mine(kind, E, S, b)
           kids == Kids(kind, E, S, b)
           c == Len(kids)
           group(j) == Group(kind, E, S, b, kids[j])
           under == [j \in DOMAIN kids |-> deeper[group(j)]]
           pointers == [j \in DOMAIN kids |->
                          PointerTo(kind, kids[j], {E[n] : n \in mine}, {E[n] : n \in group(j)})]
           patches == [j \in DOMAIN kids |-> <<Cardinality(mine) + j, ChildDistance(under, j)>>]
           head == [data |-> Picked(E, mine) \o pointers, patches |-> patches]
           P == << head >> \o Concat(under)
<1>1. CutPage(kind, E, S, b, deeper) = P
  BY DEF CutPage
<1>2. Parts(kind, E, S, b, mine, kids, c)
  BY CutParts
<1>3. ASSUME NEW root PROVE Group(kind, E, S, b, root) = Subtree(E, S, b, mine, root)
  BY DEF Group, Subtree
<1> HIDE DEF mine, kids, c
<1>4. c \in Nat /\ DOMAIN kids = 1 .. c /\ mine \subseteq S
  BY <1>2 DEF Parts
<1>5. under = [j \in 1 .. c |-> deeper[Subtree(E, S, b, mine, kids[j])]]
  BY <1>3, <1>4
<1>6. pointers = [j \in 1 .. c |-> PointerTo(kind, kids[j], {E[n] : n \in mine},
                                     {E[n] : n \in Subtree(E, S, b, mine, kids[j])})]
  BY <1>3, <1>4
<1> HIDE DEF under, pointers
<1>7. patches = [j \in 1 .. c |-> <<Cardinality(mine) + j, ChildDistance(under, j)>>]
  BY <1>4
<1> HIDE DEF patches
<1>8. head = [data |-> Picked(E, mine) \o pointers, patches |-> patches]
  OBVIOUS
<1> HIDE DEF head
<1>9. \A j \in 1 .. c : Good(kind, E, Subtree(E, S, b, mine, kids[j]), under[j])
  <2>1. ASSUME NEW j \in 1 .. c PROVE Good(kind, E, Subtree(E, S, b, mine, kids[j]), under[j])
    <3> DEFINE G == Subtree(E, S, b, mine, kids[j])
    <3>1. G \in SUBSET (1 .. Len(E))
      BY DEF Subtree
    <3>2. under[j] = deeper[G]
      BY <1>5
    <3> HIDE DEF G
    <3>3. Good(kind, E, G, under[j])
      BY <3>1, <3>2
    <3> QED
      BY <3>3 DEF G
  <2> QED
    BY <2>1
<1>10. \A j \in 1 .. c : under[j] \in Seq(PageSet(kind)) /\ Len(under[j]) \in Nat
  BY <1>9 DEF Good
<1>11. Len(under) = c
  <2>1. under = [j \in 1 .. c |-> under[j]]
    BY <1>5
  <2>2. under \in [1 .. c -> Seq(PageSet(kind))]
    BY <1>10, <2>1
  <2> QED
    BY <1>4, <2>2, FunctionIsList
<1>12. \A j \in 1 .. c : Before(under, j) \in Nat
  <2>1. \A j \in 1 .. c + 1 : Before(under, j) \in Nat
    BY <1>4, <1>10, BeforeNext
  <2> QED
    BY <1>4, <2>1
<1>13. HeadOK(kind, E, S, b, mine, kids, c, under, head)
  BY <1>2, <1>6, <1>7, <1>8, <1>12, HeadIs
<1>14. head \in PageSet(kind)
  BY <1>13 DEF HeadOK
<1>15. Assembled(P, head, under, c, PageSet(kind))
  BY <1>4, <1>10, <1>11, <1>14, IsAssembled
<1> HIDE DEF P
<1>16. Cut(kind, E, S, b, P, mine, kids, c, under, head)
  BY <1>2, <1>9, <1>13, <1>15 DEF Cut
<1>17. P \in Seq(PageSet(kind)) /\ Len(P) \in Nat \ {0}
  BY <1>15 DEF Assembled
<1>18. Holds(kind, E, S, P) /\ Once(E, S, P)
  BY <1>16, CutHolds, CutOnce
<1>19. AllLinked(kind, P) /\ Found(kind, E, S, P)
  BY <1>16, CutLinked, CutFound
<1>20. Spanned(P) /\ NoneEmpty(S, P)
  BY <1>16, CutSpanned, CutNoneEmpty
<1>21. kind = "node" => KeysApart(P)
  BY <1>16, CutKeysApart
<1>22. Good(kind, E, S, P)
  BY <1>17, <1>18, <1>19, <1>20, <1>21 DEF Good
<1> QED
  BY <1>1, <1>22

LEMMA BoundariesAre ==
    ASSUME NEW d \in Nat
    PROVE  /\ Len(Boundaries(d)) \in Nat
           /\ \A i \in 1 .. Len(Boundaries(d)) : Boundaries(d)[i] \in Nat
<1>1. CASE d <= 3
  BY <1>1 DEF Boundaries
<1>2. CASE ~(d <= 3)
  <2> DEFINE n == (d - 1) \div 3
             f == [i \in 1 .. n |-> 3 * i]
  <2>1. Boundaries(d) = f
    BY <1>2 DEF Boundaries
  <2>2. n \in Nat
    BY <1>2
  <2> HIDE DEF n
  <2>3. f \in [1 .. n -> Nat]
    OBVIOUS
  <2> HIDE DEF f
  <2>4. Len(f) = n /\ f \in Seq(Nat)
    BY <2>2, <2>3, FunctionIsList
  <2> QED
    BY <2>1, <2>2, <2>3, <2>4
<1> QED
  BY <1>1, <1>2

LEMMA DeepestIs ==
    ASSUME NEW kind \in Kinds, NEW E, EntryList(kind, E), E # <<>>
    PROVE  DeepestOf(E) \in Nat
<1> DEFINE n == Len(E)
           L == {Level(E[i].key) : i \in 1 .. n}
<1>1. E \in Seq(EntrySet(kind)) /\ n \in Nat /\ n # 0
  BY LenProperties, EmptySeq DEF EntryList
<1>2. {Level(e.key) : e \in ToSet(E)} = L
  <2>1. DOMAIN E = 1 .. n
    BY <1>1
  <2> HIDE DEF n
  <2> QED
    BY <2>1 DEF ToSet
<1>3. L \subseteq Nat
  <2>1. \A i \in 1 .. n : Level(E[i].key) \in Nat
    BY KeyOf DEF KeySet, Level
  <2> QED
    BY <2>1
<1>4. IsFiniteSet(L)
  <2> DEFINE f == [i \in 1 .. n |-> Level(E[i].key)]
  <2>1. L = {f[i] : i \in 1 .. n}
    OBVIOUS
  <2> HIDE DEF f, L, n
  <2>2. IsFiniteSet(1 .. n)
    BY <1>1, FS_Interval
  <2>3. IsFiniteSet({f[i] : i \in 1 .. n})
    BY <2>2, ValuesFinite
  <2> QED
    BY <2>1, <2>3
<1>5. L # {}
  <2>1. 1 \in 1 .. n
    <3> HIDE DEF n
    <3> QED
      BY <1>1
  <2> QED
    BY <2>1
<1> HIDE DEF L
<1>6. Max(L) \in L
  <2>1. L \subseteq Int
    BY <1>3
  <2> QED
    BY <1>4, <1>5, <2>1, Ends
<1> QED
  BY <1>2, <1>3, <1>6 DEF DeepestOf

\* The pages of entries, each boundary cutting what the one above has left.
LEMMA TreeIsGood ==
    ASSUME NEW kind \in Kinds, NEW E, EntryList(kind, E), E # <<>>
    PROVE  Good(kind, E, 1 .. Len(E), PageTree(kind, E))
<1> DEFINE bounds == Boundaries(DeepestOf(E))
           L == Len(bounds)
           N == 1 .. Len(E)
           F(u) == [d \in 0 .. L |->
                      [S \in SUBSET DOMAIN E |->
                         IF d = 0 THEN WholePage(E, S)
                         ELSE CutPage(kind, E, S, bounds[L + 1 - d], u[d - 1])]]
           U == CHOOSE u : u = F(u)
           A == {f \in [SUBSET N -> Seq(PageSet(kind))] : \A G \in SUBSET N : Good(kind, E, G, f[G])}
           whole == [S \in SUBSET N |-> WholePage(E, S)]
           step == [d \in 1 .. L |->
                      [u \in A |-> [S \in SUBSET N |-> CutPage(kind, E, S, bounds[L + 1 - d], u)]]]
<1>1. DOMAIN E = N
  BY LenProperties DEF EntryList
<1>2. L \in Nat /\ \A i \in 1 .. L : bounds[i] \in Nat
  BY DeepestIs, BoundariesAre
<1>3. PageTree(kind, E) = U[L][DOMAIN E]
  BY DEF PageTree
<1> HIDE DEF bounds, L
<1>4. whole \in A
  <2>1. \A G \in SUBSET N : Good(kind, E, G, WholePage(E, G))
    BY WholeIsGood
  <2>2. \A G \in SUBSET N : WholePage(E, G) \in Seq(PageSet(kind))
    BY <2>1 DEF Good
  <2> HIDE DEF N
  <2> QED
    BY <2>1, <2>2
<1>5. ASSUME NEW d \in 1 .. L, NEW u \in A
      PROVE  [S \in SUBSET N |-> CutPage(kind, E, S, bounds[L + 1 - d], u)] \in A
  <2> DEFINE b == bounds[L + 1 - d]
  <2>1. b \in Nat
    <3>1. L + 1 - d \in 1 .. L
      BY <1>2
    <3> QED
      BY <1>2, <3>1
  <2> HIDE DEF b
  <2>2. \A G \in SUBSET N : Good(kind, E, G, u[G])
    OBVIOUS
  <2>3. \A G \in SUBSET N : Good(kind, E, G, CutPage(kind, E, G, b, u))
    BY <2>1, <2>2, CutIsGood
  <2>4. \A G \in SUBSET N : CutPage(kind, E, G, b, u) \in Seq(PageSet(kind))
    BY <2>3 DEF Good
  <2> HIDE DEF N
  <2>5. [S \in SUBSET N |-> CutPage(kind, E, S, b, u)] \in A
    BY <2>3, <2>4
  <2> QED
    BY <2>5 DEF b
<1> HIDE DEF A
<1>6. step \in [1 .. L -> [A -> A]]
  <2> HIDE DEF N
  <2> QED
    BY <1>5
<1>7. \A d \in 1 .. L : \A u \in A :
         step[d][u] = [S \in SUBSET N |-> CutPage(kind, E, S, bounds[L + 1 - d], u)]
  <2> HIDE DEF N
  <2> QED
    OBVIOUS
<1>8. whole = [S \in SUBSET DOMAIN E |-> WholePage(E, S)]
  BY <1>1
<1> HIDE DEF N, step, whole
<1>9. \E u : u = F(u)
  <2>1. Steps(L, A, whole, step)
    BY <1>2, <1>4, <1>6, FoldExists
  <2>2. PICK u \in [0 .. L -> A] : u[0] = whole /\ \A d \in 1 .. L : u[d] = step[d][u[d - 1]]
    BY <2>1 DEF Steps
  <2>3. ASSUME NEW d \in 1 .. L
        PROVE  u[d] = [S \in SUBSET DOMAIN E |-> CutPage(kind, E, S, bounds[L + 1 - d], u[d - 1])]
    <3>1. d - 1 \in 0 .. L
      BY <1>2
    <3>2. u[d - 1] \in A
      BY <2>2, <3>1
    <3>3. u[d] = step[d][u[d - 1]]
      BY <2>2
    <3> QED
      BY <1>1, <1>7, <3>2, <3>3
  <2>4. \A d \in 0 .. L : u[d] = [S \in SUBSET DOMAIN E |->
                                    IF d = 0 THEN WholePage(E, S)
                                    ELSE CutPage(kind, E, S, bounds[L + 1 - d], u[d - 1])]
    <3>1. ASSUME NEW d \in 0 .. L, d # 0
          PROVE  u[d] = [S \in SUBSET DOMAIN E |->
                                    IF d = 0 THEN WholePage(E, S)
                                    ELSE CutPage(kind, E, S, bounds[L + 1 - d], u[d - 1])]
      <4>1. d \in 1 .. L
        BY <3>1
      <4> QED
        BY <2>3, <3>1, <4>1
    <3>2. ASSUME NEW d \in 0 .. L, d = 0
          PROVE  u[d] = [S \in SUBSET DOMAIN E |->
                                    IF d = 0 THEN WholePage(E, S)
                                    ELSE CutPage(kind, E, S, bounds[L + 1 - d], u[d - 1])]
      BY <1>8, <2>2, <3>2
    <3> QED
      BY <3>1, <3>2
  <2>5. u = [d \in 0 .. L |-> u[d]]
    BY <2>2
  <2>6. u = F(u)
    BY <2>4, <2>5
  <2> QED
    BY <2>6
<1>10. U = F(U)
  BY <1>9
<1> HIDE DEF U
<1>11. U[0] = whole
  <2>1. 0 \in 0 .. L
    BY <1>2
  <2>2. U[0] = [S \in SUBSET DOMAIN E |->
                   IF 0 = 0 THEN WholePage(E, S)
                   ELSE CutPage(kind, E, S, bounds[L + 1 - 0], U[0 - 1])]
    BY <1>10, <2>1
  <2> QED
    BY <1>8, <2>2
<1>12. ASSUME NEW d \in 1 .. L
       PROVE  U[d] = [S \in SUBSET N |-> CutPage(kind, E, S, bounds[L + 1 - d], U[d - 1])]
  <2>1. d \in 0 .. L /\ d # 0
    OBVIOUS
  <2>2. U[d] = [S \in SUBSET DOMAIN E |->
                   IF d = 0 THEN WholePage(E, S)
                   ELSE CutPage(kind, E, S, bounds[L + 1 - d], U[d - 1])]
    BY <1>10, <2>1
  <2> QED
    BY <1>1, <2>1, <2>2
<1> DEFINE T == {d \in Nat : U[d] \in A}
<1>13. 0 \in T
  BY <1>4, <1>11
<1>14. ASSUME NEW d \in 1 .. L, d - 1 \in T PROVE d \in T
  <2> DEFINE v == U[d - 1]
  <2>1. v \in A
    BY <1>14
  <2>2. U[d] = [S \in SUBSET N |-> CutPage(kind, E, S, bounds[L + 1 - d], v)]
    BY <1>12
  <2> HIDE DEF v
  <2>3. U[d] \in A
    BY <1>5, <2>1, <2>2
  <2>4. d \in Nat
    BY <1>2
  <2> QED
    BY <2>3, <2>4
<1> HIDE DEF T
<1>15. L \in T
  <2>1. \A d \in 0 .. L : d \in T
    BY <1>2, <1>13, <1>14, Climb
  <2> QED
    BY <1>2, <2>1
<1>16. U[L] \in A
  BY <1>15 DEF T
<1>17. Good(kind, E, N, U[L][N])
  BY <1>16 DEF A
<1> QED
  BY <1>1, <1>3, <1>17 DEF N

(***************************************************************************)
(* The layout of pages                                                     *)
(***************************************************************************)
\* The sum of the first x numbers.
Upto(s, x) == SumOf([m \in 1 .. x |-> s[m]])

LEMMA UptoIs ==
    ASSUME NEW n \in Nat, NEW s \in [1 .. n -> Nat]
    PROVE  /\ \A x \in 0 .. n : Upto(s, x) \in Nat
           /\ \A x \in 1 .. n : Upto(s, x) = Upto(s, x - 1) + s[x]
           /\ \A x \in 0 .. n : \A y \in x .. n :
                 /\ Upto(s, y) = Upto(s, x) + SumOf([i \in 1 .. y - x |-> s[x + i]])
                 /\ Upto(s, x) <= Upto(s, y)
<1>1. ASSUME NEW x \in 0 .. n PROVE Upto(s, x) \in Nat
  <2> DEFINE f == [m \in 1 .. x |-> s[m]]
  <2>1. f \in [1 .. x -> Nat] /\ x \in Nat
    OBVIOUS
  <2> HIDE DEF f
  <2>2. f \in Seq(Nat)
    BY <2>1, FunctionIsList
  <2>3. SumOf(f) \in Nat
    BY <2>2, SumIsNat
  <2> QED
    BY <2>3 DEF Upto, f
<1>2. ASSUME NEW x \in 1 .. n PROVE Upto(s, x) = Upto(s, x - 1) + s[x]
  <2> DEFINE k == x - 1
             f == [m \in 1 .. k + 1 |-> s[m]]
  <2>1. k \in Nat /\ k + 1 = x /\ f \in [1 .. k + 1 -> Nat] /\ f[k + 1] = s[x]
    OBVIOUS
  <2>2. [m \in 1 .. k |-> f[m]] = [m \in 1 .. x - 1 |-> s[m]] /\ f = [m \in 1 .. x |-> s[m]]
    OBVIOUS
  <2> HIDE DEF f, k
  <2>3. SumOf(f) = SumOf([m \in 1 .. k |-> f[m]]) + f[k + 1]
    BY <2>1, SumNext
  <2> QED
    BY <2>1, <2>2, <2>3 DEF Upto
<1>3. ASSUME NEW x \in 0 .. n, NEW y \in x .. n
      PROVE  /\ Upto(s, y) = Upto(s, x) + SumOf([i \in 1 .. y - x |-> s[x + i]])
             /\ Upto(s, x) <= Upto(s, y)
  <2> DEFINE f == [m \in 1 .. y |-> s[m]]
             r == [i \in 1 .. y - x |-> s[x + i]]
  <2>1. y \in Nat /\ x \in 0 .. y /\ f \in [1 .. y -> Nat] /\ y \in 0 .. n /\ y - x \in Nat
    OBVIOUS
  <2>2. [m \in 1 .. x |-> f[m]] = [m \in 1 .. x |-> s[m]]
    OBVIOUS
  <2>3. [i \in 1 .. y - x |-> f[x + i]] = r
    OBVIOUS
  <2>4. r \in [1 .. y - x -> Nat]
    OBVIOUS
  <2>5. Upto(s, y) = SumOf(f)
    BY DEF Upto
  <2> HIDE DEF f, r
  <2>6. SumOf(f) = SumOf([m \in 1 .. x |-> f[m]]) + SumOf([i \in 1 .. y - x |-> f[x + i]])
    BY <2>1, SumSplits
  <2>7. SumOf(f) = Upto(s, x) + SumOf(r)
    BY <2>2, <2>3, <2>6 DEF Upto
  <2>8. r \in Seq(Nat)
    BY <2>1, <2>4, FunctionIsList
  <2>9. SumOf(r) \in Nat
    BY <2>8, SumIsNat
  <2>10. Upto(s, x) \in Nat
    BY <1>1
  <2> QED
    BY <2>5, <2>7, <2>9, <2>10 DEF r
<1> QED
  BY <1>1, <1>2, <1>3

\* Sizes of the records of a page.
SizesOf(kind, records) == [m \in DOMAIN records |-> RecordSize(kind, records[m])]

LEMMA BytesAre ==
    ASSUME NEW kind \in Kinds, NEW records \in Seq(RecordSet(kind))
    PROVE  /\ BytesOf(kind, records) = SumOf(SizesOf(kind, records))
           /\ SizesOf(kind, records) \in [1 .. Len(records) -> Nat \ {0}]
           /\ BytesOf(kind, records) \in Nat
<1> DEFINE n == Len(records)
           s == SizesOf(kind, records)
<1>1. n \in Nat /\ DOMAIN records = 1 .. n /\ \A m \in 1 .. n : records[m] \in RecordSet(kind)
  BY LenProperties, ElementOfSeq
<1> HIDE DEF n
<1>2. \A m \in 1 .. n : RecordSize(kind, records[m]) \in Nat \ {0}
  BY <1>1, RecordsAre
<1>3. s \in [1 .. n -> Nat \ {0}]
  BY <1>1, <1>2 DEF SizesOf
<1>4. BytesOf(kind, records) = SumOf(s)
  BY DEF BytesOf, SizesOf
<1> HIDE DEF s
<1>5. s \in [1 .. n -> Nat]
  BY <1>3
<1>6. s \in Seq(Nat)
  BY <1>1, <1>5, FunctionIsList
<1>7. SumOf(s) \in Nat
  BY <1>6, SumIsNat
<1> QED
  BY <1>3, <1>4, <1>7 DEF s, n

\* Where the p-th page lies.
RangeOf(kind, P, from, p) == <<PageOffset(kind, P, from, p), BytesOf(kind, P[p].data)>>

\* The record r is the record d with what its patch says.
IsPatched(kind, P, from, p, m, r) ==
    LET d == P[p].data[m]
    IN  /\ r \in RecordSet(kind) /\ r.key = d.key
        /\ RecordSize(kind, r) = RecordSize(kind, d)
        /\ IsPointer(kind, r) <=> IsPointer(kind, d)
        /\ ~IsPointer(kind, r) => r = d
        /\ IsPointer(kind, r) /\ kind = "time" => r.range = d.range
        /\ IsPointer(kind, r) => \E q \in ToSet(P[p].patches) : q[1] = m
        /\ \A q \in ToSet(P[p].patches) :
              q[1] = m => <<r.offset, r.byteSize>> = RangeOf(kind, P, from, p + q[2])

LEMMA PageOffsetIs ==
    ASSUME NEW kind \in Kinds, NEW P \in Seq(PageSet(kind)), NEW from \in Nat
    PROVE  \A p \in 1 .. Len(P) + 1 : PageOffset(kind, P, from, p) \in Nat
<1> DEFINE N == Len(P)
           f == [p \in 1 .. N |-> BytesOf(kind, P[p].data)]
<1>1. N \in Nat /\ \A p \in 1 .. N : P[p] \in PageSet(kind)
  BY LenProperties, ElementOfSeq
<1>2. \A p \in 1 .. N : BytesOf(kind, P[p].data) \in Nat
  BY <1>1, BytesAre DEF PageSet
<1> HIDE DEF N
<1>3. f \in [1 .. N -> Nat]
  BY <1>2
<1>4. ASSUME NEW p \in 1 .. N + 1 PROVE PageOffset(kind, P, from, p) \in Nat
  <2> DEFINE g == [m \in 1 .. p - 1 |-> BytesOf(kind, P[m].data)]
  <2>1. p - 1 \in Nat /\ \A m \in 1 .. p - 1 : m \in 1 .. N
    BY <1>1
  <2>2. g \in [1 .. p - 1 -> Nat]
    BY <1>2, <2>1
  <2>3. PageOffset(kind, P, from, p) = from + SumOf(g)
    BY DEF PageOffset
  <2> HIDE DEF g
  <2>4. g \in Seq(Nat)
    BY <2>1, <2>2, FunctionIsList
  <2>5. SumOf(g) \in Nat
    BY <2>4, SumIsNat
  <2> QED
    BY <2>3, <2>5
<1> QED
  BY <1>4 DEF N

LEMMA PatchedIs ==
    ASSUME NEW kind \in Kinds, NEW P \in Seq(PageSet(kind)), AllLinked(kind, P),
           NEW from \in Nat, NEW p \in 1 .. Len(P)
    PROVE  /\ Patched(kind, P, from, p) \in Seq(RecordSet(kind))
           /\ Len(Patched(kind, P, from, p)) = Len(P[p].data)
           /\ \A m \in 1 .. Len(P[p].data) :
                 IsPatched(kind, P, from, p, m, Patched(kind, P, from, p)[m])
<1> DEFINE D == P[p].data
           Q == ToSet(P[p].patches)
           Target(m) == {p + q[2] : q \in {q \in Q : q[1] = m}}
           R(m) == IF Target(m) = {} THEN D[m]
                   ELSE LET child == CHOOSE c \in Target(m) : TRUE
                        IN  [D[m] EXCEPT !.offset = PageOffset(kind, P, from, child),
                                         !.byteSize = BytesOf(kind, P[child].data)]
           f == Patched(kind, P, from, p)
<1>1. Len(P) \in Nat /\ \A i \in 1 .. Len(P) : P[i] \in PageSet(kind)
  BY LenProperties, ElementOfSeq
<1>2. D \in Seq(RecordSet(kind)) /\ Len(D) \in Nat /\ DOMAIN D = 1 .. Len(D)
      /\ \A m \in 1 .. Len(D) : D[m] \in RecordSet(kind)
  <2>1. D \in Seq(RecordSet(kind))
    BY <1>1 DEF PageSet
  <2> QED
    BY <2>1, LenProperties, ElementOfSeq
<1>3. Linked(kind, P[p], Len(P) - p)
  BY DEF AllLinked
<1>4. f = [m \in 1 .. Len(D) |-> R(m)]
  BY <1>2 DEF Patched
<1>5. ASSUME NEW m \in 1 .. Len(D) PROVE IsPatched(kind, P, from, p, m, R(m))
  <2>1. CASE ~IsPointer(kind, D[m])
    <3>1. \A q \in Q : q[1] # m
      BY <1>3, <2>1 DEF Linked
    <3>2. Target(m) = {}
      BY <3>1
    <3>3. R(m) = D[m]
      BY <3>2
    <3> HIDE DEF R
    <3> QED
      BY <1>2, <2>1, <3>1, <3>3 DEF IsPatched
  <2>2. CASE IsPointer(kind, D[m])
    <3>1. PICK q \in Q : q[1] = m
      BY <1>3, <2>2 DEF Linked
    <3>2. \A r \in Q : r[1] = m => r = q
      BY <1>3, <3>1 DEF Linked
    <3> DEFINE c == p + q[2]
               o == PageOffset(kind, P, from, c)
               z == BytesOf(kind, P[c].data)
    <3>3. Target(m) = {c}
      BY <3>1, <3>2
    <3>4. R(m) = [D[m] EXCEPT !.offset = o, !.byteSize = z]
      BY <3>3
    <3> HIDE DEF R, Target
    <3>5. c \in 1 .. Len(P)
      <4>1. q[2] \in Nat \ {0} /\ q[2] <= Len(P) - p
        BY <1>3 DEF Linked
      <4> QED
        BY <1>1, <4>1
    <3> HIDE DEF c
    <3>6. o \in Nat /\ z \in Nat
      <4>1. P[c].data \in Seq(RecordSet(kind))
        BY <1>1, <3>5 DEF PageSet
      <4>2. c \in 1 .. Len(P) + 1
        BY <1>1, <3>5
      <4> QED
        BY <4>1, <4>2, PageOffsetIs, BytesAre
    <3>7. RangeOf(kind, P, from, c) = <<o, z>>
      BY DEF RangeOf
    <3> HIDE DEF o, z
    <3> DEFINE d == D[m]
               r == R(m)
    <3>8. d \in PointerSet(kind)
      BY <1>2, <2>2, RecordsAre
    <3> HIDE DEF d
    <3>9. r = [d EXCEPT !.offset = o, !.byteSize = z]
      BY <3>4 DEF d
    <3> HIDE DEF r
    <3>10. /\ r \in PointerSet(kind) /\ r.key = d.key /\ r.offset = o /\ r.byteSize = z
           /\ kind = "time" => r.range = d.range /\ r.samples = <<>> /\ d.samples = <<>>
      <4>1. CASE kind = "node"
        BY <3>6, <3>8, <3>9, <4>1 DEF PointerSet
      <4>2. CASE kind = "time"
        BY <3>6, <3>8, <3>9, <4>2 DEF PointerSet
      <4> QED
        BY <4>1, <4>2 DEF Kinds
    <3>11. RecordSize(kind, r) = RecordSize(kind, d)
      BY <3>10 DEF RecordSize, Kinds
    <3>12. r \in RecordSet(kind) /\ IsPointer(kind, r) /\ IsPointer(kind, d)
      <4>1. r \in RecordSet(kind)
        BY <3>10 DEF RecordSet
      <4> QED
        BY <2>2, <3>10, <4>1, RecordsAre DEF d
    <3>13. \A s \in Q : s[1] = m => <<r.offset, r.byteSize>> = RangeOf(kind, P, from, p + s[2])
      BY <3>2, <3>7, <3>10 DEF c
    <3>14. d = P[p].data[m]
      BY DEF d
    <3>15. IsPatched(kind, P, from, p, m, r)
      BY <3>1, <3>10, <3>11, <3>12, <3>13, <3>14 DEF IsPatched
    <3> QED
      BY <3>15 DEF r
  <2> QED
    BY <2>1, <2>2
<1> HIDE DEF R
<1>6. \A m \in 1 .. Len(D) : R(m) \in RecordSet(kind)
  BY <1>5 DEF IsPatched
<1> HIDE DEF D, f
<1>7. f \in [1 .. Len(D) -> RecordSet(kind)] /\ \A m \in 1 .. Len(D) : f[m] = R(m)
  BY <1>4, <1>6
<1>8. f \in Seq(RecordSet(kind)) /\ Len(f) = Len(D)
  BY <1>2, <1>7, FunctionIsList
<1>9. \A m \in 1 .. Len(D) : IsPatched(kind, P, from, p, m, f[m])
  BY <1>5, <1>7
<1> QED
  BY <1>8, <1>9 DEF D, f

\* The records of every page, patched.
Sheets(kind, P, from) == [n \in 1 .. Len(P) |-> Patched(kind, P, from, n)]

\* The number in the file of the m-th record of the p-th page.
NumberOf(kind, P, from, p, m) == Before(Sheets(kind, P, from), p) + m

\* A payload has the records of the pages, each in its place and patched, and
\* the byte range of a page holds the records of that page.
Laid(kind, P, from, payload) ==
    /\ payload.records \in Seq(RecordSet(kind)) /\ Len(payload.records) \in Nat
    /\ DOMAIN payload.records = 1 .. Len(payload.records)
    /\ Len(P) <= Len(payload.records)
    /\ <<payload.rootOffset, payload.rootSize>> = RangeOf(kind, P, from, 1)
    /\ \A p \in 1 .. Len(P) : \A m \in 1 .. Len(P[p].data) :
          /\ NumberOf(kind, P, from, p, m) \in 1 .. Len(payload.records)
          /\ IsPatched(kind, P, from, p, m, payload.records[NumberOf(kind, P, from, p, m)])
    /\ \A x \in 1 .. Len(payload.records) : \E p \in 1 .. Len(P) : \E m \in 1 .. Len(P[p].data) :
          x = NumberOf(kind, P, from, p, m)
    /\ \A p, r \in 1 .. Len(P) : \A m \in 1 .. Len(P[p].data), k \in 1 .. Len(P[r].data) :
          NumberOf(kind, P, from, p, m) = NumberOf(kind, P, from, r, k) => p = r /\ m = k
    /\ \A p \in 1 .. Len(P) :
          RecordsIn(kind, payload, RangeOf(kind, P, from, p)) =
             {NumberOf(kind, P, from, p, m) : m \in 1 .. Len(P[p].data)}

\* What is in the byte range behind the first a records and up to the e-th.
LEMMA InRange ==
    ASSUME NEW n \in Nat, NEW s \in [1 .. n -> Nat \ {0}], NEW from \in Nat,
           NEW a \in 0 .. n, NEW e \in a .. n, NEW x \in 1 .. n
    PROVE  (/\ from + Upto(s, a) <= from + Upto(s, x - 1)
            /\ from + Upto(s, x - 1) + s[x] <= from + Upto(s, e)) <=> x \in a + 1 .. e
<1>1. s \in [1 .. n -> Nat]
  OBVIOUS
<1>2. /\ \A y \in 0 .. n : Upto(s, y) \in Nat
      /\ \A y \in 1 .. n : Upto(s, y) = Upto(s, y - 1) + s[y]
  BY <1>1, UptoIs
<1>3. \A y \in 0 .. n : \A z \in y .. n : Upto(s, y) <= Upto(s, z)
  BY <1>1, UptoIs
<1>4. x - 1 \in 0 .. n /\ x \in 0 .. n /\ e \in 0 .. n /\ a \in 0 .. n
  OBVIOUS
<1> DEFINE A == Upto(s, a)
           B == Upto(s, x - 1)
           C == Upto(s, x)
           D == Upto(s, e)
<1>5. A \in Nat /\ B \in Nat /\ C \in Nat /\ D \in Nat /\ C = B + s[x] /\ s[x] \in Nat \ {0}
  BY <1>2, <1>4
<1>6. x <= a => C <= A
  BY <1>3, <1>4
<1>7. a + 1 <= x => A <= B
  <2>1. a + 1 <= x => x - 1 \in a .. n
    BY <1>4
  <2> QED
    BY <1>3, <1>4, <2>1
<1>8. x <= e => C <= D
  BY <1>3, <1>4
<1>9. e + 1 <= x => D <= B
  <2>1. e + 1 <= x => x - 1 \in e .. n
    BY <1>4
  <2> QED
    BY <1>3, <1>4, <2>1
<1>10. from + A <= from + B /\ from + B + s[x] <= from + D <=> A <= B /\ C <= D
  <2> HIDE DEF A, B, C, D
  <2> QED
    BY <1>5
<1>11. A <= B <=> a + 1 <= x
  <2> HIDE DEF A, B, C, D
  <2>1. x <= a => ~(A <= B)
    BY <1>5, <1>6
  <2> QED
    BY <1>7, <2>1
<1>12. C <= D <=> x <= e
  <2> HIDE DEF A, B, C, D
  <2>1. e + 1 <= x => ~(C <= D)
    BY <1>5, <1>9
  <2> QED
    BY <1>8, <2>1
<1> HIDE DEF A, B, C, D
<1>13. from + A <= from + B /\ from + B + s[x] <= from + D <=> x \in a + 1 .. e
  BY <1>10, <1>11, <1>12
<1> QED
  BY <1>13 DEF A, B, C, D

LEMMA SheetsAre ==
    ASSUME NEW kind \in Kinds, NEW P \in Seq(PageSet(kind)), AllLinked(kind, P), NEW from \in Nat
    PROVE  /\ Len(Sheets(kind, P, from)) = Len(P) /\ Len(P) \in Nat
           /\ \A p \in 1 .. Len(P) :
                 /\ Sheets(kind, P, from)[p] \in Seq(RecordSet(kind))
                 /\ Len(Sheets(kind, P, from)[p]) = Len(P[p].data) /\ Len(P[p].data) \in Nat
                 /\ \A m \in 1 .. Len(P[p].data) :
                       IsPatched(kind, P, from, p, m, Sheets(kind, P, from)[p][m])
<1> DEFINE L == Sheets(kind, P, from)
           N == Len(P)
<1>1. N \in Nat
  BY LenProperties
<1>2. ASSUME NEW p \in 1 .. N
      PROVE  /\ L[p] \in Seq(RecordSet(kind)) /\ Len(L[p]) = Len(P[p].data) /\ Len(P[p].data) \in Nat
             /\ \A m \in 1 .. Len(P[p].data) : IsPatched(kind, P, from, p, m, L[p][m])
  <2>1. L[p] = Patched(kind, P, from, p)
    BY DEF Sheets
  <2> HIDE DEF L
  <2>2. L[p] \in Seq(RecordSet(kind)) /\ Len(L[p]) = Len(P[p].data)
    BY <2>1, PatchedIs
  <2>3. \A m \in 1 .. Len(P[p].data) : IsPatched(kind, P, from, p, m, L[p][m])
    BY <2>1, PatchedIs
  <2>4. Len(P[p].data) \in Nat
    BY <2>2, LenProperties
  <2> QED
    BY <2>2, <2>3, <2>4
<1>3. L = [p \in 1 .. N |-> L[p]]
  BY DEF Sheets
<1> HIDE DEF L
<1>4. L \in [1 .. N -> Seq(RecordSet(kind))]
  BY <1>2, <1>3
<1>5. Len(L) = N
  BY <1>1, <1>4, FunctionIsList
<1> QED
  BY <1>1, <1>2, <1>5 DEF L

\* The records before the p-th page take the bytes up to it.
LEMMA OffsetsAgree ==
    ASSUME NEW kind \in Kinds, NEW P \in Seq(PageSet(kind)), AllLinked(kind, P), NEW from \in Nat,
           NEW recs, Flat(recs, Sheets(kind, P, from), Len(P), RecordSet(kind)),
           NEW s, s = SizesOf(kind, recs)
    PROVE  \A p \in 1 .. Len(P) :
              /\ Before(Sheets(kind, P, from), p) \in 0 .. Len(recs)
              /\ Before(Sheets(kind, P, from), p) + Len(P[p].data) \in 0 .. Len(recs)
              /\ PageOffset(kind, P, from, p) = from + Upto(s, Before(Sheets(kind, P, from), p))
              /\ PageOffset(kind, P, from, p) + BytesOf(kind, P[p].data)
                    = from + Upto(s, Before(Sheets(kind, P, from), p) + Len(P[p].data))
<1> DEFINE L == Sheets(kind, P, from)
           N == Len(P)
           R == Len(recs)
           A == RecordSet(kind)
           b(p) == Before(L, p)
           O(p) == PageOffset(kind, P, from, p)
           Z(p) == BytesOf(kind, P[p].data)
<1>1. /\ N \in Nat
      /\ \A p \in 1 .. N : /\ L[p] \in Seq(A) /\ Len(L[p]) = Len(P[p].data) /\ Len(P[p].data) \in Nat
                           /\ \A m \in 1 .. Len(P[p].data) : IsPatched(kind, P, from, p, m, L[p][m])
  BY SheetsAre
<1> HIDE DEF L, N
<1>2. /\ recs \in Seq(A) /\ R = b(N + 1)
      /\ \A j \in 1 .. N : \A m \in 1 .. Len(L[j]) :
            b(j) + m \in 1 .. R /\ recs[b(j) + m] = L[j][m]
  BY DEF Flat, L, N
<1>3. R \in Nat /\ DOMAIN recs = 1 .. R
  BY <1>2, LenProperties
<1> HIDE DEF R
<1>4. s \in [1 .. R -> Nat] /\ \A x \in 1 .. R : s[x] = RecordSize(kind, recs[x])
  <2>1. s \in [1 .. R -> Nat \ {0}]
    BY <1>2, BytesAre DEF R
  <2> QED
    BY <1>3, <2>1 DEF SizesOf
<1>5. /\ b(1) = 0 /\ \A j \in 1 .. N + 1 : b(j) \in Nat
      /\ \A j \in 1 .. N : b(j + 1) = b(j) + Len(L[j])
  BY <1>1, BeforeNext
<1>6. ASSUME NEW j \in 1 .. N PROVE b(j) + Len(L[j]) <= b(N + 1)
  <2> DEFINE T == {k \in Nat : j + k <= N => b(j) + Len(L[j]) <= b(j + 1 + k)}
  <2>1. 0 \in T
    <3>1. b(j + 1) = b(j) + Len(L[j]) /\ b(j) \in Nat /\ Len(L[j]) \in Nat
      BY <1>1, <1>5
    <3> QED
      BY <3>1
  <2>2. ASSUME NEW k \in 1 .. N - j, k - 1 \in T PROVE k \in T
    <3> DEFINE i == j + k
    <3>1. i \in 1 .. N /\ j + 1 + (k - 1) = i /\ j + (k - 1) <= N /\ j + 1 + k = i + 1 /\ k \in Nat
      BY <1>1
    <3>2. b(j) + Len(L[j]) <= b(i)
      BY <2>2, <3>1
    <3> HIDE DEF i
    <3>3. b(i + 1) = b(i) + Len(L[i]) /\ b(i) \in Nat /\ Len(L[i]) \in Nat
          /\ b(j) \in Nat /\ Len(L[j]) \in Nat
      BY <1>1, <1>5, <3>1
    <3>4. b(j) + Len(L[j]) <= b(i + 1)
      <4> HIDE DEF b
      <4> QED
        BY <3>2, <3>3
    <3> QED
      BY <3>1, <3>4
  <2> HIDE DEF T
  <2>3. N - j \in Nat /\ N - j \in 0 .. N - j /\ j + (N - j) <= N /\ j + 1 + (N - j) = N + 1
    BY <1>1
  <2>4. \A k \in 0 .. N - j : k \in T
    BY <2>2, <2>1, <2>3, Climb
  <2>5. N - j \in T
    BY <2>3, <2>4
  <2> QED
    BY <2>3, <2>5 DEF T
<1>7. \A j \in 1 .. N : b(j) \in 0 .. R /\ b(j) + Len(P[j].data) \in 0 .. R
  <2>1. \A j \in 1 .. N : Len(L[j]) \in Nat /\ Len(L[j]) = Len(P[j].data)
    BY <1>1
  <2>2. \A j \in 1 .. N : b(j) \in Nat /\ b(j) + Len(L[j]) <= R
    BY <1>1, <1>2, <1>5, <1>6
  <2>3. R \in Nat
    BY <1>3
  <2> HIDE DEF b, R
  <2>4. ASSUME NEW j \in 1 .. N
        PROVE  b(j) \in 0 .. R /\ b(j) + Len(P[j].data) \in 0 .. R
    <3> DEFINE x == Len(L[j])
               y == Len(P[j].data)
               z == b(j)
    <3>1. x \in Nat /\ x = y
      BY <2>1
    <3>2. z \in Nat /\ z + x <= R
      BY <2>2
    <3> HIDE DEF x, y, z
    <3>3. z \in 0 .. R /\ z + y \in 0 .. R
      BY <2>3, <3>1, <3>2
    <3> QED
      BY <3>3 DEF y, z
  <2> QED
    BY <2>4
<1>8. ASSUME NEW p \in 1 .. N
      PROVE  Upto(s, b(p) + Len(P[p].data)) = Upto(s, b(p)) + Z(p)
  <2> DEFINE n == Len(P[p].data)
             a == b(p)
             z == SizesOf(kind, P[p].data)
             e == a + n
             r == [i \in 1 .. e - a |-> s[a + i]]
  <2>1. a \in 0 .. R /\ a + n \in a .. R /\ n \in Nat
    <3>1. a \in 0 .. R /\ a + n \in 0 .. R /\ n \in Nat
      BY <1>1, <1>7
    <3> HIDE DEF a, n
    <3> QED
      BY <1>3, <3>1
  <2>2. P[p].data \in Seq(A)
    <3>1. P[p] \in PageSet(kind)
      BY ElementOfSeq DEF N
    <3> QED
      BY <3>1 DEF PageSet
  <2>3. Z(p) = SumOf(z) /\ z \in [1 .. n -> Nat \ {0}]
    BY <2>2, BytesAre
  <2>4. DOMAIN P[p].data = 1 .. n
    BY <2>2, LenProperties
  <2>5. \A i \in 1 .. n : z[i] = RecordSize(kind, P[p].data[i])
    BY <2>4 DEF SizesOf
  <2>6. ASSUME NEW i \in 1 .. n PROVE s[a + i] = z[i]
    <3>1. a + i \in 1 .. R /\ recs[a + i] = L[p][i]
      BY <1>1, <1>2
    <3>2. RecordSize(kind, L[p][i]) = RecordSize(kind, P[p].data[i])
      BY <1>1 DEF IsPatched
    <3> HIDE DEF z, a
    <3> QED
      BY <1>4, <2>5, <3>1, <3>2
  <2>7. Upto(s, a + n) = Upto(s, a) + SumOf(r)
    <3> HIDE DEF a, n
    <3>1. a \in 0 .. R /\ e \in a .. R
      BY <2>1
    <3> HIDE DEF e
    <3>2. Upto(s, e) = Upto(s, a) + SumOf([i \in 1 .. e - a |-> s[a + i]])
      BY <1>3, <1>4, <3>1, UptoIs
    <3>3. Upto(s, e) = Upto(s, a) + SumOf(r)
      BY <3>2
    <3> HIDE DEF r
    <3> QED
      BY <3>3 DEF e
  <2>8. r = z
    <3> HIDE DEF a, n, z
    <3>1. e - a = n
      BY <1>3, <2>1
    <3>2. r = [i \in 1 .. n |-> z[i]]
      BY <2>6, <3>1
    <3> QED
      BY <2>3, <3>2
  <2> QED
    BY <2>3, <2>7, <2>8
<1> DEFINE T == {k \in Nat : k + 1 <= N + 1 => O(k + 1) = from + Upto(s, b(k + 1))}
<1>9. 0 \in T
  <2>1. O(1) = from + SumOf([m \in 1 .. 0 |-> 0])
    <3>1. [m \in 1 .. 1 - 1 |-> BytesOf(kind, P[m].data)] = [m \in 1 .. 0 |-> 0]
      OBVIOUS
    <3> QED
      BY <3>1 DEF PageOffset
  <2>2. Upto(s, 0) = SumOf([m \in 1 .. 0 |-> 0])
    <3>1. [m \in 1 .. 0 |-> s[m]] = [m \in 1 .. 0 |-> 0]
      OBVIOUS
    <3> QED
      BY <3>1 DEF Upto
  <2> QED
    BY <1>5, <2>1, <2>2
<1>10. ASSUME NEW k \in 1 .. N, k - 1 \in T PROVE k \in T
  <2>1. O(k) = from + Upto(s, b(k))
    <3>1. (k - 1) + 1 = k /\ k <= N + 1
      BY <1>1
    <3> QED
      BY <1>10, <3>1
  <2>2. O(k + 1) = O(k) + Z(k)
    <3> DEFINE i == k - 1
               f == [m \in 1 .. i + 1 |-> Z(m)]
    <3>1. i \in Nat /\ i + 1 = k
      BY <1>1
    <3>2. \A m \in 1 .. N : Z(m) \in Nat
      <4>1. ASSUME NEW m \in 1 .. N PROVE Z(m) \in Nat
        <5>1. P[m] \in PageSet(kind)
          BY ElementOfSeq DEF N
        <5>2. P[m].data \in Seq(RecordSet(kind))
          BY <5>1 DEF PageSet
        <5> QED
          BY <5>2, BytesAre
      <4> QED
        BY <4>1
    <3>3. f \in [1 .. i + 1 -> Nat] /\ f[i + 1] = Z(k)
      <4> HIDE DEF Z
      <4> QED
        BY <1>1, <3>1, <3>2
    <3>4. O(k + 1) = from + SumOf(f)
      <4>1. (k + 1) - 1 = i + 1
        BY <3>1
      <4> QED
        BY <4>1 DEF PageOffset
    <3>5. O(k) = from + SumOf([m \in 1 .. i |-> f[m]])
      <4>1. [m \in 1 .. k - 1 |-> BytesOf(kind, P[m].data)] = [m \in 1 .. i |-> f[m]]
        BY <3>1
      <4> QED
        BY <4>1 DEF PageOffset
    <3> DEFINE g == [m \in 1 .. i |-> f[m]]
    <3>6. g \in [1 .. i -> Nat]
      BY <3>1, <3>3
    <3> HIDE DEF f, i
    <3>7. SumOf(f) = SumOf(g) + f[i + 1]
      BY <3>1, <3>3, SumNext
    <3> HIDE DEF g
    <3>8. SumOf(g) \in Nat
      BY <3>1, <3>6, FunctionIsList, SumIsNat
    <3>9. O(k) = from + SumOf(g)
      BY <3>5 DEF g
    <3>10. Z(k) \in Nat
      BY <3>2
    <3> HIDE DEF O, Z
    <3> QED
      BY <3>3, <3>4, <3>7, <3>8, <3>9, <3>10
  <2>3. b(k + 1) = b(k) + Len(P[k].data)
    BY <1>1, <1>5
  <2>4. Upto(s, b(k + 1)) = Upto(s, b(k)) + Z(k)
    BY <1>8, <2>3
  <2>5. Upto(s, b(k)) \in Nat /\ Upto(s, b(k + 1)) \in Nat
    <3>1. b(k) \in 0 .. R /\ b(k + 1) \in 0 .. R
      BY <1>7, <2>3
    <3> QED
      BY <1>3, <1>4, <3>1, UptoIs
  <2>6. Z(k) \in Nat
    <3>1. P[k] \in PageSet(kind)
      BY ElementOfSeq DEF N
    <3>2. P[k].data \in Seq(RecordSet(kind))
      BY <3>1 DEF PageSet
    <3> QED
      BY <3>2, BytesAre
  <2> HIDE DEF O, Z, b
  <2>7. O(k + 1) = from + Upto(s, b(k + 1))
    BY <2>1, <2>2, <2>4, <2>5, <2>6
  <2> QED
    BY <1>1, <2>7
<1> HIDE DEF T
<1>11. \A k \in 0 .. N : k \in T
  BY <1>1, <1>9, <1>10, Climb
<1>12. \A p \in 1 .. N : O(p) = from + Upto(s, b(p))
  <2>1. ASSUME NEW p \in 1 .. N PROVE O(p) = from + Upto(s, b(p))
    <3> DEFINE k == p - 1
    <3>1. k \in 0 .. N /\ k + 1 = p /\ k + 1 <= N + 1
      BY <1>1
    <3> HIDE DEF k
    <3>2. k \in T
      BY <1>11, <3>1
    <3>3. O(k + 1) = from + Upto(s, b(k + 1))
      BY <3>1, <3>2 DEF T
    <3> QED
      BY <3>1, <3>3
  <2> QED
    BY <2>1
<1>13. ASSUME NEW p \in 1 .. N
       PROVE  O(p) + Z(p) = from + Upto(s, b(p) + Len(P[p].data))
  <2>1. Upto(s, b(p)) \in Nat
    BY <1>3, <1>4, <1>7, UptoIs
  <2>2. Z(p) \in Nat
    <3>1. P[p] \in PageSet(kind)
      BY ElementOfSeq DEF N
    <3>2. P[p].data \in Seq(RecordSet(kind))
      BY <3>1 DEF PageSet
    <3> QED
      BY <3>2, BytesAre
  <2>3. O(p) = from + Upto(s, b(p)) /\ Upto(s, b(p) + Len(P[p].data)) = Upto(s, b(p)) + Z(p)
    BY <1>8, <1>12
  <2> HIDE DEF O, Z, b
  <2> QED
    BY <2>1, <2>2, <2>3
<1> QED
  BY <1>7, <1>12, <1>13 DEF L, N, R

LEMMA LaidOut ==
    ASSUME NEW kind \in Kinds, NEW P \in Seq(PageSet(kind)), AllLinked(kind, P), NEW from \in Nat,
           Len(P) # 0, \A p \in 1 .. Len(P) : Len(P[p].data) # 0
    PROVE  Laid(kind, P, from, PagePayload(kind, P, from))
<1> DEFINE L == Sheets(kind, P, from)
           N == Len(P)
           pl == PagePayload(kind, P, from)
           recs == Concat(L)
           R == Len(recs)
           A == RecordSet(kind)
           s == SizesOf(kind, recs)
           b(p) == Before(L, p)
<1>1. /\ Len(L) = N /\ N \in Nat
      /\ \A p \in 1 .. N : /\ L[p] \in Seq(A) /\ Len(L[p]) = Len(P[p].data) /\ Len(P[p].data) \in Nat
                           /\ \A m \in 1 .. Len(P[p].data) : IsPatched(kind, P, from, p, m, L[p][m])
  BY SheetsAre
<1>2. /\ pl.records = recs /\ pl.start = from
      /\ <<pl.rootOffset, pl.rootSize>> = RangeOf(kind, P, from, 1)
  BY DEF PagePayload, RangeOf, Sheets
<1> HIDE DEF recs, pl
<1>3. Flat(recs, L, N, A)
  <2> HIDE DEF L, N, A
  <2> QED
    BY <1>1, ConcatIs DEF recs
<1>4. \A p \in 1 .. N : NumberOf(kind, P, from, p, 0) = b(p) + 0
  BY DEF NumberOf
<1>5. ASSUME NEW p, NEW m PROVE NumberOf(kind, P, from, p, m) = b(p) + m
  BY DEF NumberOf
<1>6. \A p \in 1 .. N :
        /\ b(p) \in 0 .. R /\ b(p) + Len(P[p].data) \in 0 .. R
        /\ PageOffset(kind, P, from, p) = from + Upto(s, b(p))
        /\ PageOffset(kind, P, from, p) + BytesOf(kind, P[p].data)
              = from + Upto(s, b(p) + Len(P[p].data))
  BY <1>3, OffsetsAgree
<1> HIDE DEF L, N
<1>7. /\ recs \in Seq(A) /\ R = b(N + 1)
      /\ \A j \in 1 .. N : \A m \in 1 .. Len(L[j]) : b(j) + m \in 1 .. R /\ recs[b(j) + m] = L[j][m]
      /\ \A x \in 1 .. R : \E j \in 1 .. N : \E m \in 1 .. Len(L[j]) : x = b(j) + m
  BY <1>3 DEF Flat
<1>8. R \in Nat /\ DOMAIN recs = 1 .. R
  BY <1>7, LenProperties
<1> HIDE DEF R
<1>9. s \in [1 .. R -> Nat \ {0}] /\ \A x \in 1 .. R : s[x] = RecordSize(kind, recs[x])
  <2>1. s \in [1 .. R -> Nat \ {0}]
    BY <1>7, BytesAre DEF R
  <2> QED
    BY <1>8, <2>1 DEF SizesOf
<1> HIDE DEF s
<1>10. /\ b(1) = 0 /\ \A j \in 1 .. N + 1 : b(j) \in Nat
       /\ \A j \in 1 .. N : b(j + 1) = b(j) + Len(L[j])
  BY <1>1, BeforeNext
<1>11. N <= R
  <2> DEFINE T == {k \in Nat : k <= N => k <= b(k + 1)}
  <2>1. 0 \in T
    BY <1>10
  <2>2. ASSUME NEW k \in 1 .. N, k - 1 \in T PROVE k \in T
    <3>1. k - 1 <= b(k) /\ k \in Nat
      <4>1. (k - 1) + 1 = k /\ k - 1 <= N /\ k \in Nat
        BY <1>1
      <4> QED
        BY <2>2, <4>1
    <3>2. b(k + 1) = b(k) + Len(L[k]) /\ b(k) \in Nat
      BY <1>1, <1>10
    <3>3. Len(L[k]) \in Nat /\ Len(L[k]) # 0
      BY <1>1 DEF N
    <3>4. k <= b(k + 1)
      <4> HIDE DEF b
      <4> QED
        BY <3>1, <3>2, <3>3
    <3> QED
      BY <3>1, <3>4
  <2> HIDE DEF T
  <2>3. \A k \in 0 .. N : k \in T
    BY <1>1, <2>1, <2>2, Climb
  <2>4. N \in T
    BY <1>1, <2>3
  <2> QED
    BY <1>1, <1>7, <2>4 DEF T
<1>12. ASSUME NEW p \in 1 .. N, NEW m \in 1 .. Len(P[p].data)
       PROVE  b(p) + m \in 1 .. R /\ IsPatched(kind, P, from, p, m, recs[b(p) + m])
  BY <1>1, <1>7
<1>13. ASSUME NEW x \in 1 .. R
       PROVE  \E p \in 1 .. N : \E m \in 1 .. Len(P[p].data) : x = b(p) + m
  <2>1. PICK p \in 1 .. N : \E m \in 1 .. Len(L[p]) : x = b(p) + m
    BY <1>7
  <2>2. PICK m \in 1 .. Len(L[p]) : x = b(p) + m
    BY <2>1
  <2>3. m \in 1 .. Len(P[p].data)
    BY <1>1
  <2> QED
    BY <2>2, <2>3
<1>14. ASSUME NEW p \in 1 .. N, NEW r \in 1 .. N,
              NEW m \in 1 .. Len(P[p].data), NEW k \in 1 .. Len(P[r].data), b(p) + m = b(r) + k
       PROVE  p = r /\ m = k
  <2>1. m \in 1 .. Len(L[p]) /\ k \in 1 .. Len(L[r]) /\ \A j \in 1 .. N : Len(L[j]) \in Nat
    BY <1>1
  <2>2. \A i, j \in 1 .. N : \A x \in 1 .. Len(L[i]), y \in 1 .. Len(L[j]) :
           Before(L, i) + x = Before(L, j) + y => i = j /\ x = y
    BY <1>1, <2>1, PlacesApart
  <2> QED
    BY <1>14, <2>1, <2>2
<1>15. ASSUME NEW p \in 1 .. N
       PROVE  RecordsIn(kind, pl, RangeOf(kind, P, from, p)) = {b(p) + m : m \in 1 .. Len(P[p].data)}
  <2> DEFINE n == Len(P[p].data)
             a == b(p)
             e == a + n
             g == RangeOf(kind, P, from, p)
             H == RecordsIn(kind, pl, g)
  <2>1. g[1] = from + Upto(s, a) /\ g[1] + g[2] = from + Upto(s, e)
    BY <1>6 DEF RangeOf
  <2>2. a \in 0 .. R /\ e \in 0 .. R /\ n \in Nat
    BY <1>1, <1>6
  <2>3. e \in a .. R
    <3> HIDE DEF a, n
    <3> QED
      BY <1>8, <2>2
  <2>4. H = {x \in 1 .. R : /\ g[1] <= RecordOffset(kind, pl, x)
                            /\ RecordOffset(kind, pl, x) + RecordSize(kind, pl.records[x]) <= g[1] + g[2]}
    BY <1>2, <1>8 DEF RecordsIn
  <2> HIDE DEF g, H
  <2>5. ASSUME NEW x \in 1 .. R
        PROVE  RecordOffset(kind, pl, x) = from + Upto(s, x - 1) /\ RecordSize(kind, pl.records[x]) = s[x]
    <3>1. [m \in 1 .. x - 1 |-> RecordSize(kind, pl.records[m])] = [m \in 1 .. x - 1 |-> s[m]]
      <4>1. \A m \in 1 .. x - 1 : m \in 1 .. R
        BY <1>8
      <4> QED
        BY <1>2, <1>9, <4>1
    <3> QED
      BY <1>2, <1>9, <3>1 DEF RecordOffset, Upto
  <2>6. ASSUME NEW x \in 1 .. R PROVE x \in H <=> x \in a + 1 .. e
    <3>1. x \in H <=> /\ from + Upto(s, a) <= from + Upto(s, x - 1)
                      /\ from + Upto(s, x - 1) + s[x] <= from + Upto(s, e)
      BY <2>1, <2>4, <2>5
    <3> HIDE DEF a, e
    <3>2. (/\ from + Upto(s, a) <= from + Upto(s, x - 1)
           /\ from + Upto(s, x - 1) + s[x] <= from + Upto(s, e)) <=> x \in a + 1 .. e
      BY <1>8, <1>9, <2>2, <2>3, InRange
    <3> QED
      BY <3>1, <3>2
  <2>7. H = {x \in 1 .. R : x \in a + 1 .. e}
    BY <2>4, <2>6
  <2> HIDE DEF a, n
  <2>8. \A x : x \in 1 .. R /\ x \in a + 1 .. e <=> \E m \in 1 .. n : x = a + m
    <3>1. ASSUME NEW x \in 1 .. R, x \in a + 1 .. e PROVE \E m \in 1 .. n : x = a + m
      <4>1. x - a \in 1 .. n /\ x = a + (x - a)
        BY <2>2, <3>1
      <4> QED
        BY <4>1
    <3>2. ASSUME NEW m \in 1 .. n PROVE a + m \in 1 .. R /\ a + m \in a + 1 .. e
      BY <1>8, <2>2
    <3> QED
      BY <3>1, <3>2
  <2>9. H = {a + m : m \in 1 .. n}
    <3> HIDE DEF e
    <3> QED
      BY <2>7, <2>8
  <2> QED
    BY <2>9 DEF H, g, a, n
<1>16. /\ recs \in Seq(A) /\ R \in Nat /\ DOMAIN recs = 1 .. R
  BY <1>7, <1>8
<1> HIDE DEF b
<1>17. /\ pl.records \in Seq(RecordSet(kind)) /\ Len(pl.records) \in Nat
       /\ DOMAIN pl.records = 1 .. Len(pl.records) /\ Len(P) <= Len(pl.records)
  BY <1>2, <1>11, <1>16 DEF R, N
<1>18. \A p \in 1 .. Len(P) : \A m \in 1 .. Len(P[p].data) :
          /\ NumberOf(kind, P, from, p, m) \in 1 .. Len(pl.records)
          /\ IsPatched(kind, P, from, p, m, pl.records[NumberOf(kind, P, from, p, m)])
  BY <1>2, <1>5, <1>12 DEF R, N
<1>19. \A x \in 1 .. Len(pl.records) : \E p \in 1 .. Len(P) : \E m \in 1 .. Len(P[p].data) :
          x = NumberOf(kind, P, from, p, m)
  BY <1>2, <1>5, <1>13 DEF R, N
<1>20. \A p, r \in 1 .. Len(P) : \A m \in 1 .. Len(P[p].data), k \in 1 .. Len(P[r].data) :
          NumberOf(kind, P, from, p, m) = NumberOf(kind, P, from, r, k) => p = r /\ m = k
  BY <1>5, <1>14 DEF N
<1>21. \A p \in 1 .. Len(P) :
          RecordsIn(kind, pl, RangeOf(kind, P, from, p)) =
             {NumberOf(kind, P, from, p, m) : m \in 1 .. Len(P[p].data)}
  BY <1>5, <1>15 DEF N
<1>22. Laid(kind, P, from, pl)
  BY <1>2, <1>17, <1>18, <1>19, <1>20, <1>21 DEF Laid
<1> QED
  BY <1>22 DEF pl

(***************************************************************************)
(* What a reader finds                                                     *)
(***************************************************************************)
LEMMA PointersLead ==
    ASSUME NEW kind \in Kinds, NEW P \in Seq(PageSet(kind)), AllLinked(kind, P), NEW from,
           NEW payload, Laid(kind, P, from, payload),
           NEW p \in 1 .. Len(P), NEW m \in 1 .. Len(P[p].data),
           NEW x, x = NumberOf(kind, P, from, p, m), x \in Pointers(kind, payload)
    PROVE  \E q \in ToSet(P[p].patches) :
              /\ q[1] = m /\ p + q[2] \in 1 .. Len(P)
              /\ <<payload.records[x].offset, payload.records[x].byteSize>>
                    = RangeOf(kind, P, from, p + q[2])
<1> DEFINE r == payload.records[x]
<1>1. IsPatched(kind, P, from, p, m, r) /\ IsPointer(kind, r)
  BY DEF Laid, Pointers
<1> HIDE DEF r
<1>2. PICK q \in ToSet(P[p].patches) : q[1] = m
  BY <1>1 DEF IsPatched
<1>3. <<r.offset, r.byteSize>> = RangeOf(kind, P, from, p + q[2])
  BY <1>1, <1>2 DEF IsPatched
<1>4. q[2] \in Nat \ {0} /\ q[2] <= Len(P) - p
  BY <1>2 DEF AllLinked, Linked
<1>5. Len(P) \in Nat
  BY LenProperties
<1>6. p + q[2] \in 1 .. Len(P)
  BY <1>4, <1>5
<1> QED
  BY <1>2, <1>3, <1>6 DEF r

\* One step further from the byte ranges X.
Onward(kind, payload, followed, X) ==
    UNION {{<<payload.records[n].offset, payload.records[n].byteSize>> :
               n \in RecordsIn(kind, payload, page) \cap followed} : page \in X}

\* The pages in T are reached, and with each those that its followed pointers
\* mean; only pages are reached.
Reaches(kind, P, from, payload, followed, T) ==
    /\ T \in SUBSET Nat /\ 1 \in T
    /\ \A p \in T : p \in 1 .. Len(P) =>
          \A q \in ToSet(P[p].patches) : NumberOf(kind, P, from, p, q[1]) \in followed => p + q[2] \in T
    /\ \A p \in T : p \in 1 .. Len(P) =>
          RangeOf(kind, P, from, p) \in PagesReached(kind, payload, followed)
    /\ \A page \in PagesReached(kind, payload, followed) :
          \E p \in 1 .. Len(P) : page = RangeOf(kind, P, from, p)

LEMMA PagesAreReached ==
    ASSUME NEW kind \in Kinds, NEW P \in Seq(PageSet(kind)), Len(P) # 0, AllLinked(kind, P), NEW from,
           NEW payload, Laid(kind, P, from, payload),
           NEW followed, followed \subseteq Pointers(kind, payload)
    PROVE  \E T : Reaches(kind, P, from, payload, followed, T)
<1> DEFINE N == Len(P)
           recs == payload.records
           R == Len(recs)
           range(p) == RangeOf(kind, P, from, p)
           num(p, m) == NumberOf(kind, P, from, p, m)
           In(page) == RecordsIn(kind, payload, page)
           to(n) == <<recs[n].offset, recs[n].byteSize>>
           A == SUBSET {range(p) : p \in 1 .. N}
           root == <<payload.rootOffset, payload.rootSize>>
           next(X) == Onward(kind, payload, followed, X)
           F(u) == [d \in 0 .. R |-> IF d = 0 THEN {root}
                                     ELSE UNION {{to(n) : n \in In(page) \cap followed} :
                                                    page \in u[d - 1]}]
           U == CHOOSE u : u = F(u)
<1>1. /\ N \in Nat \ {0} /\ R \in Nat /\ N <= R /\ root = range(1)
      /\ \A p \in 1 .. N : In(range(p)) = {num(p, m) : m \in 1 .. Len(P[p].data)}
  BY LenProperties DEF Laid
<1>2. PagesReached(kind, payload, followed) = UNION {U[d] : d \in 0 .. R}
  BY DEF PagesReached
<1>3. ASSUME NEW p \in 1 .. N, NEW n \in In(range(p)) \cap followed
      PROVE  \E q \in ToSet(P[p].patches) :
                n = num(p, q[1]) /\ p + q[2] \in 1 .. N /\ to(n) = range(p + q[2])
  <2>1. PICK m \in 1 .. Len(P[p].data) : n = num(p, m)
    BY <1>1
  <2>2. n \in Pointers(kind, payload)
    OBVIOUS
  <2>3. \E q \in ToSet(P[p].patches) :
           /\ q[1] = m /\ p + q[2] \in 1 .. Len(P)
           /\ <<payload.records[n].offset, payload.records[n].byteSize>>
                 = RangeOf(kind, P, from, p + q[2])
    BY <2>1, <2>2, PointersLead
  <2> QED
    BY <2>1, <2>3
<1>4. ASSUME NEW X \in A PROVE next(X) \in A
  <2>1. ASSUME NEW pg \in X, NEW n \in In(pg) \cap followed
        PROVE  \E p \in 1 .. N : to(n) = range(p)
    <3>1. PICK p \in 1 .. N : pg = range(p)
      OBVIOUS
    <3> HIDE DEF N, range, In, to, num
    <3>2. PICK q \in ToSet(P[p].patches) : p + q[2] \in 1 .. N /\ to(n) = range(p + q[2])
      BY <1>3, <3>1
    <3> QED
      BY <3>2
  <2>2. next(X) = UNION {{to(n) : n \in In(pg) \cap followed} : pg \in X}
    BY DEF Onward
  <2> HIDE DEF N, range, In, to, next
  <2> QED
    BY <2>1, <2>2
<1>5. {root} \in A
  BY <1>1
<1>6. ASSUME NEW X PROVE next(X) = UNION {{to(n) : n \in In(page) \cap followed} : page \in X}
  BY DEF Onward
<1> HIDE DEF U, next, to, In, root, R, recs, num
<1> DEFINE step == [d \in 1 .. R |-> [X \in A |-> next(X)]]
<1>7. \E u : u = F(u)
  <2> HIDE DEF A
  <2>1. step \in [1 .. R -> [A -> A]]
    BY <1>4
  <2>2. \A d \in 1 .. R : \A X \in A : step[d][X] = next(X)
    OBVIOUS
  <2> HIDE DEF step
  <2> DEFINE z == {root}
  <2>3. z \in A
    BY <1>5
  <2> HIDE DEF z
  <2>4. Steps(R, A, z, step)
    BY <1>1, <2>1, <2>3, FoldExists
  <2>5. PICK u \in [0 .. R -> A] : u[0] = z /\ \A d \in 1 .. R : u[d] = step[d][u[d - 1]]
    BY <2>4 DEF Steps
  <2>6. ASSUME NEW d \in 1 .. R
        PROVE  u[d] = UNION {{to(n) : n \in In(page) \cap followed} : page \in u[d - 1]}
    <3>1. d - 1 \in 0 .. R
      BY <1>1
    <3>2. u[d - 1] \in A
      BY <2>5, <3>1
    <3>3. u[d] = next(u[d - 1])
      BY <2>2, <2>5, <3>2
    <3> QED
      BY <1>6, <3>3
  <2>7. \A d \in 0 .. R : d # 0 => d \in 1 .. R
    BY <1>1
  <2>8. u = F(u)
    BY <2>5, <2>6, <2>7 DEF z
  <2> QED
    BY <2>8
<1>8. U = F(U)
  BY <1>7 DEF U
<1>9. U[0] = {root} /\ \A d \in 1 .. R : U[d] = next(U[d - 1])
  <2>1. 0 \in 0 .. R /\ \A d \in 1 .. R : d \in 0 .. R /\ d # 0
    BY <1>1
  <2>2. U[0] = {root}
    BY <1>8, <2>1
  <2>3. ASSUME NEW d \in 1 .. R PROVE U[d] = next(U[d - 1])
    <3>1. U[d] = UNION {{to(n) : n \in In(page) \cap followed} : page \in U[d - 1]}
      BY <1>8, <2>1
    <3> QED
      BY <1>6, <3>1
  <2> QED
    BY <2>2, <2>3
<1>10. \A d \in 0 .. R : U[d] \in A
  <2> DEFINE G == {d \in Nat : U[d] \in A}
  <2> HIDE DEF A
  <2>1. 0 \in G
    BY <1>5, <1>9
  <2>2. \A d \in 1 .. R : d - 1 \in G => d \in G
    BY <1>1, <1>4, <1>9
  <2> HIDE DEF G
  <2>3. \A d \in 0 .. R : d \in G
    BY <1>1, <2>1, <2>2, Climb
  <2> QED
    BY <2>3 DEF G
<1> DEFINE T == {p \in 1 .. N : \E d \in 0 .. p - 1 : range(p) \in U[d]}
<1>11. 1 \in T
  BY <1>1, <1>9
<1>12. ASSUME NEW p \in T, NEW q \in ToSet(P[p].patches), num(p, q[1]) \in followed
       PROVE  p + q[2] \in T
  <2>1. p \in 1 .. N
    OBVIOUS
  <2>2. PICK d \in 0 .. p - 1 : range(p) \in U[d]
    OBVIOUS
  <2> HIDE DEF T
  <2> DEFINE n == num(p, q[1])
  <2>3. Linked(kind, P[p], N - p)
    BY <2>1 DEF AllLinked
  <2>4. q[1] \in 1 .. Len(P[p].data) /\ q[2] \in Nat \ {0} /\ q[2] <= N - p
    BY <2>3 DEF Linked
  <2>5. n \in In(range(p)) \cap followed
    BY <1>1, <1>12, <2>1, <2>4
  <2>6. to(n) = range(p + q[2])
    <3>1. PICK r \in ToSet(P[p].patches) :
                n = num(p, r[1]) /\ p + r[2] \in 1 .. N /\ to(n) = range(p + r[2])
      BY <1>3, <2>1, <2>5
    <3>2. r[1] \in 1 .. Len(P[p].data)
      BY <2>3 DEF Linked
    <3>3. q[1] = r[1]
      BY <2>1, <2>4, <3>1, <3>2 DEF Laid, num
    <3>4. q = r
      BY <2>3, <3>3 DEF Linked
    <3> QED
      BY <3>1, <3>4
  <2> HIDE DEF n
  <2> DEFINE e == d + 1
             k == p + q[2]
  <2>7. e \in 1 .. R /\ e - 1 = d /\ k \in 1 .. N /\ e \in 0 .. k - 1
    BY <1>1, <2>1, <2>4
  <2> HIDE DEF e, k
  <2>8. range(k) \in U[e]
    <3>1. U[e] = next(U[d])
      BY <1>9, <2>7
    <3>2. U[e] = UNION {{to(i) : i \in In(page) \cap followed} : page \in U[d]}
      BY <1>6, <3>1
    <3>3. to(n) \in U[e]
      <4> HIDE DEF range
      <4> QED
        BY <2>2, <2>5, <3>2
    <3> QED
      BY <2>6, <3>3 DEF k
  <2> QED
    BY <2>7, <2>8 DEF T, k
<1>13. ASSUME NEW p \in T PROVE range(p) \in PagesReached(kind, payload, followed)
  <2>1. PICK d \in 0 .. p - 1 : range(p) \in U[d]
    OBVIOUS
  <2>2. d \in 0 .. R
    BY <1>1
  <2> HIDE DEF range, T
  <2> QED
    BY <1>2, <2>1, <2>2 DEF R, recs
<1>14. \A page \in PagesReached(kind, payload, followed) : \E p \in 1 .. N : page = range(p)
  <2>1. \A d \in 0 .. R : \A page \in U[d] : \E p \in 1 .. N : page = range(p)
    BY <1>10
  <2> HIDE DEF range
  <2> QED
    BY <1>2, <2>1 DEF R, recs
<1>15. T \in SUBSET Nat
  BY <1>1
<1> HIDE DEF T
<1>16. Reaches(kind, P, from, payload, followed, T)
  BY <1>11, <1>12, <1>13, <1>14, <1>15 DEF Reaches, num
<1> QED
  BY <1>16

\* The pages P of the entries E, laid out as the payload.
Filed(kind, E, P, from, payload) ==
    /\ Good(kind, E, 1 .. Len(E), P)
    /\ Laid(kind, P, from, payload)

LEMMA RecordIs ==
    ASSUME NEW kind \in Kinds, NEW E, NEW P, NEW from, NEW payload,
           Filed(kind, E, P, from, payload), NEW p \in 1 .. Len(P), NEW m \in 1 .. Len(P[p].data)
    PROVE  /\ NumberOf(kind, P, from, p, m) \in DOMAIN payload.records
           /\ IsPatched(kind, P, from, p, m, payload.records[NumberOf(kind, P, from, p, m)])
BY DEF Filed, Laid

\* An entry is not a pointer, and neither is its record.
LEMMA EntriesStay ==
    ASSUME NEW kind \in Kinds, NEW E, EntryList(kind, E), NEW n \in 1 .. Len(E)
    PROVE  E[n] \in EntrySet(kind) /\ E[n] \in RecordSet(kind) /\ ~IsPointer(kind, E[n])
<1>1. E \in Seq(EntrySet(kind))
  BY DEF EntryList
<1>2. E[n] \in EntrySet(kind)
  BY <1>1, ElementOfSeq
<1>3. E[n] \in RecordSet(kind)
  BY <1>2 DEF RecordSet
<1> QED
  BY <1>2, <1>3, RecordsAre

\* One comes to the record of the entry e.
Reached(kind, payload, followed, e) ==
    \E y \in UNION {RecordsIn(kind, payload, pg) : pg \in PagesReached(kind, payload, followed)} :
        payload.records[y] = e

\* Following all pointers that lead to an entry one comes to its record.
LEMMA EntryReached ==
    ASSUME NEW kind \in Kinds, NEW E, EntryList(kind, E), NEW n \in 1 .. Len(E),
           NEW P, NEW from, NEW payload, Filed(kind, E, P, from, payload),
           NEW followed, followed \subseteq Pointers(kind, payload),
           \A x \in Pointers(kind, payload) : Leads(kind, payload.records[x], E[n]) => x \in followed
    PROVE  Reached(kind, payload, followed, E[n])
<1>1. /\ P \in Seq(PageSet(kind)) /\ Len(P) \in Nat \ {0} /\ AllLinked(kind, P)
      /\ Found(kind, E, 1 .. Len(E), P) /\ Laid(kind, P, from, payload)
  BY DEF Filed, Good
<1>2. PICK T : Reaches(kind, P, from, payload, followed, T)
  BY <1>1, PagesAreReached
<1>3. /\ T \in SUBSET Nat /\ 1 \in T
      /\ \A p \in T : p \in 1 .. Len(P) =>
            \A q \in ToSet(P[p].patches) : NumberOf(kind, P, from, p, q[1]) \in followed => p + q[2] \in T
      /\ \A p \in T : p \in 1 .. Len(P) =>
            RangeOf(kind, P, from, p) \in PagesReached(kind, payload, followed)
  BY <1>2 DEF Reaches
<1>4. ASSUME NEW p \in T, p \in 1 .. Len(P), NEW q \in ToSet(P[p].patches),
             Leads(kind, P[p].data[q[1]], E[n])
      PROVE  p + q[2] \in T
  <2> DEFINE m == q[1]
             x == NumberOf(kind, P, from, p, m)
             r == payload.records[x]
             d == P[p].data[m]
  <2>1. m \in 1 .. Len(P[p].data) /\ IsPointer(kind, d)
    BY <1>1, <1>4 DEF AllLinked, Linked
  <2>2. x \in DOMAIN payload.records /\ IsPatched(kind, P, from, p, m, r)
    BY <1>4, <2>1, RecordIs
  <2> HIDE DEF x, m
  <2>3. r.key = d.key /\ IsPointer(kind, r) /\ (kind = "time" => r.range = d.range)
    BY <2>1, <2>2 DEF IsPatched
  <2>4. x \in Pointers(kind, payload)
    BY <2>2, <2>3 DEF Pointers
  <2>5. Leads(kind, d, E[n])
    BY <1>4 DEF m
  <2> HIDE DEF r, d
  <2>6. Leads(kind, r, E[n])
    <3>1. CASE kind = "node"
      BY <2>3, <2>5, <3>1 DEF Leads
    <3>2. CASE kind = "time"
      BY <2>3, <2>5, <3>2 DEF Leads
    <3> QED
      BY <3>1, <3>2 DEF Kinds
  <2>7. x \in followed
    BY <2>4, <2>6 DEF r
  <2> QED
    BY <1>3, <1>4, <2>7 DEF x, m
<1>5. Follows(kind, T, P, E[n])
  BY <1>4 DEF Follows
<1>6. PICK p \in 1 .. Len(P) : p \in T /\ \E m \in 1 .. Len(P[p].data) : P[p].data[m] = E[n]
  BY <1>1, <1>3, <1>5 DEF Found
<1>7. PICK m \in 1 .. Len(P[p].data) : P[p].data[m] = E[n]
  BY <1>6
<1> DEFINE y == NumberOf(kind, P, from, p, m)
<1>8. IsPatched(kind, P, from, p, m, payload.records[y])
  BY RecordIs
<1>9. y \in RecordsIn(kind, payload, RangeOf(kind, P, from, p))
  BY <1>1 DEF Laid
<1> HIDE DEF y
<1>10. ~IsPointer(kind, P[p].data[m])
  BY <1>7, EntriesStay
<1>11. payload.records[y] = E[n]
  BY <1>7, <1>8, <1>10 DEF IsPatched
<1>12. RangeOf(kind, P, from, p) \in PagesReached(kind, payload, followed)
  BY <1>3, <1>6
<1> QED
  BY <1>9, <1>11, <1>12 DEF Reached

\* No key has two records that are not pointers.
LEMMA EntryOnce ==
    ASSUME NEW kind \in Kinds, NEW E, EntryList(kind, E),
           NEW P, NEW from, NEW payload, Filed(kind, E, P, from, payload),
           NEW x \in DOMAIN payload.records, NEW y \in DOMAIN payload.records,
           ~IsPointer(kind, payload.records[x]), ~IsPointer(kind, payload.records[y]),
           payload.records[x].key = payload.records[y].key
    PROVE  x = y
<1>1. Holds(kind, E, 1 .. Len(E), P) /\ Once(E, 1 .. Len(E), P) /\ Laid(kind, P, from, payload)
  BY DEF Filed, Good
<1>2. DOMAIN payload.records = 1 .. Len(payload.records)
  BY <1>1 DEF Laid
<1>3. PICK p \in 1 .. Len(P) : \E m \in 1 .. Len(P[p].data) : x = NumberOf(kind, P, from, p, m)
  BY <1>1, <1>2 DEF Laid
<1>4. PICK m \in 1 .. Len(P[p].data) : x = NumberOf(kind, P, from, p, m)
  BY <1>3
<1>5. PICK r \in 1 .. Len(P) : \E k \in 1 .. Len(P[r].data) : y = NumberOf(kind, P, from, r, k)
  BY <1>1, <1>2 DEF Laid
<1>6. PICK k \in 1 .. Len(P[r].data) : y = NumberOf(kind, P, from, r, k)
  BY <1>5
<1>7. IsPatched(kind, P, from, p, m, payload.records[x]) /\ IsPatched(kind, P, from, r, k, payload.records[y])
  BY <1>4, <1>6, RecordIs
<1>8. payload.records[x] = P[p].data[m] /\ ~IsPointer(kind, P[p].data[m])
  BY <1>7 DEF IsPatched
<1>9. payload.records[y] = P[r].data[k] /\ ~IsPointer(kind, P[r].data[k])
  BY <1>7 DEF IsPatched
<1>10. PICK i \in 1 .. Len(E) : P[p].data[m] = E[i]
  BY <1>1, <1>8 DEF Holds
<1>11. PICK j \in 1 .. Len(E) : P[r].data[k] = E[j]
  BY <1>1, <1>9 DEF Holds
<1>12. E[i].key = E[j].key
  BY <1>8, <1>9, <1>10, <1>11
<1>13. i = j
  BY <1>12 DEF EntryList
<1>14. P[r].data[k] = E[i]
  BY <1>11, <1>13
<1>15. p = r /\ m = k
  BY <1>1, <1>10, <1>14 DEF Once
<1> QED
  BY <1>4, <1>6, <1>15

\* What is reached on the way to a node's entry, of that node's key.
HitsOf(payload, followed, key) ==
    {n \in UNION {RecordsIn("node", payload, pg) : pg \in PagesReached("node", payload, followed)} :
        payload.records[n].key = key /\ ~IsPointer("node", payload.records[n])}

OneHit(payload, followed, e) ==
    /\ Cardinality(HitsOf(payload, followed, e.key)) = 1
    /\ \A x \in HitsOf(payload, followed, e.key) : payload.records[x] = e

LEMMA NodeHit ==
    ASSUME NEW E, EntryList("node", E), NEW n \in 1 .. Len(E),
           NEW P, NEW from, NEW payload, Filed("node", E, P, from, payload),
           NEW followed,
           followed = {x \in Pointers("node", payload) : IsAncestor(payload.records[x].key, E[n].key)}
    PROVE  OneHit(payload, followed, E[n])
<1> DEFINE H == HitsOf(payload, followed, E[n].key)
           U == UNION {RecordsIn("node", payload, pg) : pg \in PagesReached("node", payload, followed)}
<1>0. "node" \in Kinds
  BY DEF Kinds
<1>1. \A x \in Pointers("node", payload) : Leads("node", payload.records[x], E[n]) => x \in followed
  BY DEF Leads
<1>2. followed \subseteq Pointers("node", payload)
  OBVIOUS
<1>10. Reached("node", payload, followed, E[n])
  <2> HIDE DEF U
  <2> QED
    BY <1>0, <1>1, <1>2, EntryReached
<1>3. PICK y \in U : payload.records[y] = E[n]
  BY <1>10 DEF Reached
<1>4. \A x \in U : x \in DOMAIN payload.records
  BY DEF RecordsIn
<1>5. ~IsPointer("node", E[n])
  BY <1>0, EntriesStay
<1>6. y \in H
  BY <1>3, <1>5 DEF HitsOf
<1>7. ASSUME NEW x \in H PROVE x = y
  <2>1. x \in U /\ payload.records[x].key = E[n].key /\ ~IsPointer("node", payload.records[x])
    BY <1>7 DEF HitsOf
  <2>2. x \in DOMAIN payload.records /\ y \in DOMAIN payload.records
    BY <1>3, <1>4, <2>1
  <2>3. ~IsPointer("node", payload.records[y]) /\ payload.records[x].key = payload.records[y].key
    BY <1>3, <1>5, <2>1
  <2> QED
    BY <1>0, <2>1, <2>2, <2>3, EntryOnce
<1> HIDE DEF H
<1>8. H = {y}
  BY <1>6, <1>7
<1>9. Cardinality(H) = 1
  BY <1>8, FS_Singleton
<1> QED
  BY <1>3, <1>8, <1>9 DEF H, OneHit

\* What PagesTile says of the hierarchy: no page has a key twice.
KeysOnce(kind, payload) ==
    \A pg \in AllPages(kind, payload) : \A m, n \in RecordsIn(kind, payload, pg) :
        payload.records[m].key = payload.records[n].key => m = n

LEMMA PayloadTiled ==
    ASSUME NEW kind \in Kinds, NEW E, NEW P, NEW from, NEW payload, Filed(kind, E, P, from, payload)
    PROVE  Tiles(kind, payload) /\ (kind = "node" => KeysOnce(kind, payload))
<1> DEFINE pages == AllPages(kind, payload)
           held(pg) == RecordsIn(kind, payload, pg)
           num(p, m) == NumberOf(kind, P, from, p, m)
           range(p) == RangeOf(kind, P, from, p)
           recs == payload.records
<1>1. /\ P \in Seq(PageSet(kind)) /\ Len(P) \in Nat \ {0} /\ AllLinked(kind, P)
      /\ Spanned(P) /\ (kind = "node" => KeysApart(P)) /\ Laid(kind, P, from, payload)
  BY DEF Filed, Good
<1>2. PICK T : Reaches(kind, P, from, payload, Pointers(kind, payload), T)
  BY <1>1, PagesAreReached
<1>3. /\ T \in SUBSET Nat /\ 1 \in T
      /\ \A p \in T : p \in 1 .. Len(P) =>
            \A q \in ToSet(P[p].patches) : num(p, q[1]) \in Pointers(kind, payload) => p + q[2] \in T
      /\ \A p \in T : p \in 1 .. Len(P) => range(p) \in pages
      /\ \A page \in pages : \E p \in 1 .. Len(P) : page = range(p)
  BY <1>2 DEF Reaches, AllPages
<1>4. ASSUME NEW p \in T, p \in 1 .. Len(P), NEW q \in ToSet(P[p].patches) PROVE p + q[2] \in T
  <2>1. q[1] \in 1 .. Len(P[p].data) /\ IsPointer(kind, P[p].data[q[1]])
    BY <1>1, <1>4 DEF AllLinked, Linked
  <2>2. num(p, q[1]) \in DOMAIN recs /\ IsPatched(kind, P, from, p, q[1], recs[num(p, q[1])])
    BY <1>4, <2>1, RecordIs
  <2>3. num(p, q[1]) \in Pointers(kind, payload)
    BY <2>1, <2>2 DEF IsPatched, Pointers
  <2> QED
    BY <1>3, <1>4, <2>3
<1>5. \A p \in 1 .. Len(P) : p \in T
  BY <1>1, <1>3, <1>4 DEF FollowsAll, Spanned
<1>6. /\ \A x \in DOMAIN recs : \E p \in 1 .. Len(P) : \E m \in 1 .. Len(P[p].data) : x = num(p, m)
      /\ \A p, r \in 1 .. Len(P) : \A m \in 1 .. Len(P[p].data), k \in 1 .. Len(P[r].data) :
            num(p, m) = num(r, k) => p = r /\ m = k
      /\ \A p \in 1 .. Len(P) : held(range(p)) = {num(p, m) : m \in 1 .. Len(P[p].data)}
  BY <1>1 DEF Laid
<1>7. \A p \in 1 .. Len(P) : range(p) \in pages
  BY <1>3, <1>5
<1>8. \A pg : held(pg) \subseteq DOMAIN recs
  BY DEF RecordsIn
<1>9. \A p \in 1 .. Len(P) : \A m \in 1 .. Len(P[p].data) : recs[num(p, m)].key = P[p].data[m].key
  <2>1. ASSUME NEW p \in 1 .. Len(P), NEW m \in 1 .. Len(P[p].data)
        PROVE  recs[num(p, m)].key = P[p].data[m].key
    <3>1. IsPatched(kind, P, from, p, m, recs[num(p, m)])
      BY RecordIs
    <3> QED
      BY <3>1 DEF IsPatched
  <2> QED
    BY <2>1
<1> HIDE DEF pages, held, num, range, recs
<1>10. \A x \in DOMAIN recs : \E pg \in pages : x \in held(pg)
  <2>1. ASSUME NEW x \in DOMAIN recs PROVE \E pg \in pages : x \in held(pg)
    <3>1. PICK p \in 1 .. Len(P) : \E m \in 1 .. Len(P[p].data) : x = num(p, m)
      BY <1>6
    <3>2. x \in held(range(p))
      BY <1>6, <3>1
    <3> QED
      BY <1>7, <3>2
  <2> QED
    BY <2>1
<1>11. UNION {held(pg) : pg \in pages} = DOMAIN recs
  BY <1>8, <1>10
<1>12. ASSUME NEW a \in pages, NEW b \in pages, a # b PROVE held(a) \cap held(b) = {}
  <2>1. PICK p \in 1 .. Len(P) : a = range(p)
    BY <1>3
  <2>2. PICK r \in 1 .. Len(P) : b = range(r)
    BY <1>3
  <2>3. ASSUME NEW x, x \in held(a), x \in held(b) PROVE FALSE
    <3>1. PICK m \in 1 .. Len(P[p].data) : x = num(p, m)
      BY <1>6, <2>1, <2>3
    <3>2. PICK k \in 1 .. Len(P[r].data) : x = num(r, k)
      BY <1>6, <2>2, <2>3
    <3>3. num(p, m) = num(r, k)
      BY <3>1, <3>2
    <3>4. p = r
      BY <1>6, <3>3
    <3> QED
      BY <1>12, <2>1, <2>2, <3>4
  <2> QED
    BY <2>3
<1>13. ASSUME kind = "node", NEW a \in pages, NEW x \in held(a), NEW y \in held(a), recs[x].key = recs[y].key
       PROVE  x = y
  <2>1. PICK p \in 1 .. Len(P) : a = range(p)
    BY <1>3
  <2>2. PICK m \in 1 .. Len(P[p].data) : x = num(p, m)
    BY <1>6, <1>13, <2>1
  <2>3. PICK k \in 1 .. Len(P[p].data) : y = num(p, k)
    BY <1>6, <1>13, <2>1
  <2>4. P[p].data[m].key = P[p].data[k].key
    BY <1>9, <1>13, <2>2, <2>3
  <2>5. m = k
    BY <1>1, <1>13, <2>4 DEF KeysApart
  <2> QED
    BY <2>2, <2>3, <2>5
<1> QED
  BY <1>11, <1>12, <1>13 DEF Tiles, KeysOnce, pages, held, recs

\* A reader that looks for the time t comes to the record of an entry around it.
LEMMA TimeHit ==
    ASSUME NEW E, EntryList("time", E), NEW n \in 1 .. Len(E),
           NEW P, NEW from, NEW payload, Filed("time", E, P, from, payload),
           NEW t \in Int, EndsKnown(E[n]), Head(E[n].samples) <= t, t <= Last(E[n].samples),
           NEW followed,
           followed = {x \in Pointers("time", payload) :
                          payload.records[x].range[1] <= t /\ t <= payload.records[x].range[2]}
    PROVE  Reached("time", payload, followed, E[n])
<1>0. "time" \in Kinds /\ ~("time" = "node")
  BY DEF Kinds
<1>1. E[n] \in EntrySet("time")
  BY <1>0, EntriesStay
<1> DEFINE a == Head(E[n].samples)
           b == Last(E[n].samples)
<1>2. a \in Int /\ b \in Int
  <2> DEFINE s == E[n].samples
  <2>1. s \in Seq(GpsTimes) /\ s # <<>>
    BY <1>1 DEF EntrySet
  <2> HIDE DEF s
  <2>2. Len(s) \in Nat \ {0}
    BY <2>1, LenProperties
  <2>3. s[1] \in Int /\ s[Len(s)] \in Int
    <3>1. 1 \in 1 .. Len(s) /\ Len(s) \in 1 .. Len(s)
      BY <2>2
    <3>2. s[1] \in GpsTimes /\ s[Len(s)] \in GpsTimes
      BY <2>1, <3>1, ElementOfSeq
    <3> QED
      BY <3>2, TimesAre
  <2>4. Head(s) = s[1] /\ Last(s) = s[Len(s)]
    BY <2>1, <2>2 DEF Last
  <2> QED
    BY <2>3, <2>4 DEF s
<1>3. ASSUME NEW x \in Pointers("time", payload), Leads("time", payload.records[x], E[n])
      PROVE  x \in followed
  <2> DEFINE r == payload.records[x]
             lo == r.range[1]
             hi == r.range[2]
  <2>1. payload.records \in Seq(RecordSet("time"))
    BY DEF Filed, Laid
  <2>2. x \in DOMAIN payload.records /\ IsPointer("time", r)
    BY DEF Pointers
  <2>3. r \in RecordSet("time")
    BY <2>1, <2>2, LenProperties, ElementOfSeq
  <2>4. r \in PointerSet("time")
    BY <1>0, <2>2, <2>3, RecordsAre
  <2>5. lo \in Int /\ hi \in Int
    BY <1>0, <2>4 DEF PointerSet
  <2>6. lo <= a /\ b <= hi
    BY <1>0, <1>3 DEF Leads
  <2>9. a <= t /\ t <= b
    OBVIOUS
  <2> HIDE DEF a, b, lo, hi
  <2>7. lo <= t /\ t <= hi
    BY <1>2, <2>5, <2>6, <2>9
  <2> QED
    BY <2>7 DEF lo, hi
<1>4. followed \subseteq Pointers("time", payload)
  OBVIOUS
<1> QED
  BY <1>0, <1>3, <1>4, EntryReached

\* Of a set of numbers that has a least and a greatest, the list begins and ends with these.
LEMMA ListEnds ==
    ASSUME NEW S, S \subseteq Int, IsFiniteSet(S), NEW a \in S, NEW b \in S,
           \A x \in S : a <= x /\ x <= b
    PROVE  /\ Len(InOrder(S, <)) \in Nat \ {0} /\ DOMAIN InOrder(S, <) = 1 .. Len(InOrder(S, <))
           /\ \A j \in 1 .. Len(InOrder(S, <)) : InOrder(S, <)[j] \in S
           /\ InOrder(S, <)[1] = a /\ InOrder(S, <)[Len(InOrder(S, <))] = b
<1> DEFINE e == InOrder(S, <)
           R == NumberOrder(S)
           N == Cardinality(S)
<1>1. Ordered(e, S, R)
  BY NumbersListed
<1>2. /\ e \in Seq(S) /\ Len(e) = N /\ DOMAIN e = 1 .. Len(e)
      /\ \A i \in DOMAIN e : e[i] \in S
      /\ \A x \in S : \E i \in DOMAIN e : e[i] = x
      /\ \A i \in DOMAIN e : RankOf(R, S, e[i]) = i - 1
  BY <1>1 DEF Ordered
<1>3. \A x, y \in S : x < y => <<x, y>> \in R
  BY DEF NumberOrder
<1>4. Orders(R, S)
  BY NumbersAreOrdered
<1> HIDE DEF e, R
<1>5. N \in Nat
  BY FS_CardinalityType
<1>6. \A u, v \in S : <<u, v>> \in R => RankOf(R, S, u) < RankOf(R, S, v)
  BY <1>4, Ranks
<1>7. \A i, j \in 1 .. N : e[i] < e[j] => i < j
  <2>1. ASSUME NEW i \in 1 .. N, NEW j \in 1 .. N, e[i] < e[j] PROVE i < j
    <3>1. e[i] \in S /\ e[j] \in S /\ RankOf(R, S, e[i]) = i - 1 /\ RankOf(R, S, e[j]) = j - 1
      BY <1>2
    <3>2. i - 1 < j - 1
      BY <1>3, <1>6, <2>1, <3>1
    <3> QED
      BY <3>2
  <2> QED
    BY <2>1
<1>8. PICK i \in 1 .. N : e[i] = a
  BY <1>2
<1>9. PICK j \in 1 .. N : e[j] = b
  BY <1>2
<1>10. 1 \in 1 .. N /\ N \in 1 .. N
  BY <1>5, <1>8
<1>11. e[1] \in S /\ e[N] \in S
  BY <1>2, <1>10
<1>12. e[1] = a
  <2>1. ~(e[i] < e[1])
    BY <1>7, <1>10, <1>8
  <2>2. i = 1 \/ a <= e[1]
    BY <1>11
  <2>3. e[1] \in Int /\ a \in Int /\ a <= e[1]
    BY <1>11
  <2>4. ~(a < e[1])
    BY <1>7, <1>8, <1>10, <2>1, <2>3
  <2> QED
    BY <2>3, <2>4
<1>13. e[N] = b
  <2>1. ~(e[N] < e[j])
    BY <1>7, <1>9, <1>10
  <2>2. e[N] \in Int /\ b \in Int /\ e[N] <= b
    BY <1>11
  <2> QED
    BY <1>9, <2>1, <2>2
<1>14. /\ Len(e) \in Nat \ {0} /\ DOMAIN e = 1 .. Len(e)
       /\ \A k \in 1 .. Len(e) : e[k] \in S
  BY <1>2, <1>5, <1>10
<1>15. e[1] = a /\ e[Len(e)] = b
  BY <1>2, <1>12, <1>13
<1> QED
  BY <1>14, <1>15 DEF e

\* Unless there is a NaN among them, the samples enclose the times of the points.
Around(samples, points) ==
    /\ samples \in Seq(GpsTimes) \ {<<>>}
    /\ ~Untimed(points) =>
          /\ Head(samples) # NaN /\ Last(samples) # NaN
          /\ \A t \in TimesIn(points) : Head(samples) <= t /\ t <= Last(samples)

\* The first point is sampled and so is the last, and they have the first and
\* the last of the times.
LEMMA SamplesAround ==
    ASSUME NEW points \in Seq(Point), points # <<>>, stride \in Nat, stride # 0,
           NEW list \in Arrangements(points)
    PROVE  Around(Samples(list), points)
<1> DEFINE n == Len(points)
           picked == {i \in DOMAIN list : (i - 1) % stride = 0 \/ i = Len(list)}
           e == InOrder(picked, <)
           s == [j \in DOMAIN e |-> list[e[j]].gps]
           L == Len(e)
<1>1. n \in Nat \ {0} /\ DOMAIN points = 1 .. n
  BY LenProperties, EmptySeq
<1>2. Samples(list) = s
  BY DEF Samples
<1>3. Arranged(list, points)
  BY SortArranges
<1>4. list \in Seq(Point) /\ Len(list) = n /\ DOMAIN list = 1 .. n
  BY <1>3, LenProperties DEF Arranged
<1>5. \A i \in 1 .. n : list[i].gps \in GpsTimes
  <2>1. \A i \in 1 .. n : list[i] \in Point
    BY <1>4, ElementOfSeq
  <2> QED
    BY <2>1 DEF Point
<1>6. picked \subseteq 1 .. n /\ 1 \in picked /\ n \in picked
  <2>1. (1 - 1) % stride = 0
    <3>1. 1 - 1 = 0
      OBVIOUS
    <3>2. 0 % stride = 0
      OBVIOUS
    <3> QED
      BY <3>1, <3>2
  <2> QED
    BY <1>1, <1>4, <2>1
<1> HIDE DEF picked
<1>7. IsFiniteSet(picked) /\ picked \subseteq Int
  <2>1. IsFiniteSet(1 .. n)
    BY <1>1, FS_Interval
  <2>2. picked \in SUBSET (1 .. n)
    BY <1>6
  <2>3. IsFiniteSet(picked)
    <3> HIDE DEF n
    <3> QED
      BY <2>1, <2>2, FS_Subset
  <2> QED
    BY <1>1, <1>6, <2>3
<1>8. \A x \in picked : 1 <= x /\ x <= n
  BY <1>1, <1>6
<1>9. /\ L \in Nat \ {0} /\ DOMAIN e = 1 .. L /\ \A j \in 1 .. L : e[j] \in picked
      /\ e[1] = 1 /\ e[L] = n
  <2> HIDE DEF n
  <2> QED
    BY <1>6, <1>7, <1>8, ListEnds
<1> HIDE DEF e, L
<1>10. s \in [1 .. L -> GpsTimes] /\ s[1] = list[1].gps /\ s[L] = list[n].gps
  <2>1. 1 \in 1 .. L /\ L \in 1 .. L
    BY <1>9
  <2>2. \A j \in 1 .. L : list[e[j]].gps \in GpsTimes
    BY <1>5, <1>6, <1>9
  <2> HIDE DEF n
  <2> QED
    BY <1>9, <2>1, <2>2
<1> HIDE DEF s
<1>11. s \in Seq(GpsTimes) /\ Len(s) = L
  BY <1>9, <1>10, FunctionIsList
<1>12. s # <<>> /\ Head(s) = s[1] /\ Last(s) = s[L]
  BY <1>9, <1>11 DEF Last
<1>13. ASSUME ~Untimed(points)
       PROVE  /\ Head(s) # NaN /\ Last(s) # NaN
              /\ \A t \in TimesIn(points) : Head(s) <= t /\ t <= Last(s)
  <2>0. Ascending(list) /\ 1 \in 1 .. n /\ n \in 1 .. n
    BY <1>1, <1>3, <1>13 DEF Arranged
  <2>1. TimesIn(list) = {list[i].gps : i \in 1 .. n}
    <3>1. \A i \in 1 .. n : list[i].gps # NaN
      <4>1. ASSUME NEW i \in 1 .. n PROVE \E j \in 1 .. n : list[i] = points[j]
        BY <1>1, <1>3 DEF Arranged
      <4> QED
        BY <1>1, <1>13, <4>1 DEF Untimed
    <3> QED
      BY <1>4, <3>1 DEF TimesIn
  <2>2. Head(s) \in TimesIn(list) /\ Last(s) \in TimesIn(list)
    BY <1>10, <1>12, <2>0, <2>1
  <2>3. Head(s) # NaN /\ Last(s) # NaN
    BY <2>2 DEF TimesIn
  <2>4. ASSUME NEW t \in TimesIn(points) PROVE Head(s) <= t /\ t <= Last(s)
    <3>1. PICK i \in 1 .. n : t = list[i].gps
      BY <1>3, <2>1, <2>4 DEF Arranged
    <3>2. 1 <= i /\ i <= n
      BY <1>1
    <3>3. list[1].gps <= list[i].gps /\ list[i].gps <= list[n].gps
      BY <1>4, <2>0, <3>2 DEF Ascending
    <3> QED
      BY <1>10, <1>12, <3>1, <3>3
  <2> QED
    BY <2>3, <2>4
<1>14. Around(s, points)
  BY <1>11, <1>12, <1>13 DEF Around
<1> QED
  BY <1>2, <1>14

(***************************************************************************)
(* The invariant of what is appended behind the chunks                     *)
(***************************************************************************)
EncodedAround ==
    stride # 0 =>
        \A i \in DOMAIN encoded : Around(encoded[i].samples, nodes[dataKeys[start + i]])

SampledOK ==
    stride # 0 =>
        /\ Len(sampled) = start
        /\ \A n \in 1 .. start :
              /\ sampled[n].key = dataKeys[n]
              /\ Around(sampled[n].samples, nodes[dataKeys[n]])

IsPayload(payload) ==
    payload = [records |-> payload.records, start |-> payload.start,
               rootOffset |-> payload.rootOffset, rootSize |-> payload.rootSize]

\* The entries of the nodes, in pages that are laid out as the payload.
HierarchyOK ==
    phase \in {"temporal", "patching", "done"} =>
        /\ IsPayload(hierarchy)
        /\ hierarchy.start \in Nat /\ BytesOf("node", hierarchy.records) \in Nat
        /\ DOMAIN nodes # {} =>
              \E E, P, from :
                 /\ EntryList("node", E) /\ Filed("node", E, P, from, hierarchy)
                 /\ Len(E) = Len(ordered)
                 /\ \A i \in 1 .. Len(ordered) :
                       E[i].key = ordered[i] /\ Describes(E[i], ordered[i])

TemporalOK ==
    phase \in {"patching", "done"} /\ stride # 0 =>
        IF dataKeys = <<>> THEN temporal.records = <<>>
        ELSE /\ EntryList("time", sampled)
             /\ \E P, from : Filed("time", sampled, P, from, temporal)

RootOK ==
    phase = "done" =>
        header.rootOffset = hierarchy.rootOffset /\ header.rootSize = hierarchy.rootSize

FileInv == EncodedAround /\ SampledOK /\ HierarchyOK /\ TemporalOK /\ RootOK

\* A payload of pages is its pages laid out.
LEMMA PagesAreFiled ==
    ASSUME NEW kind \in Kinds, NEW E, EntryList(kind, E), E # <<>>, NEW from \in Nat
    PROVE  /\ Filed(kind, E, PageTree(kind, E), from, PagePayload(kind, PageTree(kind, E), from))
           /\ IsPayload(PagePayload(kind, PageTree(kind, E), from))
           /\ PagePayload(kind, PageTree(kind, E), from).start = from
           /\ BytesOf(kind, PagePayload(kind, PageTree(kind, E), from).records) \in Nat
<1> DEFINE P == PageTree(kind, E)
           pl == PagePayload(kind, P, from)
<1>1. Good(kind, E, 1 .. Len(E), P)
  BY TreeIsGood
<1>2. 1 .. Len(E) # {}
  <2>1. Len(E) \in Nat \ {0}
    BY LenProperties, EmptySeq DEF EntryList
  <2> QED
    BY <2>1
<1> HIDE DEF P
<1>3. /\ P \in Seq(PageSet(kind)) /\ AllLinked(kind, P) /\ Len(P) # 0
      /\ \A p \in 1 .. Len(P) : Len(P[p].data) # 0
  BY <1>1, <1>2 DEF Good, NoneEmpty
<1>4. Laid(kind, P, from, pl)
  BY <1>3, LaidOut
<1>5. pl.start = from /\ IsPayload(pl)
  BY DEF PagePayload, IsPayload
<1> HIDE DEF pl
<1>6. BytesOf(kind, pl.records) \in Nat
  <2>1. pl.records \in Seq(RecordSet(kind))
    BY <1>4 DEF Laid
  <2> QED
    BY <2>1, BytesAre
<1> QED
  BY <1>1, <1>4, <1>5, <1>6 DEF Filed, pl, P

LEMMA FileStart ==
    ASSUME Init
    PROVE  FileInv
<1>1. encoded = <<>> /\ start = 0 /\ sampled = <<>> /\ phase = "windows"
  BY DEF Init
<1>2. EncodedAround
  BY <1>1 DEF EncodedAround
<1>3. SampledOK
  BY <1>1 DEF SampledOK
<1>4. HierarchyOK /\ TemporalOK /\ RootOK
  BY <1>1 DEF HierarchyOK, TemporalOK, RootOK
<1> QED
  BY <1>2, <1>3, <1>4 DEF FileInv

\* While the loop runs nothing is behind the chunks.
LEMMA FileLoop ==
    ASSUME phase' \in {"windows", "encoding", "failed"}
    PROVE  HierarchyOK' /\ TemporalOK' /\ RootOK'
BY DEF HierarchyOK, TemporalOK, RootOK

LEMMA FilePackWindow ==
    ASSUME IInv, FileInv, PackWindow
    PROVE  FileInv'
<1>1. /\ encoded' = <<>> /\ phase' = "encoding"
      /\ UNCHANGED <<nodes, stride, ordered, dataKeys, start, sampled>>
  BY DEF PackWindow, fixed
<1>2. EncodedAround'
  BY <1>1 DEF EncodedAround
<1>3. SampledOK'
  BY <1>1 DEF FileInv, SampledOK
<1> QED
  BY <1>1, <1>2, <1>3, FileLoop DEF FileInv

LEMMA FileEncodeNode ==
    ASSUME IInv, FileInv, NEW i \in DOMAIN Window, EncodeNode(i)
    PROVE  FileInv'
<1>1. PICK list \in Arrangements(nodes[Window[i]]) :
      /\ encoded' = [j \in DOMAIN encoded \cup {i} |->
                       IF j = i THEN EncodedNode(Window[i], list) ELSE encoded[j]]
      /\ phase' = "encoding"
      /\ UNCHANGED <<nodes, stride, ordered, dataKeys, start, sampled>>
  BY DEF EncodeNode, fixed
<1>2. FixedOK /\ CursorsOK
  BY DEF IInv
<1>3. EncodedAround'
  <2>1. SUFFICES ASSUME stride # 0
                 PROVE  \A j \in DOMAIN encoded' :
                           Around(encoded'[j].samples, nodes[dataKeys[start + j]])
    BY <1>1 DEF EncodedAround
  <2>2. /\ Window[i] = dataKeys[start + i] /\ nodes[Window[i]] \in Seq(Point)
        /\ nodes[Window[i]] # <<>>
    <3>1. i \in 1 .. end - start
      BY <1>2, WindowIs
    <3>2. Window[i] = dataKeys[start + i] /\ start + i \in 1 .. Len(dataKeys)
      BY <1>2, <3>1, WindowIs
    <3>3. nodes[dataKeys[start + i]] \in Seq(Point) /\ nodes[dataKeys[start + i]] # <<>>
      BY <1>2, <3>2, DataKeysAre
    <3> QED
      BY <3>2, <3>3
  <2>3. stride \in Nat
    BY <1>2, DataKeysAre
  <2>4. Around(Samples(list), nodes[Window[i]])
    BY <2>1, <2>2, <2>3, SamplesAround
  <2>5. EncodedNode(Window[i], list).samples = Samples(list)
    BY DEF EncodedNode
  <2>6. Around(EncodedNode(Window[i], list).samples, nodes[dataKeys[start + i]])
    BY <2>2, <2>4, <2>5
  <2>7. ASSUME NEW j \in DOMAIN encoded'
        PROVE  Around(encoded'[j].samples, nodes[dataKeys[start + j]])
    <3>0. j \in DOMAIN encoded \cup {i}
      BY <1>1
    <3>1. CASE j = i
      <4>1. encoded'[j] = EncodedNode(Window[i], list)
        BY <1>1, <3>0, <3>1
      <4> QED
        BY <2>6, <3>1, <4>1
    <3>2. CASE j # i
      <4>1. j \in DOMAIN encoded /\ encoded'[j] = encoded[j]
        BY <1>1, <3>0, <3>2
      <4> QED
        BY <2>1, <4>1 DEF FileInv, EncodedAround
    <3> QED
      BY <3>1, <3>2
  <2> QED
    BY <2>7
<1>4. SampledOK'
  BY <1>1 DEF FileInv, SampledOK
<1> QED
  BY <1>1, <1>3, <1>4, FileLoop DEF FileInv

LEMMA FileCompressWindow ==
    ASSUME IInv, FileInv, CompressWindow
    PROVE  FileInv'
<1> DEFINE more == SampledOf(Results)
           w == end - start
           A == [key : DOMAIN nodes, samples : Seq(GpsTimes)]
<1>1. FixedOK /\ CursorsOK /\ FilledOK
  BY DEF IInv
<1>2. /\ phase' = "windows" /\ encoded' = <<>> /\ start' = end
      /\ DOMAIN encoded = DOMAIN Window
      /\ sampled' = IF stride = 0 THEN sampled ELSE sampled \o more
      /\ UNCHANGED <<nodes, stride, ordered, dataKeys>>
  BY DEF CompressWindow, fixed, Results, NextStart
<1>3. EncodedAround'
  BY <1>2 DEF EncodedAround
<1>4. SampledOK'
  <2>1. CASE stride = 0
    BY <1>2, <2>1 DEF SampledOK
  <2>2. CASE stride # 0
    <3>1. /\ w \in Nat /\ start \in Nat /\ end \in Nat /\ DOMAIN Window = 1 .. w
          /\ \A i \in 1 .. w : /\ Window[i] = dataKeys[start + i] /\ Window[i] \in DOMAIN nodes
      BY <1>1, WindowIs
    <3>2. DOMAIN Results = 1 .. w /\ \A i \in 1 .. w : Results[i] = encoded[i]
      BY <1>2, <3>1 DEF Results
    <3>3. \A i \in 1 .. w : Around(encoded[i].samples, nodes[dataKeys[start + i]])
      BY <1>2, <2>2, <3>1 DEF FileInv, EncodedAround
    <3>4. more = [i \in 1 .. w |-> [key |-> Window[i], samples |-> Results[i].samples]]
      BY <3>2 DEF SampledOf
    <3>5. \A i \in 1 .. w :
             /\ more[i].key = dataKeys[start + i] /\ more[i] \in A
             /\ Around(more[i].samples, nodes[dataKeys[start + i]])
      <4>1. ASSUME NEW i \in 1 .. w
            PROVE  /\ more[i].key = dataKeys[start + i] /\ more[i] \in A
                   /\ Around(more[i].samples, nodes[dataKeys[start + i]])
        <5>1. more[i] = [key |-> Window[i], samples |-> encoded[i].samples]
          BY <3>2, <3>4
        <5>2. Around(encoded[i].samples, nodes[dataKeys[start + i]])
          BY <3>3
        <5>3. encoded[i].samples \in Seq(GpsTimes)
          BY <5>2 DEF Around
        <5> QED
          BY <3>1, <5>1, <5>2, <5>3
      <4> QED
        BY <4>1
    <3>6. more \in [1 .. w -> A]
      <4>1. DOMAIN more = 1 .. w /\ more = [i \in 1 .. w |-> more[i]]
        BY <3>4
      <4> HIDE DEF more, A
      <4> QED
        BY <3>5, <4>1
    <3> HIDE DEF more, A
    <3>7. more \in Seq(A) /\ Len(more) = w
      BY <3>1, <3>6, FunctionIsList
    <3>8. sampled \in Seq(A)
      BY <1>1 DEF FilledOK, A
    <3>9. /\ Len(sampled) = start
          /\ \A n \in 1 .. start : /\ sampled[n].key = dataKeys[n]
                                   /\ Around(sampled[n].samples, nodes[dataKeys[n]])
      BY <2>2 DEF FileInv, SampledOK
    <3>10. start + w = end
      BY <3>1
    <3> HIDE DEF w
    <3>11. /\ Len(sampled \o more) = start + w
           /\ \A p \in 1 .. start + w : (sampled \o more)[p] = IF p <= start THEN sampled[p] ELSE more[p - start]
      <4>1. /\ Len(sampled \o more) = Len(sampled) + Len(more)
            /\ \A p \in 1 .. Len(sampled) + Len(more) :
                  (sampled \o more)[p] = IF p <= Len(sampled) THEN sampled[p] ELSE more[p - Len(sampled)]
        BY <3>7, <3>8, PlacesJoined
      <4> QED
        BY <3>7, <3>9, <4>1
    <3>12. sampled' = sampled \o more
      BY <1>2, <2>2
    <3>13. ASSUME NEW n \in 1 .. start + w
           PROVE  sampled'[n].key = dataKeys[n] /\ Around(sampled'[n].samples, nodes[dataKeys[n]])
      <4>1. CASE n <= start
        <5>1. n \in 1 .. start /\ sampled'[n] = sampled[n]
          BY <3>1, <3>11, <3>12, <4>1
        <5> QED
          BY <3>9, <5>1
      <4>2. CASE ~(n <= start)
        <5>1. n - start \in 1 .. w /\ start + (n - start) = n
          BY <3>1, <4>2
        <5>2. sampled'[n] = more[n - start]
          BY <3>11, <3>12, <4>2
        <5>3. /\ more[n - start].key = dataKeys[start + (n - start)]
              /\ Around(more[n - start].samples, nodes[dataKeys[start + (n - start)]])
          BY <3>5, <5>1
        <5> QED
          BY <5>1, <5>2, <5>3
      <4> QED
        BY <4>1, <4>2
    <3> QED
      BY <1>2, <3>10, <3>11, <3>12, <3>13 DEF SampledOK
  <2> QED
    BY <2>1, <2>2
<1> QED
  BY <1>2, <1>3, <1>4, FileLoop DEF FileInv

LEMMA KeysAre ==
    ASSUME IInv
    PROVE  /\ Len(ordered) \in Nat /\ DOMAIN ordered = 1 .. Len(ordered)
           /\ \A i \in 1 .. Len(ordered) : ordered[i] \in DOMAIN nodes /\ ordered[i] \in KeySet
           /\ \A i, j \in 1 .. Len(ordered) : ordered[i] = ordered[j] => i = j
           /\ \A k \in DOMAIN nodes : \E i \in 1 .. Len(ordered) : ordered[i] = k
           /\ \A i \in 1 .. Len(dataKeys) : dataKeys[i] \in KeySet
           /\ \A i, j \in 1 .. Len(dataKeys) : dataKeys[i] = dataKeys[j] => i = j
<1>1. FixedOK
  BY DEF IInv
<1>2. /\ DOMAIN nodes \subseteq KeySet /\ WithPoints \subseteq KeySet
  BY <1>1, NodesAre DEF FixedOK, KeySet
<1>3. /\ ordered \in Seq(DOMAIN nodes) /\ DOMAIN ordered = 1 .. Len(ordered)
      /\ \A i \in DOMAIN ordered : ordered[i] \in DOMAIN nodes
      /\ \A i, j \in DOMAIN ordered : ordered[i] = ordered[j] => i = j
      /\ \A k \in DOMAIN nodes : \E i \in DOMAIN ordered : ordered[i] = k
  BY <1>1 DEF FixedOK, Ordered
<1>4. /\ DOMAIN dataKeys = 1 .. Len(dataKeys)
      /\ \A i \in DOMAIN dataKeys : dataKeys[i] \in WithPoints
      /\ \A i, j \in DOMAIN dataKeys : dataKeys[i] = dataKeys[j] => i = j
  BY <1>1 DEF FixedOK, Ordered
<1>5. Len(ordered) \in Nat
  BY <1>3, LenProperties
<1> QED
  BY <1>2, <1>3, <1>4, <1>5

\* Where a chunk lies, when the chunks are of their type.
LEMMA OffsetsAre ==
    ASSUME IInv
    PROVE  /\ Len(chunks) \in Nat /\ DOMAIN chunks = 1 .. Len(chunks)
           /\ \A n \in 1 .. Len(chunks) : chunks[n].size \in Nat
           /\ \A n \in 1 .. Len(chunks) + 1 : ChunkOffset(n) \in Nat
           /\ EvlrStart \in Nat
<1>1. chunks \in Seq([key : DOMAIN nodes, size : Nat])
  BY DEF IInv, FilledOK
<1>2. Len(chunks) \in Nat /\ DOMAIN chunks = 1 .. Len(chunks)
  BY <1>1, LenProperties
<1>3. \A n \in 1 .. Len(chunks) : chunks[n].size \in Nat
  <2>1. \A n \in 1 .. Len(chunks) : chunks[n] \in [key : DOMAIN nodes, size : Nat]
    BY <1>1, ElementOfSeq
  <2> QED
    BY <2>1
<1>4. HeaderSize \in Nat /\ TableSize \in Nat
  BY WriterAssumption
<1>5. ASSUME NEW n \in 1 .. Len(chunks) + 1 PROVE ChunkOffset(n) \in Nat
  <2> DEFINE s == [m \in 1 .. n - 1 |-> chunks[m].size]
  <2>1. n - 1 \in Nat /\ s \in [1 .. n - 1 -> Nat]
    BY <1>2, <1>3
  <2>2. ChunkOffset(n) = HeaderSize + 8 + SumOf(s)
    BY DEF ChunkOffset
  <2> HIDE DEF s
  <2>3. s \in Seq(Nat)
    BY <2>1, FunctionIsList
  <2>4. SumOf(s) \in Nat
    BY <2>3, SumIsNat
  <2> QED
    BY <1>4, <2>2, <2>4
<1>6. EvlrStart \in Nat
  <2>1. Len(chunks) + 1 \in 1 .. Len(chunks) + 1
    BY <1>2
  <2>2. ChunkOffset(Len(chunks) + 1) \in Nat
    BY <1>5, <2>1
  <2> QED
    BY <1>4, <2>2 DEF EvlrStart
<1> QED
  BY <1>2, <1>3, <1>5, <1>6

\* The entries that go into the hierarchy.
LEMMA ChunkInfoIs ==
    ASSUME IInv, phase = "windows", start = Len(dataKeys)
    PROVE  /\ EntryList("node", ChunkInfo) /\ Len(ChunkInfo) = Len(ordered)
           /\ \A i \in 1 .. Len(ordered) :
                 ChunkInfo[i].key = ordered[i] /\ Describes(ChunkInfo[i], ordered[i])
<1> DEFINE E == ChunkInfo
           n == Len(ordered)
<1>1. /\ n \in Nat /\ DOMAIN ordered = 1 .. n
      /\ \A i \in 1 .. n : ordered[i] \in DOMAIN nodes /\ ordered[i] \in KeySet
      /\ \A i, j \in 1 .. n : ordered[i] = ordered[j] => i = j
  BY KeysAre
<1> HIDE DEF n
<1>2. \A i \in 1 .. n : E[i].key = ordered[i] /\ Describes(E[i], ordered[i])
  BY <1>1, Described DEF EntriesDescribe
<1>3. DOMAIN E = 1 .. n /\ E = [i \in 1 .. n |-> E[i]]
  BY <1>1 DEF ChunkInfo
<1>4. \A i \in 1 .. n : E[i] = [key |-> E[i].key, offset |-> E[i].offset,
                                byteSize |-> E[i].byteSize, pointCount |-> E[i].pointCount]
  BY <1>1 DEF ChunkInfo
<1>5. ASSUME NEW i \in 1 .. n PROVE E[i] \in EntrySet("node")
  <2> DEFINE k == ordered[i]
             r == E[i]
  <2>1. Describes(r, k) /\ r.key \in KeySet
    BY <1>1, <1>2
  <2>2. Len(nodes[k]) \in Nat
    BY <1>1, NodesAre DEF IInv, FixedOK
  <2>5. r = [key |-> r.key, offset |-> r.offset, byteSize |-> r.byteSize, pointCount |-> r.pointCount]
    BY <1>4
  <2> HIDE DEF r, k
  <2>3. r.offset \in Nat /\ r.byteSize \in Nat /\ r.pointCount \in Nat
    <3>1. CASE nodes[k] = <<>>
      <4>1. <<r.offset, r.byteSize, r.pointCount>> = <<0, 0, 0>>
        BY <2>1, <3>1 DEF Describes
      <4> QED
        BY <4>1
    <3>2. CASE nodes[k] # <<>>
      <4>1. PICK m \in DOMAIN chunks :
               /\ r.offset = ChunkOffset(m) /\ r.byteSize = chunks[m].size
               /\ r.pointCount = Len(nodes[k])
        BY <2>1, <3>2 DEF Describes
      <4>2. m \in 1 .. Len(chunks) /\ m \in 1 .. Len(chunks) + 1
        BY OffsetsAre
      <4>3. ChunkOffset(m) \in Nat /\ chunks[m].size \in Nat
        BY <4>2, OffsetsAre
      <4> QED
        BY <2>2, <4>1, <4>3
    <3> QED
      BY <3>1, <3>2
  <2>4. r \in [key : KeySet, offset : Nat, byteSize : Nat, pointCount : Nat]
    BY <2>1, <2>3, <2>5
  <2> QED
    BY <2>4 DEF EntrySet, r
<1> HIDE DEF E
<1>6. E \in [1 .. n -> EntrySet("node")]
  BY <1>3, <1>5
<1>7. E \in Seq(EntrySet("node")) /\ Len(E) = n
  BY <1>1, <1>6, FunctionIsList
<1>8. \A i, j \in 1 .. Len(E) : E[i].key = E[j].key => i = j
  BY <1>1, <1>2, <1>7
<1>9. EntryList("node", E)
  BY <1>7, <1>8 DEF EntryList
<1> QED
  BY <1>2, <1>7, <1>9 DEF E, n

LEMMA HierarchyKept ==
    ASSUME HierarchyOK, UNCHANGED <<nodes, ordered, chunks, hierarchy>>,
           phase \in {"temporal", "patching", "done"}
    PROVE  HierarchyOK'
BY DEF HierarchyOK, Describes, ChunkOffset

LEMMA TemporalKept ==
    ASSUME TemporalOK, UNCHANGED <<stride, dataKeys, sampled, temporal>>,
           phase \in {"patching", "done"}
    PROVE  TemporalOK'
BY DEF TemporalOK

LEMMA SamplesKept ==
    ASSUME FileInv, UNCHANGED <<nodes, stride, dataKeys, start, encoded, sampled>>
    PROVE  EncodedAround' /\ SampledOK'
BY DEF FileInv, EncodedAround, SampledOK

LEMMA FileWriteHierarchy ==
    ASSUME IInv, FileInv, WriteHierarchy
    PROVE  FileInv'
<1> DEFINE E == ChunkInfo
           from == EvlrStart + EvlrHeader
           pl == HierarchyPayload(E, from)
<1>1. /\ phase = "windows" /\ start = Len(dataKeys)
      /\ hierarchy' = pl
      /\ phase' = IF stride = 0 THEN "patching" ELSE "temporal"
      /\ UNCHANGED <<nodes, stride, ordered, dataKeys, start, encoded, chunks, sampled, temporal>>
  BY DEF WriteHierarchy, fixed
<1>0. "node" \in Kinds
  BY DEF Kinds
<1>2. from \in Nat
  BY OffsetsAre DEF EvlrHeader
<1>3. /\ EntryList("node", E) /\ Len(E) = Len(ordered)
      /\ \A i \in 1 .. Len(ordered) : E[i].key = ordered[i] /\ Describes(E[i], ordered[i])
  BY <1>1, ChunkInfoIs
<1> HIDE DEF E, from
<1>4. /\ IsPayload(pl) /\ pl.start \in Nat /\ BytesOf("node", pl.records) \in Nat
      /\ E # <<>> => \E P : Filed("node", E, P, from, pl)
  <2>1. CASE E = <<>>
    <3>1. pl = [records |-> <<>>, start |-> from, rootOffset |-> from, rootSize |-> 0]
      BY <2>1 DEF HierarchyPayload, EmptyPayload
    <3> HIDE DEF pl
    <3>2. pl.records = <<>> /\ pl.start = from /\ IsPayload(pl)
      BY <3>1 DEF IsPayload
    <3>3. <<>> \in Seq(RecordSet("node"))
      OBVIOUS
    <3>4. BytesOf("node", <<>>) \in Nat
      BY <1>0, <3>3, BytesAre
    <3> QED
      BY <1>2, <2>1, <3>2, <3>4
  <2>2. CASE E # <<>>
    <3>1. pl = PagePayload("node", PageTree("node", E), from)
      BY <2>2 DEF HierarchyPayload
    <3> HIDE DEF pl
    <3>2. /\ Filed("node", E, PageTree("node", E), from, pl) /\ IsPayload(pl)
          /\ pl.start = from /\ BytesOf("node", pl.records) \in Nat
      BY <1>0, <1>2, <1>3, <2>2, <3>1, PagesAreFiled
    <3> QED
      BY <1>2, <3>2
  <2> QED
    BY <2>1, <2>2
<1> HIDE DEF pl
<1>5. DOMAIN nodes # {} => E # <<>>
  <2>1. ASSUME DOMAIN nodes # {} PROVE E # <<>>
    <3>1. PICK i \in 1 .. Len(ordered) : TRUE
      BY <2>1, KeysAre
    <3>2. Len(E) # 0
      BY <1>3, <3>1, KeysAre
    <3> QED
      BY <3>2
  <2> QED
    BY <2>1
<1>6. \E e : e = E
  OBVIOUS
<1>10. PICK e : e = E
  BY <1>6
<1>11. \A i \in 1 .. Len(ordered) : e[i].key = ordered[i] /\ Describes(e[i], ordered[i])
  BY <1>3, <1>10
<1>12. \A i \in 1 .. Len(ordered') : e[i].key = ordered'[i] /\ Describes(e[i], ordered[i])'
  <2>1. UNCHANGED <<nodes, ordered, chunks>>
    BY <1>1
  <2>2. ASSUME NEW i \in 1 .. Len(ordered)
        PROVE  Describes(e[i], ordered[i])'
    <3>1. Describes(e[i], ordered[i])
      BY <1>11
    <3>2. nodes' = nodes /\ ordered' = ordered /\ chunks' = chunks
      BY <2>1
    <3> QED
      BY <3>1, <3>2 DEF Describes, ChunkOffset
  <2>3. \A i \in 1 .. Len(ordered') : Describes(e[i], ordered[i])'
    BY <2>1, <2>2
  <2> QED
    BY <1>11, <2>1, <2>3
<1>13. DOMAIN nodes # {} => EntryList("node", e) /\ Len(e) = Len(ordered') /\ \E P : Filed("node", e, P, from, pl)
  BY <1>1, <1>3, <1>4, <1>5, <1>10
<1>14. \E f : f = from
  OBVIOUS
<1>15. PICK f : f = from
  BY <1>14
<1>16. DOMAIN nodes' # {} =>
         \E P : /\ EntryList("node", e) /\ Filed("node", e, P, f, hierarchy')
                /\ Len(e) = Len(ordered')
                /\ \A i \in 1 .. Len(ordered') : e[i].key = ordered'[i] /\ Describes(e[i], ordered[i])'
  BY <1>1, <1>12, <1>13, <1>15
<1>7. HierarchyOK'
  BY <1>1, <1>4, <1>16 DEF HierarchyOK
<1>8. TemporalOK'
  BY <1>1 DEF TemporalOK
<1>9. RootOK'
  BY <1>1 DEF RootOK
<1> QED
  BY <1>1, <1>7, <1>8, <1>9, SamplesKept DEF FileInv

LEMMA SampledIs ==
    ASSUME IInv, FileInv, stride # 0, start = Len(dataKeys)
    PROVE  /\ EntryList("time", sampled) /\ Len(sampled) = Len(dataKeys)
           /\ \A i \in 1 .. Len(dataKeys) :
                 sampled[i].key = dataKeys[i] /\ Around(sampled[i].samples, nodes[dataKeys[i]])
<1> DEFINE n == Len(dataKeys)
           A == [key : DOMAIN nodes, samples : Seq(GpsTimes)]
<1>1. n \in Nat
  BY DataKeysAre DEF IInv
<1>2. /\ Len(sampled) = n
      /\ \A i \in 1 .. n : sampled[i].key = dataKeys[i] /\ Around(sampled[i].samples, nodes[dataKeys[i]])
  BY DEF FileInv, SampledOK
<1>3. sampled \in Seq(A)
  BY DEF IInv, FilledOK
<1>4. /\ \A i \in 1 .. n : dataKeys[i] \in KeySet
      /\ \A i, j \in 1 .. n : dataKeys[i] = dataKeys[j] => i = j
  BY KeysAre
<1> HIDE DEF n
<1>5. ~("time" = "node")
  OBVIOUS
<1>6. ASSUME NEW i \in 1 .. n PROVE sampled[i] \in EntrySet("time")
  <2>1. sampled[i] \in A
    BY <1>2, <1>3, ElementOfSeq
  <2>2. sampled[i].key \in KeySet /\ sampled[i].samples \in Seq(GpsTimes) \ {<<>>}
    BY <1>2, <1>4 DEF Around
  <2>3. sampled[i] \in [key : KeySet, samples : Seq(GpsTimes) \ {<<>>}]
    BY <2>1, <2>2
  <2> QED
    BY <1>5, <2>3 DEF EntrySet
<1>7. sampled \in [1 .. n -> EntrySet("time")]
  <2>1. DOMAIN sampled = 1 .. n /\ sampled = [i \in 1 .. n |-> sampled[i]]
    BY <1>2, <1>3, LenProperties
  <2> QED
    BY <1>6, <2>1
<1>8. sampled \in Seq(EntrySet("time"))
  BY <1>1, <1>7, FunctionIsList
<1>9. \A i, j \in 1 .. Len(sampled) : sampled[i].key = sampled[j].key => i = j
  BY <1>2, <1>4
<1> QED
  BY <1>2, <1>8, <1>9 DEF EntryList, n

LEMMA FileWriteTemporal ==
    ASSUME IInv, FileInv, WriteTemporal
    PROVE  FileInv'
<1> DEFINE from == hierarchy.start + BytesOf("node", hierarchy.records) + EvlrHeader
           pl == TemporalPayload(sampled, from)
           P == PageTree("time", sampled)
<1>1. /\ phase = "temporal" /\ phase' = "patching" /\ temporal' = pl
      /\ UNCHANGED <<nodes, stride, ordered, dataKeys, start, encoded, chunks, sampled, hierarchy>>
  BY DEF WriteTemporal, fixed
<1>2. HierarchyOK'
  BY <1>1, HierarchyKept DEF FileInv, HierarchyOK, Describes, ChunkOffset
<1>3. from \in Nat
  BY <1>1 DEF FileInv, HierarchyOK, EvlrHeader
<1>4. start = Len(dataKeys)
  BY <1>1 DEF IInv, CursorsOK
<1> HIDE DEF from
<1>5. ASSUME stride # 0, dataKeys # <<>>
      PROVE  EntryList("time", sampled) /\ Filed("time", sampled, P, from + TemporalHeader, pl)
  <2>1. EntryList("time", sampled) /\ Len(sampled) = Len(dataKeys)
    BY <1>4, <1>5, SampledIs
  <2>2. sampled # <<>>
    <3>1. dataKeys \in Seq(WithPoints)
      BY DataKeysAre DEF IInv
    <3>2. Len(dataKeys) # 0
      BY <1>5, <3>1, EmptySeq
    <3> QED
      BY <2>1, <3>2
  <2>3. pl = PagePayload("time", P, from + TemporalHeader)
    BY <2>2 DEF TemporalPayload
  <2>4. from + TemporalHeader \in Nat /\ "time" \in Kinds
    BY <1>3 DEF TemporalHeader, Kinds
  <2> HIDE DEF pl
  <2>5. Filed("time", sampled, P, from + TemporalHeader, pl)
    BY <2>1, <2>2, <2>3, <2>4, PagesAreFiled
  <2> QED
    BY <2>1, <2>5
<1>8. ASSUME stride # 0, dataKeys = <<>> PROVE pl.records = <<>>
  <2>1. Len(sampled) = 0 /\ sampled \in Seq(EntrySet("time"))
    BY <1>4, <1>8, SampledIs DEF EntryList
  <2>2. sampled = <<>>
    BY <2>1, EmptySeq
  <2> QED
    BY <2>2 DEF TemporalPayload, EmptyPayload
<1> HIDE DEF pl, P
<1>6. TemporalOK'
  BY <1>1, <1>5, <1>8 DEF TemporalOK
<1>7. RootOK'
  BY <1>1 DEF RootOK
<1> QED
  BY <1>1, <1>2, <1>6, <1>7, SamplesKept DEF FileInv

LEMMA FilePatchHeader ==
    ASSUME IInv, FileInv, PatchHeader
    PROVE  FileInv'
<1>1. /\ phase = "patching" /\ phase' = "done"
      /\ header'.rootOffset = hierarchy.rootOffset /\ header'.rootSize = hierarchy.rootSize
      /\ UNCHANGED <<nodes, stride, ordered, dataKeys, start, encoded, chunks, sampled,
                     hierarchy, temporal>>
  BY DEF PatchHeader, fixed
<1>2. HierarchyOK' /\ TemporalOK'
  BY <1>1, HierarchyKept, TemporalKept DEF FileInv
<1>3. RootOK'
  BY <1>1 DEF RootOK
<1> QED
  BY <1>1, <1>2, <1>3, SamplesKept DEF FileInv

LEMMA FileFail ==
    ASSUME IInv, FileInv, Fail
    PROVE  FileInv'
<1>1. /\ phase' = "failed"
      /\ UNCHANGED <<nodes, stride, dataKeys, start, encoded, sampled>>
  BY DEF Fail, fixed
<1> QED
  BY <1>1, SamplesKept, FileLoop DEF FileInv

LEMMA FileStutter ==
    ASSUME IInv, FileInv, UNCHANGED vars
    PROVE  FileInv'
<1>1. UNCHANGED <<nodes, stride, ordered, dataKeys, start, encoded, chunks, sampled,
                  hierarchy, temporal, header, phase>>
  BY DEF vars, fixed
<1>2. HierarchyOK'
  BY <1>1, HierarchyKept DEF FileInv, HierarchyOK
<1>3. TemporalOK'
  BY <1>1, TemporalKept DEF FileInv, TemporalOK
<1>4. RootOK'
  BY <1>1 DEF FileInv, RootOK
<1> QED
  BY <1>1, <1>2, <1>3, <1>4, SamplesKept DEF FileInv

LEMMA FileInductive ==
    Spec => []FileInv
<1>1. Init => FileInv
  BY FileStart
<1>2. IInv /\ FileInv /\ [Next]_vars => FileInv'
  <2>1. SUFFICES ASSUME IInv, FileInv, [Next]_vars PROVE FileInv'
    BY <2>1
  <2>2. CASE PackWindow
    BY <2>1, <2>2, FilePackWindow
  <2>3. CASE CompressWindow
    BY <2>1, <2>3, FileCompressWindow
  <2>4. CASE \E i \in DOMAIN Window : EncodeNode(i)
    BY <2>1, <2>4, FileEncodeNode
  <2>5. CASE WriteHierarchy
    BY <2>1, <2>5, FileWriteHierarchy
  <2>6. CASE WriteTemporal
    BY <2>1, <2>6, FileWriteTemporal
  <2>7. CASE PatchHeader
    BY <2>1, <2>7, FilePatchHeader
  <2>8. CASE Fail
    BY <2>1, <2>8, FileFail
  <2>9. CASE UNCHANGED vars
    BY <2>1, <2>9, FileStutter
  <2> QED
    BY <2>1, <2>2, <2>3, <2>4, <2>5, <2>6, <2>7, <2>8, <2>9 DEF Next, Loop, Returned
<1> QED
  BY <1>1, <1>2, Inductive, PTL DEF Spec

LEMMA NodesFound ==
    ASSUME IInv, FileInv
    PROVE  EveryNodeFound
<1> DEFINE file == [hierarchy EXCEPT !.rootOffset = header.rootOffset,
                                     !.rootSize = header.rootSize]
           followed(k) == {n \in Pointers("node", file) : IsAncestor(file.records[n].key, k)}
           hits(k) == {n \in UNION {RecordsIn("node", file, pg) :
                                      pg \in PagesReached("node", file, followed(k))} :
                          file.records[n].key = k /\ ~IsPointer("node", file.records[n])}
<1>1. SUFFICES ASSUME phase = "done", DOMAIN nodes # {}, NEW k \in DOMAIN nodes
      PROVE  Cardinality(hits(k)) = 1 /\ \A n \in hits(k) : Describes(file.records[n], k)
  BY DEF EveryNodeFound
<1>2. file = hierarchy
  <2>1. header.rootOffset = hierarchy.rootOffset /\ header.rootSize = hierarchy.rootSize
    BY <1>1 DEF FileInv, RootOK
  <2>2. IsPayload(hierarchy)
    BY <1>1 DEF FileInv, HierarchyOK
  <2> QED
    BY <2>1, <2>2 DEF IsPayload
<1>3. PICK E, P, from :
         /\ EntryList("node", E) /\ Filed("node", E, P, from, hierarchy)
         /\ Len(E) = Len(ordered)
         /\ \A i \in 1 .. Len(ordered) : E[i].key = ordered[i] /\ Describes(E[i], ordered[i])
  BY <1>1 DEF FileInv, HierarchyOK
<1>4. PICK n \in 1 .. Len(ordered) : ordered[n] = k
  BY KeysAre
<1>5. n \in 1 .. Len(E) /\ E[n].key = k /\ Describes(E[n], k)
  BY <1>3, <1>4
<1> DEFINE F == {x \in Pointers("node", hierarchy) : IsAncestor(hierarchy.records[x].key, E[n].key)}
<1>8. F = {x \in Pointers("node", hierarchy) : IsAncestor(hierarchy.records[x].key, E[n].key)}
  OBVIOUS
<1>6. OneHit(hierarchy, F, E[n])
  <2>1. EntryList("node", E) /\ Filed("node", E, P, from, hierarchy)
    BY <1>3
  <2> HIDE DEF F
  <2> QED
    BY <1>5, <1>8, <2>1, NodeHit
<1> HIDE DEF file
<1>7. hits(k) = HitsOf(hierarchy, F, E[n].key)
  BY <1>2, <1>5 DEF HitsOf
<1> HIDE DEF F, hits
<1> QED
  BY <1>2, <1>5, <1>6, <1>7 DEF OneHit

LEMMA PagesTiled ==
    ASSUME IInv, FileInv
    PROVE  PagesTile
<1>1. SUFFICES ASSUME phase = "done", DOMAIN nodes # {}
               PROVE  /\ Tiles("node", hierarchy) /\ KeysOnce("node", hierarchy)
                      /\ stride # 0 => Tiles("time", temporal)
  BY DEF PagesTile, KeysOnce
<1>2. "node" \in Kinds /\ "time" \in Kinds
  BY DEF Kinds
<1>3. Tiles("node", hierarchy) /\ KeysOnce("node", hierarchy)
  <2>1. PICK E, P, from : Filed("node", E, P, from, hierarchy)
    BY <1>1 DEF FileInv, HierarchyOK
  <2> QED
    BY <1>2, <2>1, PayloadTiled
<1>4. ASSUME stride # 0, dataKeys # <<>> PROVE Tiles("time", temporal)
  <2>1. PICK P, from : Filed("time", sampled, P, from, temporal)
    BY <1>1, <1>4 DEF FileInv, TemporalOK
  <2> QED
    BY <1>2, <2>1, PayloadTiled
<1>5. ASSUME stride # 0, dataKeys = <<>> PROVE Tiles("time", temporal)
  <2>1. DOMAIN temporal.records = {}
    BY <1>1, <1>5 DEF FileInv, TemporalOK
  <2>2. \A pg : RecordsIn("time", temporal, pg) = {}
    BY <2>1 DEF RecordsIn
  <2> QED
    BY <2>1, <2>2 DEF Tiles
<1> QED
  BY <1>3, <1>4, <1>5

LEMMA TimesFound ==
    ASSUME IInv, FileInv
    PROVE  TimeSearchComplete
<1> DEFINE followed(t) == {n \in Pointers("time", temporal) :
                             /\ temporal.records[n].range[1] <= t
                             /\ t <= temporal.records[n].range[2]}
           found(t) == UNION {RecordsIn("time", temporal, pg) :
                                pg \in PagesReached("time", temporal, followed(t))}
<1>1. SUFFICES ASSUME phase = "done", stride # 0, NEW k \in ToSet(dataKeys), ~Untimed(nodes[k]),
                      NEW t \in TimesIn(nodes[k])
      PROVE  \E n \in found(t) :
                LET r == temporal.records[n]
                IN  /\ r.key = k /\ ~IsPointer("time", r)
                    /\ Head(r.samples) <= t /\ t <= Last(r.samples)
  BY DEF TimeSearchComplete
<1>2. start = Len(dataKeys)
  BY <1>1 DEF IInv, CursorsOK
<1>3. PICK i \in 1 .. Len(dataKeys) : dataKeys[i] = k
  BY DataKeysAre DEF ToSet, IInv
<1>4. dataKeys # <<>>
  BY <1>3
<1>5. /\ EntryList("time", sampled) /\ Len(sampled) = Len(dataKeys)
      /\ sampled[i].key = k /\ Around(sampled[i].samples, nodes[k])
  BY <1>1, <1>2, <1>3, SampledIs
<1>6. PICK P, from : Filed("time", sampled, P, from, temporal)
  BY <1>1, <1>4 DEF FileInv, TemporalOK
<1>7. i \in 1 .. Len(sampled)
  BY <1>3, <1>5
<1>8. EndsKnown(sampled[i]) /\ Head(sampled[i].samples) <= t /\ t <= Last(sampled[i].samples)
  BY <1>1, <1>5 DEF Around, EndsKnown
<1>9. t \in Int
  <2>1. k \in DOMAIN nodes
    BY <1>3, DataKeysAre DEF IInv
  <2> QED
    BY <1>1, <2>1, NodesAre DEF IInv, FixedOK
<1>10. Reached("time", temporal, followed(t), sampled[i])
  BY <1>5, <1>6, <1>7, <1>8, <1>9, TimeHit
<1>11. PICK n \in found(t) : temporal.records[n] = sampled[i]
  BY <1>10 DEF Reached
<1>12. ~IsPointer("time", sampled[i])
  BY <1>5, <1>7, EntriesStay DEF Kinds
<1> HIDE DEF found
<1> QED
  BY <1>5, <1>8, <1>11, <1>12

(***************************************************************************)
(* Every window holds at most WRITER_WINDOW_POINTS points or a single      *)
(* node, and the chunks in the file are those of the data nodes in their   *)
(* order, none skipped and none twice (the window loop of write_copc).     *)
(***************************************************************************)
THEOREM WindowsAreBounded == Spec => []WindowsBounded
<1>1. IInv => WindowsBounded
  BY Bounded
<1> QED
  BY <1>1, Inductive, PTL

(***************************************************************************)
(* When the windows are through, the walk over the sorted node list and    *)
(* the chunk table read back gives every node with points the bytes of its *)
(* own chunk and every other node none (the chunk-table walk of            *)
(* write_copc).                                                            *)
(***************************************************************************)
THEOREM EntriesAreExact == Spec => []EntriesDescribe
<1>1. IInv => EntriesDescribe
  BY Described
<1> QED
  BY <1>1, Inductive, PTL

(***************************************************************************)
(* The totals by return and the time range that are patched into the       *)
(* header of a finished file are those of the points of all nodes.         *)
(***************************************************************************)
THEOREM HeaderIsExact == Spec => []HeaderExact
<1>1. IInv => HeaderExact
  BY Exact
<1> QED
  BY <1>1, Inductive, PTL

(***************************************************************************)
(* Whatever the nodes and however their levels are cut into pages, a       *)
(* reader that follows the pointers to a node's ancestors from the root    *)
(* page finds exactly one entry for it, with the bytes of the node's chunk *)
(* (build_hierarchy_payload behind the chunk-table walk).                  *)
(***************************************************************************)
THEOREM EveryNodeIsFound == Spec => []EveryNodeFound
<1>1. IInv /\ FileInv => EveryNodeFound
  BY NodesFound
<1> QED
  BY <1>1, Inductive, FileInductive, PTL

(***************************************************************************)
(* The pages that pointers mean tile the hierarchy and the temporal index, *)
(* and none of the hierarchy has two records for one key (the layout and   *)
(* the patches of build_hierarchy_payload and build_temporal_payload).     *)
(***************************************************************************)
THEOREM PagesDoTile == Spec => []PagesTile
<1>1. IInv /\ FileInv => PagesTile
  BY PagesTiled
<1> QED
  BY <1>1, Inductive, FileInductive, PTL

(***************************************************************************)
(* Skipping every page whose pointer's range misses a time loses no node   *)
(* with a point of that time, but for nodes with a NaN among their times,  *)
(* however the sort leaves those (the ranges and samples of                *)
(* build_temporal_payload behind the sort of each node).                   *)
(***************************************************************************)
THEOREM TimeSearchIsComplete == Spec => []TimeSearchComplete
<1>1. IInv /\ FileInv => TimeSearchComplete
  BY TimesFound
<1> QED
  BY <1>1, Inductive, FileInductive, PTL
=============================================================================
