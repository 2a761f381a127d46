-------------------------- MODULE Distribute_proofs --------------------------
(***************************************************************************)
(* For every input, number of threads, plan, batch size and cache          *)
(* capacity, in every interleaving of the workers and of the merges: the   *)
(* distribute pass puts every point of a chunk into its canonical file,    *)
(* once, in input order, and hands on exact counts.                        *)
(*                                                                         *)
(* The workers' slices are intervals of the input, one after the other, so *)
(* "in input order" is "in ascending order of the numbers".  The invariant *)
(* says, for each worker and chunk, that shard, buffer and group together  *)
(* are the ascending list of the chunk's points in what the worker has     *)
(* read, and for each chunk being merged, that the canonical file is the   *)
(* ascending list of the points of the workers before the next shard.      *)
(* Appending what lies above keeps a list ascending, and a set has one     *)
(* ascending list only: the rest is keeping account of the sets.           *)
(***************************************************************************)
EXTENDS Distribute, SequenceTheorems, FiniteSetTheorems, WellFoundedInduction, TLAPS

(***************************************************************************)
(* Numbers in ascending order                                              *)
(***************************************************************************)
\* A nonempty set of naturals has a least element.
LEMMA Least ==
    ASSUME NEW T, T \subseteq Nat, T # {}
    PROVE  \E n \in T : \A m \in T : n <= m
<1> DEFINE R == OpToRel(<, Nat)
<1>1. IsWellFoundedOn(R, Nat)
  BY NatLessThanWellFounded
<1>2. \A x, y \in Nat : <<x, y>> \in R <=> x < y
  BY DEF OpToRel
<1> HIDE DEF R
<1>3. PICK x \in T : \A y \in T : ~(<<y, x>> \in R)
  BY <1>1, WFMin
<1>4. \A y \in T : ~(y < x)
  BY <1>2, <1>3
<1> QED
  BY <1>4

\* s has the elements of S in ascending order.
Lists(s, S) ==
    /\ s \in Seq(S)
    /\ \A x \in S : \E i \in 1 .. Len(s) : s[i] = x
    /\ \A i, j \in 1 .. Len(s) : i < j => s[i] < s[j]

\* Two such lists do not differ first at a place where both have an element.
LEMMA SameElement ==
    ASSUME NEW S, S \subseteq Nat, NEW s, NEW t, Lists(s, S), Lists(t, S),
           NEW i \in 1 .. Len(s), i \in 1 .. Len(t),
           \A j \in 1 .. Len(s) : j < i => s[j] = t[j]
    PROVE  ~(s[i] < t[i])
<1> SUFFICES ASSUME s[i] < t[i] PROVE FALSE
  OBVIOUS
<1>1. s[i] \in S
  BY ElementOfSeq DEF Lists
<1>2. PICK j \in 1 .. Len(t) : t[j] = s[i]
  BY <1>1 DEF Lists
<1>3. t[i] \in S /\ t[j] \in S
  BY ElementOfSeq DEF Lists
<1>4. Len(s) \in Nat /\ Len(t) \in Nat
  BY LenProperties DEF Lists
<1> DEFINE u == t[i]
           v == t[j]
<1>9. u \in Nat /\ v \in Nat /\ v < u
  BY <1>1, <1>2, <1>3
<1>10. i < j => u < v
  BY DEF Lists
<1>11. i = j => u = v
  OBVIOUS
<1> HIDE DEF u, v
<1>5. j < i
  BY <1>4, <1>9, <1>10, <1>11
<1>6. j \in 1 .. Len(s) /\ s[j] = s[i]
  BY <1>2, <1>4, <1>5
<1>7. s[j] < s[i]
  BY <1>5, <1>6 DEF Lists
<1>8. s[i] \in Nat
  BY <1>1
<1> QED
  BY <1>6, <1>7, <1>8

\* Nor is one of them a longer continuation of the other.
LEMMA NoLonger ==
    ASSUME NEW S, S \subseteq Nat, NEW s, NEW t, Lists(s, S), Lists(t, S),
           \A j \in 1 .. Len(s) : j \in 1 .. Len(t) => s[j] = t[j]
    PROVE  Len(t) <= Len(s)
<1>1. Len(s) \in Nat /\ Len(t) \in Nat
  BY LenProperties DEF Lists
<1> SUFFICES ASSUME Len(s) < Len(t) PROVE FALSE
  BY <1>1
<1> DEFINE i == Len(s) + 1
<1>2. i \in 1 .. Len(t)
  BY <1>1
<1>3. t[i] \in S
  BY <1>2, ElementOfSeq DEF Lists
<1>4. PICK j \in 1 .. Len(s) : s[j] = t[i]
  BY <1>3 DEF Lists
<1>5. j \in 1 .. Len(t) /\ j < i /\ t[j] = t[i]
  BY <1>1, <1>4
<1>6. t[j] < t[i]
  BY <1>2, <1>5 DEF Lists
<1>7. t[i] \in Nat
  BY <1>3
<1> HIDE DEF i
<1> QED
  BY <1>5, <1>6, <1>7

\* There is one ascending list of a set at most.
LEMMA ListedOnce ==
    ASSUME NEW S, S \subseteq Nat, NEW s, NEW t, Lists(s, S), Lists(t, S)
    PROVE  s = t
<1>1. Len(s) \in Nat /\ Len(t) \in Nat
  BY LenProperties DEF Lists
<1> DEFINE D == {i \in 1 .. Len(s) : i \in 1 .. Len(t) /\ s[i] # t[i]}
<1>2. D = {}
  <2> SUFFICES ASSUME D # {} PROVE FALSE
    OBVIOUS
  <2>1. D \subseteq Nat
    BY <1>1
  <2>2. PICK i \in D : \A m \in D : i <= m
    BY <2>1, Least
  <2>3. i \in 1 .. Len(s) /\ i \in 1 .. Len(t) /\ s[i] # t[i]
    BY <2>2
  <2>4. \A j \in 1 .. Len(s) : j < i => s[j] = t[j]
    BY <1>1, <2>2, <2>3
  <2>5. \A j \in 1 .. Len(t) : j < i => t[j] = s[j]
    BY <1>1, <2>3, <2>4
  <2>6. ~(s[i] < t[i])
    BY <2>3, <2>4, SameElement
  <2>7. ~(t[i] < s[i])
    BY <2>3, <2>5, SameElement
  <2>8. s[i] \in Nat /\ t[i] \in Nat
    BY <2>3, ElementOfSeq DEF Lists
  <2> QED
    BY <2>3, <2>6, <2>7, <2>8
<1>3. \A j \in 1 .. Len(s) : j \in 1 .. Len(t) => s[j] = t[j]
  BY <1>2
<1>4. \A j \in 1 .. Len(t) : j \in 1 .. Len(s) => t[j] = s[j]
  BY <1>2
<1>5. Len(s) = Len(t)
  <2>1. Len(t) <= Len(s)
    BY <1>3, NoLonger
  <2>2. Len(s) <= Len(t)
    BY <1>4, NoLonger
  <2> QED
    BY <1>1, <2>1, <2>2
<1>6. s \in Seq(S) /\ t \in Seq(S)
  BY DEF Lists
<1> QED
  BY <1>3, <1>5, <1>6, SeqEqual

\* Appending a greater element.
LEMMA ListAppend ==
    ASSUME NEW T, T \subseteq Nat, NEW s, Lists(s, T), NEW m \in Nat,
           \A x \in T : x < m
    PROVE  Lists(Append(s, m), T \cup {m})
<1> DEFINE new == Append(s, m)
           U == T \cup {m}
<1>1. s \in Seq(T)
  BY DEF Lists
<1>2. s \in Seq(U) /\ m \in U
  BY <1>1, SeqMonotonic
<1>3. /\ new \in Seq(U) /\ Len(new) = Len(s) + 1 /\ Len(s) \in Nat
      /\ \A i \in 1 .. Len(s) : new[i] = s[i]
      /\ new[Len(s) + 1] = m
  BY <1>2, AppendProperties, LenProperties
<1> HIDE DEF new
<1>4. \A i \in 1 .. Len(s) : s[i] \in T
  BY <1>1, ElementOfSeq
<1>5. \A x \in U : \E i \in 1 .. Len(new) : new[i] = x
  <2> TAKE x \in U
  <2>1. CASE x = m
    BY <1>3, <2>1
  <2>2. CASE x \in T
    <3>1. PICK i \in 1 .. Len(s) : s[i] = x
      BY <2>2 DEF Lists
    <3> QED
      BY <1>3, <3>1
  <2> QED
    BY <2>1, <2>2
<1>6. ASSUME NEW i \in 1 .. Len(new), NEW j \in 1 .. Len(new), i < j
      PROVE  new[i] < new[j]
  <2>1. i \in 1 .. Len(s)
    BY <1>3, <1>6
  <2>2. CASE j \in 1 .. Len(s)
    BY <1>3, <1>6, <2>1, <2>2 DEF Lists
  <2>3. CASE j = Len(s) + 1
    BY <1>3, <1>4, <2>1, <2>3
  <2> QED
    BY <1>3, <2>2, <2>3
<1> HIDE DEF U
<1>7. Lists(new, U)
  BY <1>3, <1>5, <1>6 DEF Lists
<1> QED
  BY <1>7 DEF new, U

\* Every bounded set of naturals has an ascending list: otherwise take the
\* least bound of one that has none, and leave out its greatest element.
LEMMA ListExists ==
    ASSUME NEW n \in Nat, NEW S, S \subseteq 0 .. n - 1
    PROVE  \E s : Lists(s, S)
<1> DEFINE Bad == {k \in Nat : \E U \in SUBSET (0 .. k - 1) : ~(\E s : Lists(s, U))}
<1>1. SUFFICES ASSUME Bad # {} PROVE FALSE
  OBVIOUS
<1>2. PICK k \in Bad : \A m \in Bad : k <= m
  <2>1. Bad \subseteq Nat
    OBVIOUS
  <2> HIDE DEF Bad
  <2> QED
    BY <1>1, <2>1, Least
<1>3. PICK U \in SUBSET (0 .. k - 1) : ~(\E s : Lists(s, U))
  BY <1>2
<1>4. k \in Nat
  BY <1>2
<1>5. k # 0
  <2> SUFFICES ASSUME k = 0 PROVE FALSE
    OBVIOUS
  <2>1. U = {}
    BY <1>3
  <2>2. Lists(<<>>, {})
    BY EmptySeq DEF Lists
  <2> QED
    BY <1>3, <2>1, <2>2
<1> DEFINE T == U \ {k - 1}
<1>6. T \in SUBSET (0 .. k - 1 - 1) /\ k - 1 \in Nat
  BY <1>3, <1>4, <1>5
<1>7. k - 1 \notin Bad
  BY <1>2, <1>4, <1>6
<1>8. PICK s : Lists(s, T)
  BY <1>6, <1>7
<1>9. CASE k - 1 \in U
  <2>1. T \subseteq Nat /\ \A x \in T : x < k - 1
    BY <1>6
  <2>2. Lists(Append(s, k - 1), T \cup {k - 1})
    BY <1>6, <1>8, <2>1, ListAppend
  <2>3. T \cup {k - 1} = U
    BY <1>9
  <2> QED
    BY <1>3, <2>2, <2>3
<1>10. CASE k - 1 \notin U
  BY <1>3, <1>8, <1>10
<1> QED
  BY <1>9, <1>10

\* An ascending list is as long as its set is large.
LEMMA ListLength ==
    ASSUME NEW S, S \subseteq Nat, NEW s, Lists(s, S)
    PROVE  IsFiniteSet(S) /\ Cardinality(S) = Len(s)
<1>1. s \in [1 .. Len(s) -> S] /\ Len(s) \in Nat
  BY LenProperties DEF Lists
<1>2. s \in Injection(1 .. Len(s), S)
  <2>1. ASSUME NEW i \in 1 .. Len(s), NEW j \in 1 .. Len(s), s[i] = s[j] PROVE i = j
    <3>1. s[i] \in Nat /\ s[j] \in Nat
      BY <1>1
    <3>2. ~(i < j) /\ ~(j < i)
      BY <2>1, <3>1 DEF Lists
    <3> QED
      BY <1>1, <3>2
  <2> QED
    BY <1>1, <2>1 DEF Injection, IsInjective
<1>3. s \in Surjection(1 .. Len(s), S)
  BY <1>1 DEF Surjection, Lists
<1>4. IsFiniteSet(1 .. Len(s)) /\ Cardinality(1 .. Len(s)) = Len(s)
  <2>1. 1 \in Int /\ Len(s) \in Int
    BY <1>1
  <2>2. /\ IsFiniteSet(1 .. Len(s))
        /\ Cardinality(1 .. Len(s)) = IF 1 > Len(s) THEN 0 ELSE Len(s) - 1 + 1
    BY <2>1, FS_Interval
  <2> QED
    BY <1>1, <2>2
<1> QED
  BY <1>2, <1>3, <1>4, FS_Surjection

\* InOrder gives that list.
LEMMA InOrderLists ==
    ASSUME NEW n \in Nat, NEW S, S \subseteq 0 .. n - 1
    PROVE  Lists(InOrder(S), S)
<1>1. PICK s : Lists(s, S)
  BY ListExists
<1>2. S \subseteq Nat
  OBVIOUS
<1>3. Len(s) = Cardinality(S) /\ s \in [1 .. Len(s) -> S] /\ Len(s) \in Nat
      /\ DOMAIN s = 1 .. Len(s)
  BY <1>1, <1>2, ListLength, LenProperties DEF Lists
<1>4. ToSet(s) = S /\ Ascends(s)
  <2>1. \A i \in 1 .. Len(s) : s[i] \in S
    BY <1>3
  <2> QED
    BY <1>1, <1>3, <2>1 DEF Lists, ToSet, Ascends
<1> DEFINE o == InOrder(S)
<1>5. o \in [1 .. Cardinality(S) -> S] /\ ToSet(o) = S /\ Ascends(o)
  BY <1>3, <1>4 DEF InOrder
<1> HIDE DEF o
<1>6. o \in Seq(S) /\ Len(o) = Cardinality(S) /\ DOMAIN o = 1 .. Len(o)
  <2>1. Cardinality(S) \in Nat
    BY <1>3
  <2>2. o \in Seq(S)
    BY <1>5, <2>1, SeqDef
  <2>3. DOMAIN o = 1 .. Cardinality(S) /\ DOMAIN o = 1 .. Len(o) /\ Len(o) \in Nat
    BY <1>5, <2>2, LenProperties
  <2> QED
    BY <2>1, <2>2, <2>3
<1>7. Lists(o, S)
  BY <1>5, <1>6 DEF Lists, ToSet, Ascends
<1> QED
  BY <1>7 DEF o

\* And every ascending list is given by it.
LEMMA InOrderIs ==
    ASSUME NEW n \in Nat, NEW S, S \subseteq 0 .. n - 1, NEW s, Lists(s, S)
    PROVE  s = InOrder(S)
<1>1. Lists(InOrder(S), S)
  BY InOrderLists
<1>2. S \subseteq Nat
  OBVIOUS
<1> QED
  BY <1>1, <1>2, ListedOnce

\* What lies above comes after.
LEMMA InOrderConcat ==
    ASSUME NEW n \in Nat, NEW S, S \subseteq 0 .. n - 1, NEW T, T \subseteq 0 .. n - 1,
           \A x \in S, y \in T : x < y
    PROVE  InOrder(S) \o InOrder(T) = InOrder(S \cup T)
<1> DEFINE s == InOrder(S)
           t == InOrder(T)
           U == S \cup T
           u == s \o t
<1>1. Lists(s, S) /\ Lists(t, T)
  BY InOrderLists
<1> HIDE DEF s, t
<1>2. s \in Seq(S) /\ t \in Seq(T)
  BY <1>1 DEF Lists
<1>3. s \in Seq(U) /\ t \in Seq(U)
  BY <1>2, SeqMonotonic
<1>4. /\ Len(s) \in Nat /\ Len(t) \in Nat
      /\ u \in Seq(U) /\ Len(u) = Len(s) + Len(t)
  BY <1>3, ConcatProperties, LenProperties
<1>5. \A i \in 1 .. Len(s) + Len(t) : u[i] = IF i <= Len(s) THEN s[i] ELSE t[i - Len(s)]
  BY <1>3, ConcatProperties
<1> HIDE DEF u
<1>6. \A i \in 1 .. Len(s) : i \in 1 .. Len(u) /\ u[i] = s[i] /\ s[i] \in S
  BY <1>2, <1>4, <1>5, ElementOfSeq
<1>7. \A i \in 1 .. Len(t) : Len(s) + i \in 1 .. Len(u) /\ u[Len(s) + i] = t[i]
  BY <1>4, <1>5
<1>8. ASSUME NEW i \in 1 .. Len(u), i > Len(s)
      PROVE  i - Len(s) \in 1 .. Len(t) /\ u[i] = t[i - Len(s)] /\ t[i - Len(s)] \in T
  <2>1. i - Len(s) \in 1 .. Len(t)
    BY <1>4, <1>8
  <2>2. u[i] = t[i - Len(s)]
    BY <1>4, <1>5, <1>8
  <2> QED
    BY <1>2, <2>1, <2>2, ElementOfSeq
<1>9. \A x \in U : \E i \in 1 .. Len(u) : u[i] = x
  <2> TAKE x \in U
  <2>1. CASE x \in S
    <3>1. PICK i \in 1 .. Len(s) : s[i] = x
      BY <1>1, <2>1 DEF Lists
    <3> QED
      BY <1>6, <3>1
  <2>2. CASE x \in T
    <3>1. PICK i \in 1 .. Len(t) : t[i] = x
      BY <1>1, <2>2 DEF Lists
    <3> QED
      BY <1>7, <3>1
  <2> QED
    BY <2>1, <2>2
<1>10. ASSUME NEW i \in 1 .. Len(u), NEW j \in 1 .. Len(u), i < j
       PROVE  u[i] < u[j]
  <2>1. CASE j <= Len(s)
    <3>1. i \in 1 .. Len(s) /\ j \in 1 .. Len(s)
      BY <1>4, <1>10, <2>1
    <3> QED
      BY <1>1, <1>6, <1>10, <3>1 DEF Lists
  <2>2. CASE i <= Len(s) /\ j > Len(s)
    <3>1. i \in 1 .. Len(s)
      BY <1>4, <2>2
    <3>2. u[i] \in S /\ u[j] \in T
      BY <1>6, <1>8, <2>2, <3>1
    <3> QED
      BY <3>2
  <2>3. CASE i > Len(s) /\ j > Len(s)
    <3>1. i - Len(s) < j - Len(s)
      BY <1>4, <1>10
    <3>2. t[i - Len(s)] < t[j - Len(s)]
      BY <1>1, <1>8, <2>3, <3>1 DEF Lists
    <3> QED
      BY <1>8, <2>3, <3>2
  <2> QED
    BY <1>4, <1>10, <2>1, <2>2, <2>3
<1>11. Lists(u, U)
  BY <1>4, <1>9, <1>10 DEF Lists
<1>12. U \subseteq 0 .. n - 1
  OBVIOUS
<1>13. u = InOrder(U)
  BY <1>11, <1>12, InOrderIs
<1> QED
  BY <1>13 DEF u, s, t

(***************************************************************************)
(* The inductive invariant                                                 *)
(***************************************************************************)
\* The last point of the files up to f.
Bound(f) == IF f = 0 THEN 0 ELSE IF f < NumFiles THEN FileEnds[f] ELSE NumPoints

\* The last point before the slice of worker w.
Edge(w) == Bound(w * FilesPerWorker)

\* What a worker is to put into chunk c, what it has read of it, and all of c.
Slice(w, c) == {p \in Edge(w) + 1 .. Edge(w + 1) : chunkOf[p] = c}
Seen(w, c)  == {p \in Edge(w) + 1 .. next[w] - 1 : chunkOf[p] = c}
All(c)      == {p \in Points : chunkOf[p] = c}

\* A worker is within its slice.
Reading(w) ==
    IF FirstFile(w) > NumFiles
    THEN file[w] = FirstFile(w) /\ next[w] = 1
    ELSE /\ file[w] \in FirstFile(w) .. LastFile(w) + 1
         /\ Bound(file[w] - 1) < next[w]
         /\ next[w] <= (IF file[w] <= LastFile(w) THEN Bound(file[w]) ELSE Edge(w + 1)) + 1

\* The list and the map of the cache agree, and keep to the capacity.
CacheSound(w) ==
    /\ \A i \in 1 .. Len(order[w]) : order[w][i] \in DOMAIN buffered[w]
    /\ \A c \in DOMAIN buffered[w] : \E i \in 1 .. Len(order[w]) : order[w][i] = c
    /\ \A i, j \in 1 .. Len(order[w]) : order[w][i] = order[w][j] => i = j
    /\ Len(order[w]) <= Capacity

\* What has been read of c is in the shard, the buffer and the group, in order.
HoldsSeen(w, c) == InShard(w, c) \o Buffered(w, c) \o groups[w][c] = InOrder(Seen(w, c))

\* A worker that has ended well has read its slice and flushed.
EndedWell(w) ==
    status[w] = "ok" => file[w] > LastFile(w) /\ DOMAIN buffered[w] = {} /\ Drained(w)

WorkerSound(w) ==
    /\ Reading(w) /\ CacheSound(w) /\ EndedWell(w)
    /\ status[w] # "err" => \A c \in Chunks : merging[c].at = "todo" => HoldsSeen(w, c)

\* No chunk is merged before every worker has ended well.
PhasesInOrder ==
    /\ phase = "distributing" => \A c \in Chunks : merging[c].at = "todo"
    /\ phase \in {"merging", "done"} \/ (\E c \in Chunks : merging[c].at # "todo")
          => \A w \in Workers : status[w] = "ok"
    /\ phase = "done" => stashed = counts /\ \A c \in Chunks : merging[c].at = "ok"

\* The points of c in the shards that are still to be copied.
Left(c) == UNION {Slice(w, c) : w \in ToSet(merging[c].left)}

\* A canonical file has what the workers before the next shard put into c.
ChunkSound(c) ==
    /\ merging[c].at = "ok" => c \in DOMAIN canonical /\ canonical[c] = InOrder(All(c))
    /\ merging[c].at = "copying" =>
          /\ c \in DOMAIN canonical /\ canonical[c] = InOrder(All(c) \ Left(c))
          /\ Ascends(merging[c].left)
          /\ \A w \in ToSet(merging[c].left) :
                c \in DOMAIN shard[w] /\ shard[w][c] = InOrder(Slice(w, c))
          /\ \A w \in Workers : \/ w \in ToSet(merging[c].left)
                                \/ Slice(w, c) = {}
                                \/ \A v \in ToSet(merging[c].left) : w < v

\* The points of c that were handed to the cache.
Appended(c) == {p \in All(c) : \E w \in Workers : p \in Seen(w, c) /\ p \notin ToSet(groups[w][c])}

\* The tallies count them.
Tallied ==
    (\A w \in Workers : status[w] # "err")
        => \A c \in Chunks : counts[c] = Cardinality(Appended(c))

IInv ==
    /\ TypeOK
    /\ \A w \in Workers : WorkerSound(w)
    /\ PhasesInOrder
    /\ \A c \in Chunks : ChunkSound(c)
    /\ Tallied

(***************************************************************************)
(* The slices of the workers                                               *)
(***************************************************************************)
\* Dividing and rounding up.
LEMMA DivideUp ==
    ASSUME NEW a \in Nat, NEW n \in Nat \ {0}
    PROVE  /\ (a + n - 1) \div n \in Nat
           /\ a <= n * ((a + n - 1) \div n)
           /\ a > 0 => (a + n - 1) \div n > 0
<1> DEFINE m == a + n - 1
           q == m \div n
           r == m % n
<1>1. m \in Nat /\ n \in Nat /\ n > 0
  OBVIOUS
<1>2. q \in Int /\ r \in 0 .. n - 1 /\ m = n * q + r
  BY <1>1
<1> DEFINE product == n * q
<1>3. product \in Int /\ (q = 0 => product = 0) /\ (q < 0 => product < 0) /\ (q > 0 => product > 0)
  BY <1>1, <1>2
<1> HIDE DEF q, r
<1>4. m = product + r
  BY <1>2
<1> HIDE DEF product
<1>5. a <= product /\ product + n > 0
  BY <1>1, <1>2, <1>3, <1>4
<1>6. ~(q < 0)
  <2> SUFFICES ASSUME q < 0 PROVE FALSE
    OBVIOUS
  <2>1. product < 0
    BY <1>3
  <2> QED
    BY <1>3, <1>5, <2>1
<1>7. a > 0 => q > 0
  BY <1>2, <1>3, <1>5, <1>6
<1>8. q \in Nat
  BY <1>2, <1>6
<1> QED
  BY <1>5, <1>7, <1>8 DEF q, product

\* Multiples of a natural grow.
LEMMA Multiples ==
    ASSUME NEW v \in Nat, NEW w \in Nat, NEW p \in Nat, v <= w
    PROVE  v * p \in Nat /\ w * p \in Nat /\ v * p <= w * p
           /\ (w + 1) * p = w * p + p
<1>1. v * p \in Nat /\ w * p \in Nat /\ (w + 1) * p = w * p + p
  OBVIOUS
<1>2. (w - v) * p \in Nat
  <2>1. w - v \in Nat
    OBVIOUS
  <2> QED
    BY <2>1
<1>3. (w - v) * p = w * p - v * p
  OBVIOUS
<1> QED
  BY <1>1, <1>2, <1>3

\* What is assumed of the constants, and the types it gives.
LEMMA Assumed ==
    /\ FileEnds \in Seq(Nat) /\ NumFiles \in Nat
    /\ \A f \in 1 .. NumFiles : FileEnds[f] \in Nat
    /\ \A f \in 2 .. NumFiles : FileEnds[f - 1] <= FileEnds[f]
    /\ NumPoints \in Nat
    /\ BatchSize \in Nat \ {0} /\ Capacity \in Nat \ {0}
<1>1. FileEnds \in Seq(Nat) /\ NumFiles \in Nat
  BY DistributeAssumption, LenProperties DEF NumFiles
<1>2. \A f \in 1 .. NumFiles : FileEnds[f] \in Nat
  BY <1>1, ElementOfSeq DEF NumFiles
<1>3. NumPoints \in Nat
  BY <1>1, <1>2 DEF NumPoints
<1> QED
  BY <1>1, <1>2, <1>3, DistributeAssumption

\* There is a worker, and the workers' slices take up all files.
LEMMA WorkersSuffice ==
    /\ NumWorkers \in Nat \ {0} /\ FilesPerWorker \in Nat
    /\ NumFiles <= NumWorkers * FilesPerWorker
    /\ NumFiles > 0 => FilesPerWorker > 0
<1>1. NumWorkers \in Nat \ {0}
  <2> DEFINE target == IF (Cores * 2) \div 3 < 2 THEN 2 ELSE (Cores * 2) \div 3
  <2>1. target \in Nat \ {0}
    BY DistributeAssumption
  <2> HIDE DEF target
  <2>2. NumWorkers = IF NumFiles = 0 THEN 1 ELSE IF target < NumFiles THEN target ELSE NumFiles
    BY DEF NumWorkers, target
  <2> QED
    BY <2>1, <2>2, Assumed
<1> QED
  BY <1>1, Assumed, DivideUp DEF FilesPerWorker

\* Files end one after the other.
LEMMA BoundGrows ==
    ASSUME NEW f \in Nat, NEW g \in Nat, f <= g
    PROVE  Bound(f) \in Nat /\ Bound(f) <= Bound(g) /\ Bound(f) <= NumPoints
<1>1. \A h \in Nat : Bound(h) \in Nat
  BY Assumed DEF Bound
<1>2. \A h \in Nat : Bound(h) <= Bound(h + 1)
  <2> TAKE h \in Nat
  <2>1. CASE h = 0
    BY <1>1, <2>1 DEF Bound
  <2>2. CASE h > 0 /\ h + 1 < NumFiles
    <3>1. Bound(h) = FileEnds[h] /\ Bound(h + 1) = FileEnds[h + 1]
      BY <2>2, Assumed DEF Bound
    <3>2. h + 1 \in 2 .. NumFiles /\ h + 1 - 1 = h
      BY <2>2, Assumed
    <3> QED
      BY <3>1, <3>2, Assumed
  <2>3. CASE h > 0 /\ h + 1 = NumFiles
    <3>1. Bound(h) = FileEnds[h] /\ Bound(h + 1) = FileEnds[h + 1]
      BY <2>3, Assumed DEF Bound, NumPoints
    <3>2. h + 1 \in 2 .. NumFiles /\ h + 1 - 1 = h
      BY <2>3, Assumed
    <3> QED
      BY <3>1, <3>2, Assumed
  <2>4. CASE h > 0 /\ h + 1 > NumFiles
    BY <2>4, Assumed DEF Bound
  <2> QED
    BY <2>1, <2>2, <2>3, <2>4, Assumed
<1>3. ASSUME NEW h \in Nat PROVE Bound(h) <= NumPoints
  <2>1. CASE h >= NumFiles
    BY <2>1, Assumed DEF Bound, NumPoints
  <2>2. CASE h < NumFiles
    <3> DEFINE D == {d \in Nat : d <= NumFiles /\ ~(Bound(NumFiles - d) <= NumPoints)}
    <3>1. CASE D # {}
      <4>1. D \subseteq Nat
        OBVIOUS
      <4>2. PICK d \in D : \A e \in D : d <= e
        BY <3>1, <4>1, Least
      <4>3. d # 0
        BY <4>2, Assumed DEF Bound, NumPoints
      <4>4. d - 1 \notin D /\ d - 1 \in Nat /\ d <= NumFiles
        BY <4>2, <4>3
      <4>5. Bound(NumFiles - (d - 1)) <= NumPoints
        BY <4>4, Assumed
      <4>6. NumFiles - d \in Nat /\ NumFiles - (d - 1) = NumFiles - d + 1
        BY <4>4, Assumed
      <4>7. Bound(NumFiles - d) <= Bound(NumFiles - (d - 1))
        BY <1>2, <4>6
      <4>8. Bound(NumFiles - d) \in Nat /\ Bound(NumFiles - (d - 1)) \in Nat
        BY <1>1, <4>6
      <4> QED
        BY <4>2, <4>5, <4>7, <4>8, Assumed
    <3>2. CASE D = {}
      <4>1. NumFiles - h \in Nat /\ NumFiles - h <= NumFiles /\ NumFiles - (NumFiles - h) = h
        BY <2>2, Assumed
      <4> QED
        BY <3>2, <4>1
    <3> QED
      BY <3>1, <3>2
  <2> QED
    BY <2>1, <2>2, Assumed
<1>4. Bound(f) <= Bound(g)
  <2> DEFINE D == {d \in Nat : ~(Bound(f) <= Bound(f + d))}
  <2>1. CASE D # {}
    <3>1. D \subseteq Nat
      OBVIOUS
    <3>2. PICK d \in D : \A e \in D : d <= e
      BY <2>1, <3>1, Least
    <3>3. d # 0
      BY <1>1, <3>2
    <3>4. d - 1 \notin D /\ d - 1 \in Nat
      BY <3>2, <3>3
    <3>5. Bound(f) <= Bound(f + (d - 1))
      BY <3>4
    <3>6. f + (d - 1) \in Nat /\ f + (d - 1) + 1 = f + d /\ f + d \in Nat
      BY <3>4
    <3>7. Bound(f + (d - 1)) <= Bound(f + d)
      BY <1>2, <3>6
    <3>8. Bound(f) \in Nat /\ Bound(f + (d - 1)) \in Nat /\ Bound(f + d) \in Nat
      BY <1>1, <3>6
    <3> QED
      BY <3>2, <3>5, <3>7, <3>8
  <2>2. CASE D = {}
    <3>1. g - f \in Nat /\ f + (g - f) = g
      OBVIOUS
    <3> QED
      BY <2>2, <3>1
  <2> QED
    BY <2>1, <2>2
<1> QED
  BY <1>1, <1>3, <1>4

\* Workers are numbered from 0.
LEMMA WorkerNumbers ==
    ASSUME NEW w \in Workers
    PROVE  w \in Nat /\ w + 1 \in Nat /\ w + 1 <= NumWorkers
BY WorkersSuffice DEF Workers

\* Slices are one after the other, from the first point to the last.
LEMMA Edges ==
    /\ Edge(0) = 0 /\ Edge(NumWorkers) = NumPoints
    /\ \A v, w \in Nat : v <= w =>
          Edge(v) \in Nat /\ Edge(w) \in Nat /\ Edge(v) <= Edge(w) /\ Edge(w) <= NumPoints
<1>1. Edge(0) = 0
  <2>1. 0 * FilesPerWorker = 0
    BY WorkersSuffice
  <2> QED
    BY <2>1 DEF Edge, Bound
<1>2. Edge(NumWorkers) = NumPoints
  <2> DEFINE n == NumWorkers * FilesPerWorker
  <2>1. n \in Nat /\ NumFiles <= n
    BY WorkersSuffice
  <2> HIDE DEF n
  <2>2. Bound(n) = NumPoints
    BY <2>1, Assumed DEF Bound, NumPoints
  <2> QED
    BY <2>2 DEF Edge, n
<1>3. ASSUME NEW v \in Nat, NEW w \in Nat, v <= w
      PROVE  Edge(v) \in Nat /\ Edge(w) \in Nat /\ Edge(v) <= Edge(w) /\ Edge(w) <= NumPoints
  <2> DEFINE a == v * FilesPerWorker
             b == w * FilesPerWorker
  <2>1. a \in Nat /\ b \in Nat /\ a <= b
    BY <1>3, WorkersSuffice, Multiples
  <2> HIDE DEF a, b
  <2>2. Bound(a) \in Nat /\ Bound(a) <= Bound(b)
    BY <2>1, BoundGrows
  <2>3. Bound(b) \in Nat /\ Bound(b) <= NumPoints
    BY <2>1, BoundGrows
  <2> QED
    BY <2>2, <2>3 DEF Edge, a, b
<1> QED
  BY <1>1, <1>2, <1>3

\* Every point is in the slice of a worker.
LEMMA SlicesCover ==
    ASSUME NEW p \in Points
    PROVE  \E w \in Workers : p \in Edge(w) + 1 .. Edge(w + 1)
<1>1. p \in Nat /\ 1 <= p /\ p <= NumPoints
  BY Assumed DEF Points
<1> DEFINE T == {n \in Nat : n <= NumWorkers /\ p <= Edge(n)}
<1>2. NumWorkers \in T
  BY <1>1, WorkersSuffice, Edges
<1>3. PICK n \in T : \A m \in T : n <= m
  <2>1. T \subseteq Nat /\ T # {}
    BY <1>2
  <2> QED
    BY <2>1, Least
<1>4. n \in Nat /\ n <= NumWorkers /\ p <= Edge(n)
  BY <1>3
<1>5. n # 0
  BY <1>1, <1>4, Edges
<1>6. n - 1 \in Nat /\ n - 1 + 1 = n /\ n - 1 <= NumWorkers
  BY <1>4, <1>5, WorkersSuffice
<1>7. n - 1 \in Workers
  BY <1>4, <1>6, WorkersSuffice DEF Workers
<1>8. n - 1 \notin T
  BY <1>3, <1>6
<1>9. Edge(n - 1) \in Nat /\ Edge(n) \in Nat
  BY <1>4, <1>6, Edges
<1>10. Edge(n - 1) < p
  BY <1>1, <1>6, <1>8, <1>9
<1>11. p \in Edge(n - 1) + 1 .. Edge(n - 1 + 1)
  BY <1>1, <1>4, <1>6, <1>9, <1>10
<1> QED
  BY <1>7, <1>11

\* The points of a later worker are later.
LEMMA SlicesApart ==
    ASSUME NEW v \in Workers, NEW w \in Workers, v < w,
           NEW p \in Edge(v) + 1 .. Edge(v + 1), NEW q \in Edge(w) + 1 .. Edge(w + 1)
    PROVE  p < q
<1>1. v \in Nat /\ w \in Nat /\ v + 1 \in Nat /\ w + 1 \in Nat
  BY WorkerNumbers
<1>2. v + 1 <= w
  BY <1>1
<1>3. Edge(v + 1) <= Edge(w) /\ Edge(v + 1) \in Nat /\ Edge(w) \in Nat
  BY <1>1, <1>2, Edges
<1>4. Edge(v) \in Nat /\ Edge(w + 1) \in Nat
  BY <1>1, Edges
<1> QED
  BY <1>3, <1>4

\* Where a slice begins and ends, in files.
LEMMA SliceFiles ==
    ASSUME NEW w \in Workers
    PROVE  /\ FirstFile(w) \in Nat \ {0} /\ LastFile(w) \in Nat /\ LastFile(w) <= NumFiles
           /\ FirstFile(w) <= NumFiles <=> FirstFile(w) <= LastFile(w)
           /\ Bound(FirstFile(w) - 1) = Edge(w)
           /\ FirstFile(w) <= NumFiles => Bound(LastFile(w)) = Edge(w + 1)
           /\ FirstFile(w) > NumFiles => Edge(w) = NumPoints
<1>1. w \in Nat /\ w + 1 \in Nat
  BY WorkerNumbers
<1> DEFINE a == w * FilesPerWorker
           b == (w + 1) * FilesPerWorker
<1>2. a \in Nat /\ b = a + FilesPerWorker /\ b \in Nat
  BY <1>1, WorkersSuffice, Multiples
<1>3. FirstFile(w) = a + 1 /\ LastFile(w) = IF b < NumFiles THEN b ELSE NumFiles
  BY DEF FirstFile, LastFile
<1>4. Edge(w) = Bound(a) /\ Edge(w + 1) = Bound(b)
  BY DEF Edge
<1> HIDE DEF a, b
<1>5. FirstFile(w) \in Nat \ {0} /\ LastFile(w) \in Nat /\ LastFile(w) <= NumFiles
  BY <1>2, <1>3, Assumed
<1>6. FirstFile(w) <= NumFiles <=> FirstFile(w) <= LastFile(w)
  BY <1>2, <1>3, Assumed, WorkersSuffice
<1>7. Bound(FirstFile(w) - 1) = Edge(w)
  <2>1. FirstFile(w) - 1 = a
    BY <1>2, <1>3
  <2> QED
    BY <1>4, <2>1
<1>8. ASSUME FirstFile(w) <= NumFiles PROVE Bound(LastFile(w)) = Edge(w + 1)
  <2>1. CASE b < NumFiles
    BY <1>3, <1>4, <2>1
  <2>2. CASE ~(b < NumFiles)
    <3>1. Bound(b) = NumPoints /\ Bound(NumFiles) = NumPoints
      BY <1>2, <2>2, Assumed DEF Bound, NumPoints
    <3> QED
      BY <1>3, <1>4, <2>2, <3>1
  <2> QED
    BY <2>1, <2>2
<1>9. ASSUME FirstFile(w) > NumFiles PROVE Edge(w) = NumPoints
  <2>1. CASE a = 0
    BY <1>2, <1>3, <1>4, <1>9, <2>1, Assumed DEF Bound, NumPoints
  <2>2. CASE a # 0
    BY <1>2, <1>3, <1>4, <1>9, <2>2, Assumed DEF Bound
  <2> QED
    BY <2>1, <2>2
<1> QED
  BY <1>5, <1>6, <1>7, <1>8, <1>9

\* What a worker that keeps to its slice has read is in it.
LEMMA ReadingWithin ==
    ASSUME NEW w \in Workers, Reading(w), file[w] \in Nat, next[w] \in Nat
    PROVE  /\ next[w] - 1 <= Edge(w + 1)
           /\ Edge(w) \in Nat /\ Edge(w + 1) \in Nat /\ Edge(w) <= Edge(w + 1)
           /\ Edge(w + 1) <= NumPoints
           /\ FirstFile(w) <= NumFiles => Edge(w) <= next[w] - 1
           /\ file[w] <= LastFile(w) =>
                 /\ FirstFile(w) <= NumFiles
                 /\ file[w] \in 1 .. NumFiles
                 /\ FileEnds[file[w]] = Bound(file[w]) /\ FileEnds[file[w]] \in Nat
                 /\ FileEnds[file[w]] <= Edge(w + 1)
                 /\ next[w] <= FileEnds[file[w]] + 1
<1>1. w \in Nat /\ w + 1 \in Nat /\ w <= w + 1
  BY WorkerNumbers
<1>2. Edge(w) \in Nat /\ Edge(w + 1) \in Nat /\ Edge(w) <= Edge(w + 1)
      /\ Edge(w + 1) <= NumPoints
  BY <1>1, Edges
<1> DEFINE first == FirstFile(w)
           last  == LastFile(w)
           f == file[w]
           n == next[w]
<1>3. /\ first \in Nat \ {0} /\ last \in Nat /\ last <= NumFiles
      /\ first <= NumFiles <=> first <= last
      /\ Bound(first - 1) = Edge(w)
      /\ first <= NumFiles => Bound(last) = Edge(w + 1)
      /\ first > NumFiles => Edge(w) = NumPoints
  BY SliceFiles
<1>4. IF first > NumFiles
      THEN f = first /\ n = 1
      ELSE /\ f \in first .. last + 1
           /\ Bound(f - 1) < n
           /\ n <= (IF f <= last THEN Bound(f) ELSE Edge(w + 1)) + 1
  BY DEF Reading
<1> HIDE DEF first, last
<1>5. NumFiles \in Nat /\ f \in Nat /\ n \in Nat /\ NumPoints \in Nat
  BY Assumed
<1> HIDE DEF f, n
<1>6. CASE first > NumFiles
  <2>1. f = first /\ n = 1
    BY <1>4, <1>6
  <2>2. ~(f <= last)
    BY <1>3, <1>5, <1>6, <2>1
  <2> QED
    BY <1>2, <1>3, <1>5, <1>6, <2>1, <2>2 DEF first, last, f, n
<1>7. CASE ~(first > NumFiles)
  <2>1. f \in first .. last + 1 /\ Bound(f - 1) < n
    BY <1>4, <1>7
  <2>2. n <= (IF f <= last THEN Bound(f) ELSE Edge(w + 1)) + 1
    BY <1>4, <1>7
  <2>3. first - 1 \in Nat /\ f - 1 \in Nat /\ first - 1 <= f - 1
    BY <1>3, <2>1
  <2>4. Bound(f - 1) \in Nat /\ Edge(w) <= Bound(f - 1)
    BY <1>2, <1>3, <2>3, BoundGrows
  <2>5. CASE f <= last
    <3>1. f \in 1 .. NumFiles
      BY <1>3, <1>5, <2>1, <2>5
    <3>2. FileEnds[f] = Bound(f) /\ FileEnds[f] \in Nat
      BY <3>1, Assumed DEF Bound, NumPoints
    <3>3. Bound(f) <= Bound(last)
      BY <1>3, <1>5, <2>5, BoundGrows
    <3>4. Bound(last) = Edge(w + 1)
      BY <1>3, <1>5, <1>7
    <3>5. n <= Bound(f) + 1
      BY <2>2, <2>5
    <3>6. n - 1 <= Edge(w + 1)
      BY <1>2, <1>5, <3>2, <3>3, <3>4, <3>5
    <3>7. Edge(w) <= n - 1
      BY <1>2, <1>5, <2>1, <2>4
    <3>8. first <= NumFiles
      BY <1>3, <1>5, <1>7
    <3>9. FileEnds[f] <= Edge(w + 1) /\ n <= FileEnds[f] + 1
      BY <3>2, <3>3, <3>4, <3>5
    <3> QED
      BY <1>2, <3>1, <3>2, <3>6, <3>7, <3>8, <3>9 DEF first, last, f, n
  <2>6. CASE ~(f <= last)
    <3>1. n <= Edge(w + 1) + 1
      BY <2>2, <2>6
    <3>2. n - 1 <= Edge(w + 1)
      BY <1>2, <1>5, <3>1
    <3>3. Edge(w) <= n - 1
      BY <1>2, <1>5, <2>1, <2>4
    <3> QED
      BY <1>2, <2>6, <3>2, <3>3 DEF first, last, f, n
  <2> QED
    BY <2>5, <2>6
<1> QED
  BY <1>6, <1>7

\* The same of sets of points.
LEMMA PointList ==
    ASSUME NEW S, S \subseteq Points
    PROVE  /\ Lists(InOrder(S), S) /\ InOrder(S) \in Seq(Points)
           /\ S \subseteq Nat /\ IsFiniteSet(S) /\ Cardinality(S) = Len(InOrder(S))
           /\ ToSet(InOrder(S)) = S
<1> DEFINE n == NumPoints + 1
<1>1. n \in Nat /\ S \subseteq 0 .. n - 1 /\ S \subseteq Nat
  BY Assumed DEF Points
<1> HIDE DEF n
<1>2. Lists(InOrder(S), S)
  BY <1>1, InOrderLists
<1>3. InOrder(S) \in Seq(S)
  BY <1>2 DEF Lists
<1>4. InOrder(S) \in Seq(Points)
  BY <1>3, SeqMonotonic
<1>5. IsFiniteSet(S) /\ Cardinality(S) = Len(InOrder(S))
  BY <1>1, <1>2, ListLength
<1>6. ToSet(InOrder(S)) = S
  <2> DEFINE o == InOrder(S)
  <2>1. DOMAIN o = 1 .. Len(o) /\ \A i \in 1 .. Len(o) : o[i] \in S
    BY <1>3, LenProperties, ElementOfSeq
  <2>2. \A x \in S : \E i \in 1 .. Len(o) : o[i] = x
    BY <1>2 DEF Lists
  <2> HIDE DEF o
  <2>3. ToSet(o) = S
    BY <2>1, <2>2 DEF ToSet
  <2> QED
    BY <2>3 DEF o
<1> QED
  BY <1>1, <1>2, <1>4, <1>5, <1>6

\* Every ascending list of points is the one InOrder gives.
LEMMA PointListIs ==
    ASSUME NEW S, S \subseteq Points, NEW s, Lists(s, S)
    PROVE  s = InOrder(S)
<1> DEFINE n == NumPoints + 1
<1>1. n \in Nat /\ S \subseteq 0 .. n - 1
  BY Assumed DEF Points
<1> HIDE DEF n
<1> QED
  BY <1>1, InOrderIs

\* Later points come after, in the list too.
LEMMA PointConcat ==
    ASSUME NEW S, S \subseteq Points, NEW T, T \subseteq Points, \A x \in S, y \in T : x < y
    PROVE  InOrder(S) \o InOrder(T) = InOrder(S \cup T)
<1> DEFINE n == NumPoints + 1
<1>1. n \in Nat /\ S \subseteq 0 .. n - 1 /\ T \subseteq 0 .. n - 1
  BY Assumed DEF Points
<1> HIDE DEF n
<1> QED
  BY <1>1, InOrderConcat

\* The empty list is that of the empty set only.
LEMMA EmptyList ==
    ASSUME NEW S, S \subseteq Points
    PROVE  InOrder(S) = <<>> <=> S = {}
<1>1. Lists(InOrder(S), S) /\ InOrder(S) \in Seq(Points)
  BY PointList
<1>2. ASSUME InOrder(S) = <<>> PROVE S = {}
  BY <1>1, <1>2 DEF Lists
<1>3. ASSUME S = {} PROVE InOrder(S) = <<>>
  <2>1. Lists(<<>>, S)
    BY <1>3, EmptySeq DEF Lists
  <2> QED
    BY <2>1, PointListIs
<1> QED
  BY <1>2, <1>3

(***************************************************************************)
(* Parts of the state                                                      *)
(***************************************************************************)
\* What the type invariant says of one worker.
LEMMA WorkerTypes ==
    ASSUME TypeOK, NEW w \in Workers
    PROVE  /\ file[w] \in Nat /\ next[w] \in Nat
           /\ order[w] \in Seq(Chunks)
           /\ DOMAIN buffered[w] \subseteq DOMAIN shard[w]
           /\ DOMAIN buffered[w] \subseteq Chunks /\ DOMAIN shard[w] \subseteq Chunks
           /\ \A c \in DOMAIN buffered[w] : buffered[w][c] \in Seq(Points)
           /\ \A c \in DOMAIN shard[w] : shard[w][c] \in Seq(Points)
           /\ \A c \in Chunks : /\ groups[w][c] \in Seq(Points)
                                /\ InShard(w, c) \in Seq(Points)
                                /\ Buffered(w, c) \in Seq(Points)
<1>1. IsFiles(buffered[w]) /\ IsFiles(shard[w]) /\ DOMAIN buffered[w] \subseteq DOMAIN shard[w]
  BY DEF TypeOK
<1>2. /\ file[w] \in Nat /\ next[w] \in Nat /\ order[w] \in Seq(Chunks)
      /\ \A c \in Chunks : groups[w][c] \in Seq(Points)
  BY DEF TypeOK
<1>3. \A c \in DOMAIN buffered[w] : buffered[w][c] \in Seq(Points)
  BY <1>1 DEF IsFiles
<1>4. \A c \in DOMAIN shard[w] : shard[w][c] \in Seq(Points)
  BY <1>1 DEF IsFiles
<1>5. <<>> \in Seq(Points)
  BY EmptySeq
<1> QED
  BY <1>1, <1>2, <1>3, <1>4, <1>5 DEF IsFiles, InShard, Buffered

\* The points of a slice are points.
LEMMA SliceBounded ==
    ASSUME NEW w \in Workers, NEW c
    PROVE  Slice(w, c) \subseteq Points
<1>1. w \in Nat /\ w + 1 \in Nat /\ w <= w + 1
  BY WorkerNumbers
<1>2. Edge(w) \in Nat /\ Edge(w + 1) \in Nat /\ Edge(w + 1) <= NumPoints
  BY <1>1, Edges
<1> QED
  BY <1>2, Assumed DEF Slice, Points

\* What was read is of the slice, and what is read at the end is all of it.
LEMMA SeenInSlice ==
    ASSUME TypeOK, NEW w \in Workers, Reading(w), NEW c
    PROVE  /\ Seen(w, c) \subseteq Slice(w, c)
           /\ Seen(w, c) \subseteq Points
           /\ file[w] > LastFile(w) => Seen(w, c) = Slice(w, c)
<1>1. file[w] \in Nat /\ next[w] \in Nat
  BY WorkerTypes
<1>2. /\ next[w] - 1 <= Edge(w + 1) /\ Edge(w) \in Nat /\ Edge(w + 1) \in Nat
  BY <1>1, ReadingWithin
<1>3. Seen(w, c) \subseteq Slice(w, c)
  BY <1>1, <1>2 DEF Seen, Slice
<1>4. ASSUME file[w] > LastFile(w) PROVE Slice(w, c) \subseteq Seen(w, c)
  <2>1. CASE FirstFile(w) > NumFiles
    <3>1. Edge(w) = NumPoints
      BY <2>1, SliceFiles
    <3>2. Slice(w, c) = {}
      <4>1. w \in Nat /\ w + 1 \in Nat /\ w <= w + 1
        BY WorkerNumbers
      <4>2. Edge(w + 1) <= NumPoints
        BY <4>1, Edges
      <4> QED
        BY <1>2, <3>1, <4>2, Assumed DEF Slice
    <3> QED
      BY <3>2
  <2>2. CASE ~(FirstFile(w) > NumFiles)
    <3>1. /\ file[w] \in FirstFile(w) .. LastFile(w) + 1
          /\ Bound(file[w] - 1) < next[w]
      BY <2>2 DEF Reading
    <3>2. /\ FirstFile(w) \in Nat \ {0} /\ LastFile(w) \in Nat
      BY SliceFiles
    <3>3. FirstFile(w) <= NumFiles
      BY <2>2, <3>2, Assumed
    <3>4. Bound(LastFile(w)) = Edge(w + 1)
      BY <3>3, SliceFiles
    <3>5. file[w] - 1 = LastFile(w)
      BY <1>1, <1>4, <3>1, <3>2
    <3>6. Edge(w + 1) < next[w]
      BY <3>1, <3>4, <3>5
    <3> QED
      BY <1>1, <1>2, <3>6 DEF Seen, Slice
  <2> QED
    BY <2>1, <2>2
<1>5. Slice(w, c) \subseteq Points
  BY SliceBounded
<1> QED
  BY <1>3, <1>4, <1>5

\* A worker that is still to end: nothing is merged.
LEMMA NothingMerged ==
    ASSUME IInv, NEW w \in Workers, status[w] # "ok"
    PROVE  /\ \A c \in Chunks : merging[c].at = "todo"
           /\ phase \notin {"merging", "done"}
BY DEF IInv, PhasesInOrder

\* A worker that a step does not touch.
LEMMA WorkerFrame ==
    ASSUME NEW w \in Workers, WorkerSound(w), chunkOf' = chunkOf,
           status'[w] = status[w], file'[w] = file[w], next'[w] = next[w],
           groups'[w] = groups[w], order'[w] = order[w], buffered'[w] = buffered[w],
           \A c \in Chunks : merging'[c].at = "todo"
               => merging[c].at = "todo" /\ InShard(w, c)' = InShard(w, c)
    PROVE  WorkerSound(w)'
<1>1. Reading(w)'
  BY DEF WorkerSound, Reading
<1>2. CacheSound(w)'
  BY DEF WorkerSound, CacheSound
<1>3. EndedWell(w)'
  <2>1. Drained(w)' = Drained(w)
    BY DEF Drained
  <2> QED
    BY <2>1 DEF WorkerSound, EndedWell
<1>4. ASSUME status'[w] # "err", NEW c \in Chunks, merging'[c].at = "todo"
      PROVE  HoldsSeen(w, c)'
  <2>1. HoldsSeen(w, c)
    BY <1>4 DEF WorkerSound
  <2>2. Buffered(w, c)' = Buffered(w, c) /\ Seen(w, c)' = Seen(w, c)
    BY DEF Buffered, Seen
  <2> QED
    BY <1>4, <2>1, <2>2 DEF HoldsSeen
<1> QED
  BY <1>1, <1>2, <1>3, <1>4 DEF WorkerSound

\* A step of worker w changes nothing of the others.
Only(w) ==
    /\ chunkOf' = chunkOf
    /\ UNCHANGED mergeVars
    /\ \A v \in Workers \ {w} :
          /\ status'[v] = status[v] /\ file'[v] = file[v] /\ next'[v] = next[v]
          /\ groups'[v] = groups[v] /\ order'[v] = order[v]
          /\ buffered'[v] = buffered[v] /\ shard'[v] = shard[v]

\* Such a step keeps the invariant if it keeps what is said of w and the tallies.
LEMMA WorkerStepSound ==
    ASSUME IInv, NEW w \in Workers, status[w] # "ok", Only(w),
           TypeOK', WorkerSound(w)', Tallied'
    PROVE  IInv'
<1>1. /\ \A c \in Chunks : merging[c].at = "todo"
      /\ phase \notin {"merging", "done"}
  BY NothingMerged
<1>2. merging' = merging /\ phase' = phase /\ canonical' = canonical
  BY DEF Only, mergeVars
<1>3. ASSUME NEW v \in Workers PROVE WorkerSound(v)'
  <2>1. CASE v = w
    BY <2>1
  <2>2. CASE v # w
    <3>1. WorkerSound(v)
      BY DEF IInv
    <3>2. /\ chunkOf' = chunkOf
          /\ status'[v] = status[v] /\ file'[v] = file[v] /\ next'[v] = next[v]
          /\ groups'[v] = groups[v] /\ order'[v] = order[v]
          /\ buffered'[v] = buffered[v] /\ shard'[v] = shard[v]
      BY <2>2 DEF Only
    <3>3. \A c \in Chunks : merging'[c].at = "todo"
             => merging[c].at = "todo" /\ InShard(v, c)' = InShard(v, c)
      BY <1>1, <3>2 DEF InShard
    <3> QED
      BY <3>1, <3>2, <3>3, WorkerFrame
  <2> QED
    BY <2>1, <2>2
<1>4. PhasesInOrder'
  BY <1>1, <1>2 DEF PhasesInOrder
<1>5. \A c \in Chunks : ChunkSound(c)'
  BY <1>1, <1>2 DEF ChunkSound
<1> QED
  BY <1>3, <1>4, <1>5 DEF IInv

-----------------------------------------------------------------------------
(* The beginning                                                            *)

\* Nothing is read, written or tallied yet.
LEMMA InitSound == Init => IInv
<1> SUFFICES ASSUME Init PROVE IInv
  OBVIOUS
<1>1. \A w \in Workers : file[w] \in Nat \ {0} /\ next[w] \in Nat /\ Reading(w)
  <2> TAKE w \in Workers
  <2>1. FirstFile(w) \in Nat \ {0} /\ LastFile(w) \in Nat
        /\ (FirstFile(w) <= NumFiles <=> FirstFile(w) <= LastFile(w))
        /\ Bound(FirstFile(w) - 1) = Edge(w)
    BY SliceFiles
  <2>2. file[w] = FirstFile(w)
        /\ next[w] = IF FirstFile(w) <= NumFiles THEN FileStart(FirstFile(w)) ELSE 1
    BY DEF Init
  <2>3. CASE FirstFile(w) > NumFiles
    BY <2>1, <2>2, <2>3, Assumed DEF Reading
  <2>4. CASE ~(FirstFile(w) > NumFiles)
    <3> DEFINE f == FirstFile(w)
    <3>1. f <= NumFiles /\ f <= LastFile(w)
      BY <2>1, <2>4, Assumed
    <3>2. f - 1 \in Nat /\ f - 1 <= f /\ f \in Nat
      BY <2>1
    <3>3. Bound(f - 1) \in Nat /\ Bound(f - 1) <= Bound(f) /\ Bound(f) \in Nat
      BY <3>2, BoundGrows
    <3>4. next[w] = Bound(f - 1) + 1
      <4>1. next[w] = FileStart(f)
        BY <2>2, <3>1
      <4>2. CASE f = 1
        BY <4>1, <4>2 DEF FileStart, Bound
      <4>3. CASE f # 1
        <5>1. f - 1 > 0 /\ f - 1 < NumFiles
          BY <2>1, <3>1, <4>3, Assumed
        <5> QED
          BY <4>1, <4>3, <5>1 DEF FileStart, Bound
      <4> QED
        BY <4>2, <4>3
    <3>5. file[w] = f
      BY <2>2
    <3>6. file[w] \in FirstFile(w) .. LastFile(w) + 1
      BY <2>1, <3>1, <3>5
    <3> HIDE DEF f
    <3>7. Reading(w)
      BY <2>4, <3>1, <3>3, <3>4, <3>5, <3>6 DEF Reading
    <3> QED
      BY <2>1, <2>2, <3>3, <3>4, <3>7
  <2> QED
    BY <2>1, <2>3, <2>4, Assumed
<1>2. IsFiles(None) /\ DOMAIN None = {}
  BY DEF IsFiles, None
<1>3. <<>> \in Seq(Points) /\ <<>> \in Seq(Chunks) /\ <<>> \in Seq(Workers)
  BY EmptySeq
<1>4. TypeOK
  <2>1. /\ file \in [Workers -> Nat] /\ next \in [Workers -> Nat]
    <3>1. file = [w \in Workers |-> FirstFile(w)]
          /\ next = [w \in Workers |->
               IF FirstFile(w) <= NumFiles THEN FileStart(FirstFile(w)) ELSE 1]
      BY DEF Init
    <3> QED
      BY <1>1, <3>1
  <2>2. /\ DOMAIN buffered = Workers /\ DOMAIN shard = Workers /\ IsFiles(canonical)
        /\ \A w \in Workers : /\ IsFiles(buffered[w]) /\ IsFiles(shard[w])
                              /\ DOMAIN buffered[w] \subseteq DOMAIN shard[w]
    BY <1>2 DEF Init
  <2> QED
    BY <1>3, <2>1, <2>2 DEF Init, TypeOK, Merged
<1>5. ASSUME NEW w \in Workers PROVE WorkerSound(w)
  <2>1. CacheSound(w)
    <3>1. Len(order[w]) = 0
      BY DEF Init
    <3>2. DOMAIN buffered[w] = {}
      BY <1>2 DEF Init
    <3> QED
      BY <3>1, <3>2, Assumed DEF CacheSound
  <2>2. EndedWell(w)
    BY DEF Init, EndedWell
  <2>3. ASSUME NEW c \in Chunks PROVE HoldsSeen(w, c)
    <3>1. InShard(w, c) = <<>> /\ Buffered(w, c) = <<>> /\ groups[w][c] = <<>>
      BY <1>2 DEF Init, InShard, Buffered
    <3>2. Seen(w, c) = {}
      <4>1. next[w] - 1 <= Edge(w)
        <5>1. w \in Nat /\ w <= w
          BY WorkerNumbers
        <5>2. Edge(w) \in Nat
          BY <5>1, Edges
        <5>3. next[w] = IF FirstFile(w) <= NumFiles THEN FileStart(FirstFile(w)) ELSE 1
          BY DEF Init
        <5>4. CASE ~(FirstFile(w) <= NumFiles)
          BY <5>2, <5>3, <5>4
        <5>5. CASE FirstFile(w) <= NumFiles
          <6>1. FirstFile(w) \in Nat \ {0} /\ Bound(FirstFile(w) - 1) = Edge(w)
            BY SliceFiles
          <6>2. CASE FirstFile(w) = 1
            BY <5>2, <5>3, <5>5, <6>1, <6>2 DEF FileStart
          <6>3. CASE FirstFile(w) # 1
            <7>1. FirstFile(w) - 1 > 0 /\ FirstFile(w) - 1 < NumFiles
              BY <5>5, <6>1, <6>3, Assumed
            <7>2. next[w] = Edge(w) + 1
              BY <5>3, <5>5, <6>1, <6>3, <7>1 DEF FileStart, Bound
            <7> QED
              BY <5>2, <7>2
          <6> QED
            BY <6>2, <6>3
        <5> QED
          BY <5>4, <5>5
      <4>2. Edge(w) \in Nat /\ next[w] \in Nat
        <5>1. w \in Nat /\ w <= w
          BY WorkerNumbers
        <5> QED
          BY <1>1, <5>1, Edges
      <4> QED
        BY <4>1, <4>2 DEF Seen
    <3>3. InOrder({}) = <<>>
      BY EmptyList
    <3>4. <<>> \o <<>> \o <<>> = <<>>
      OBVIOUS
    <3> QED
      BY <3>1, <3>2, <3>3, <3>4 DEF HoldsSeen
  <2> QED
    BY <1>1, <2>1, <2>2, <2>3 DEF WorkerSound
<1>6. PhasesInOrder
  BY DEF Init, PhasesInOrder, Merged
<1>7. \A c \in Chunks : ChunkSound(c)
  BY DEF Init, ChunkSound, Merged
<1>8. Tallied
  <2>1. ASSUME NEW c \in Chunks PROVE Appended(c) = {}
    <3> SUFFICES ASSUME NEW p \in Appended(c) PROVE FALSE
      OBVIOUS
    <3>1. PICK w \in Workers : p \in Seen(w, c) /\ p \notin ToSet(groups[w][c])
      BY DEF Appended
    <3>2. groups[w][c] = <<>>
      BY DEF Init
    <3>3. HoldsSeen(w, c)
      BY <1>5 DEF WorkerSound, Init, Merged
    <3>4. InShard(w, c) = <<>> /\ Buffered(w, c) = <<>>
      BY <1>2 DEF Init, InShard, Buffered
    <3>5. InOrder(Seen(w, c)) = <<>>
      BY <3>2, <3>3, <3>4 DEF HoldsSeen
    <3>6. Seen(w, c) \subseteq Points
      BY <1>1, <1>4, SeenInSlice
    <3> QED
      BY <3>1, <3>5, <3>6, EmptyList
  <2>2. \A c \in Chunks : counts[c] = 0
    BY DEF Init
  <2> QED
    BY <2>1, <2>2, FS_EmptySet DEF Tallied
<1> QED
  BY <1>4, <1>5, <1>6, <1>7, <1>8 DEF IInv

-----------------------------------------------------------------------------
(* The steps of a worker                                                    *)

\* What is tallied depends on what is read and what is grouped.
LEMMA TalliedFrame ==
    ASSUME Tallied, chunkOf' = chunkOf, counts' = counts, next' = next, groups' = groups,
           \A w \in Workers : status[w] = "err" => status'[w] = "err"
    PROVE  Tallied'
<1>1. \A c \in Chunks : Appended(c)' = Appended(c)
  BY DEF Appended, All, Seen
<1> QED
  BY <1>1 DEF Tallied

\* Only the status or the file of w changes.
LEMMA HoldsFrame ==
    ASSUME NEW w \in Workers, chunkOf' = chunkOf, next' = next, groups' = groups,
           buffered' = buffered, shard' = shard, NEW c \in Chunks, HoldsSeen(w, c)
    PROVE  HoldsSeen(w, c)'
BY DEF HoldsSeen, InShard, Buffered, Seen

\* The pool takes a worker up: only its status changes.
LEMMA StartSound == ASSUME IInv, NEW w \in Workers, Start(w) PROVE IInv'
<1> USE DEF IInv
<1>1. /\ status[w] = "waiting" /\ status' = [status EXCEPT ![w] = "running"]
      /\ UNCHANGED <<chunkOf, file, next, groups, order, buffered, shard, counts, mergeVars>>
  BY DEF Start
<1>2. status' \in [Workers -> {"waiting", "running", "ok", "err"}] /\ status'[w] = "running"
      /\ \A v \in Workers \ {w} : status'[v] = status[v]
  BY <1>1 DEF TypeOK
<1>3. Only(w)
  BY <1>1, <1>2 DEF Only
<1>4. TypeOK'
  BY <1>1, <1>2 DEF TypeOK, mergeVars
<1>5. Tallied'
  BY <1>1, <1>2, TalliedFrame
<1>6. WorkerSound(w)'
  <2>1. WorkerSound(w)
    OBVIOUS
  <2>2. Reading(w)' /\ CacheSound(w)'
    BY <1>1, <2>1 DEF WorkerSound, Reading, CacheSound
  <2>3. EndedWell(w)'
    BY <1>2 DEF EndedWell
  <2>4. ASSUME NEW c \in Chunks, merging'[c].at = "todo" PROVE HoldsSeen(w, c)'
    <3>1. HoldsSeen(w, c)
      BY <1>1, <2>1, <2>4 DEF WorkerSound, mergeVars
    <3> QED
      BY <1>1, <3>1, HoldsFrame
  <2> QED
    BY <2>2, <2>3, <2>4 DEF WorkerSound
<1> QED
  BY <1>1, <1>3, <1>4, <1>5, <1>6, WorkerStepSound

\* A worker fails: nothing is promised of it, or of the tallies, any more.
LEMMA WorkerFailsSound == ASSUME IInv, NEW w \in Workers, WorkerFails(w) PROVE IInv'
<1> USE DEF IInv
<1>1. /\ status[w] = "running" /\ status' = [status EXCEPT ![w] = "err"]
      /\ UNCHANGED <<chunkOf, file, next, groups, order, buffered, shard, mergeVars>>
  BY DEF WorkerFails
<1>2. status' \in [Workers -> {"waiting", "running", "ok", "err"}] /\ status'[w] = "err"
      /\ \A v \in Workers \ {w} : status'[v] = status[v]
  BY <1>1 DEF TypeOK
<1>3. Only(w)
  BY <1>1, <1>2 DEF Only
<1>4. counts' \in [Chunks -> Nat]
  <2>1. counts \in [Chunks -> Nat]
    BY DEF TypeOK
  <2>2. CASE UNCHANGED counts
    BY <2>1, <2>2
  <2>3. ASSUME NEW c \in Chunks, counts' = [counts EXCEPT ![c] = @ + Len(groups[w][c])]
        PROVE  counts' \in [Chunks -> Nat]
    <3>1. groups[w][c] \in Seq(Points)
      BY WorkerTypes
    <3>2. Len(groups[w][c]) \in Nat
      BY <3>1, LenProperties
    <3> QED
      BY <2>1, <2>3, <3>2
  <2> QED
    BY <2>2, <2>3 DEF WorkerFails
<1>5. TypeOK'
  BY <1>1, <1>2, <1>4 DEF TypeOK, mergeVars
<1>6. Tallied'
  BY <1>2 DEF Tallied
<1>7. WorkerSound(w)'
  <2>1. WorkerSound(w)
    OBVIOUS
  <2>2. Reading(w)' /\ CacheSound(w)'
    BY <1>1, <2>1 DEF WorkerSound, Reading, CacheSound
  <2>3. EndedWell(w)'
    BY <1>2 DEF EndedWell
  <2> QED
    BY <1>2, <2>2, <2>3 DEF WorkerSound
<1> QED
  BY <1>1, <1>3, <1>5, <1>6, <1>7, WorkerStepSound

\* The file is read to its end: so what was read ends at its bound.
LEMMA NextFileSound == ASSUME IInv, NEW w \in Workers, NextFile(w) PROVE IInv'
<1> USE DEF IInv
<1>1. /\ status[w] = "running" /\ file[w] <= LastFile(w) /\ next[w] > FileEnds[file[w]]
      /\ file' = [file EXCEPT ![w] = @ + 1]
      /\ UNCHANGED <<chunkOf, status, next, groups, order, buffered, shard, counts, mergeVars>>
  BY DEF NextFile
<1>2. file' \in [Workers -> Nat] /\ file'[w] = file[w] + 1
      /\ \A v \in Workers \ {w} : file'[v] = file[v]
  BY <1>1 DEF TypeOK
<1>3. Only(w)
  BY <1>1, <1>2 DEF Only
<1>4. TypeOK'
  BY <1>1, <1>2 DEF TypeOK, mergeVars
<1>5. Tallied'
  BY <1>1, TalliedFrame
<1>6. WorkerSound(w)'
  <2>1. WorkerSound(w)
    OBVIOUS
  <2>2. CacheSound(w)'
    BY <1>1, <2>1 DEF WorkerSound, CacheSound
  <2>3. EndedWell(w)'
    BY <1>1 DEF EndedWell
  <2>4. ASSUME NEW c \in Chunks, merging'[c].at = "todo" PROVE HoldsSeen(w, c)'
    <3>1. HoldsSeen(w, c)
      BY <1>1, <2>1, <2>4 DEF WorkerSound, mergeVars
    <3> QED
      BY <1>1, <3>1, HoldsFrame
  <2>5. Reading(w)'
    <3> DEFINE f == file[w]
               n == next[w]
               first == FirstFile(w)
               last == LastFile(w)
    <3>1. f \in Nat /\ n \in Nat
      BY WorkerTypes
    <3>2. /\ first <= NumFiles /\ f \in 1 .. NumFiles
          /\ FileEnds[f] = Bound(f) /\ FileEnds[f] \in Nat /\ n <= FileEnds[f] + 1
          /\ n - 1 <= Edge(w + 1) /\ Edge(w + 1) \in Nat
      BY <1>1, <2>1, <3>1, ReadingWithin DEF WorkerSound
    <3>3. first \in Nat \ {0} /\ last \in Nat
      BY SliceFiles
    <3>4. f \in first .. last + 1
      BY <2>1, <3>2, <3>3, Assumed DEF WorkerSound, Reading
    <3>5. f + 1 \in first .. last + 1
      BY <1>1, <3>1, <3>3, <3>4
    <3>6. Bound(f) < n /\ n <= Bound(f) + 1
      BY <1>1, <3>1, <3>2
    <3>7. Bound(f) <= Bound(f + 1) /\ Bound(f + 1) \in Nat
      BY <3>1, BoundGrows
    <3>8. n <= (IF f + 1 <= last THEN Bound(f + 1) ELSE Edge(w + 1)) + 1
      BY <3>1, <3>2, <3>6, <3>7
    <3>9. file'[w] = f + 1 /\ next'[w] = n /\ ~(first > NumFiles)
      BY <1>1, <1>2, <3>2, <3>3, Assumed
    <3> HIDE DEF f, n, first, last
    <3>10. file'[w] \in first .. last + 1
      BY <3>5, <3>9
    <3>11. Bound(file'[w] - 1) < next'[w]
      <4>1. file'[w] - 1 = f
        BY <3>1, <3>9
      <4> QED
        BY <3>6, <3>9, <4>1
    <3>12. next'[w] <= (IF file'[w] <= last THEN Bound(file'[w]) ELSE Edge(w + 1)) + 1
      BY <3>8, <3>9
    <3> QED
      BY <3>9, <3>10, <3>11, <3>12 DEF Reading, first, last
  <2> QED
    BY <2>2, <2>3, <2>4, <2>5 DEF WorkerSound
<1> QED
  BY <1>1, <1>3, <1>4, <1>5, <1>6, WorkerStepSound

\* Min of two naturals is the lesser.
LEMMA MinOfTwo ==
    ASSUME NEW a \in Int, NEW b \in Int
    PROVE  Min({a, b}) = IF a <= b THEN a ELSE b
<1> DEFINE m == IF a <= b THEN a ELSE b
           T == {a, b}
<1>1. m \in T /\ \A y \in T : m <= y
  OBVIOUS
<1>2. Min(T) \in T /\ \A y \in T : Min(T) <= y
  BY <1>1 DEF Min
<1> QED
  BY <1>1, <1>2

\* A batch is of the worker's slice: it goes on where the last one ended.
LEMMA ReadBatchSound == ASSUME IInv, NEW w \in Workers, ReadBatch(w) PROVE IInv'
<1> USE DEF IInv
<1> DEFINE n == next[w]
           f == file[w]
           last == Min({n + BatchSize - 1, FileEnds[f]})
           Batch(c) == {p \in n .. last : chunkOf[p] = c}
<1>1. /\ status[w] = "running" /\ Drained(w) /\ f <= LastFile(w) /\ n <= FileEnds[f]
      /\ groups' = [groups EXCEPT ![w] = [c \in Chunks |-> InOrder(Batch(c))]]
      /\ next' = [next EXCEPT ![w] = last + 1]
      /\ UNCHANGED <<chunkOf, status, file, order, buffered, shard, counts, mergeVars>>
  BY DEF ReadBatch
<1>2. WorkerSound(w) /\ Reading(w)
  BY DEF WorkerSound
<1>3. f \in Nat /\ n \in Nat
  BY WorkerTypes
<1>4. /\ FirstFile(w) <= NumFiles /\ f \in 1 .. NumFiles
      /\ FileEnds[f] = Bound(f) /\ FileEnds[f] \in Nat
      /\ FileEnds[f] <= Edge(w + 1) /\ Edge(w) <= n - 1
      /\ Edge(w) \in Nat /\ Edge(w + 1) \in Nat /\ Edge(w + 1) <= NumPoints
  BY <1>1, <1>2, <1>3, ReadingWithin
<1>5. last \in Nat /\ n <= last /\ last <= FileEnds[f]
  <2> DEFINE a == n + BatchSize - 1
             b == FileEnds[f]
  <2>1. a \in Int /\ b \in Int /\ n <= a /\ n <= b
    BY <1>1, <1>3, <1>4, Assumed
  <2> HIDE DEF a, b
  <2>2. Min({a, b}) = IF a <= b THEN a ELSE b
    BY <2>1, MinOfTwo
  <2>3. Min({a, b}) \in Nat /\ n <= Min({a, b}) /\ Min({a, b}) <= b
    BY <1>3, <2>1, <2>2
  <2> QED
    BY <2>3 DEF a, b
<1> HIDE DEF last
<1>6. \A c \in Chunks : Batch(c) \subseteq Points
  BY <1>3, <1>4, <1>5, Assumed DEF Points
<1>7. next' \in [Workers -> Nat] /\ next'[w] = last + 1
      /\ \A v \in Workers \ {w} : next'[v] = next[v]
  BY <1>1, <1>5 DEF TypeOK
<1> DEFINE grouped == [c \in Chunks |-> InOrder(Batch(c))]
<1>8. grouped \in [Chunks -> Seq(Points)]
  BY <1>6, PointList
<1>9. /\ groups' \in [Workers -> [Chunks -> Seq(Points)]]
      /\ groups'[w] = grouped
      /\ \A v \in Workers \ {w} : groups'[v] = groups[v]
  <2>1. groups \in [Workers -> [Chunks -> Seq(Points)]]
    BY DEF TypeOK
  <2>2. groups' = [groups EXCEPT ![w] = grouped]
    BY <1>1
  <2> HIDE DEF grouped
  <2> QED
    BY <1>8, <2>1, <2>2
<1>10. \A c \in Chunks : groups'[w][c] = InOrder(Batch(c))
  BY <1>9
<1> HIDE DEF grouped
<1>11. Only(w)
  BY <1>1, <1>7, <1>9 DEF Only
<1>12. TypeOK'
  BY <1>1, <1>7, <1>9 DEF TypeOK, mergeVars
<1>13. ASSUME NEW c \in Chunks
       PROVE  /\ Seen(w, c)' = Seen(w, c) \cup Batch(c)
              /\ Seen(w, c) \subseteq Points
              /\ \A p \in Seen(w, c), q \in Batch(c) : p < q
  <2>1. Seen(w, c)' = {p \in Edge(w) + 1 .. last : chunkOf[p] = c}
    <3>1. next'[w] - 1 = last /\ chunkOf' = chunkOf
      BY <1>1, <1>5, <1>7
    <3> QED
      BY <3>1 DEF Seen
  <2>2. Edge(w) + 1 .. last = (Edge(w) + 1 .. n - 1) \cup (n .. last)
    BY <1>3, <1>4, <1>5
  <2>3. Seen(w, c)' = Seen(w, c) \cup Batch(c)
    BY <2>1, <2>2 DEF Seen
  <2>4. Seen(w, c) \subseteq Points
    BY <1>2, SeenInSlice
  <2>5. \A p \in Seen(w, c), q \in Batch(c) : p < q
    BY <1>3, <1>4, <1>5 DEF Seen
  <2> QED
    BY <2>3, <2>4, <2>5
<1> HIDE DEF Batch
<1>14. ASSUME NEW c \in Chunks PROVE HoldsSeen(w, c)'
  <2> DEFINE i == InShard(w, c)
             b == Buffered(w, c)
  <2>1. HoldsSeen(w, c)
    BY <1>1, <1>2, NothingMerged DEF WorkerSound
  <2>2. groups[w][c] = <<>>
    BY <1>1 DEF Drained
  <2>3. i \in Seq(Points) /\ b \in Seq(Points)
    BY WorkerTypes
  <2>4. i \o b \in Seq(Points)
    BY <2>3, ConcatProperties
  <2>5. i \o b = InOrder(Seen(w, c))
    <3>1. i \o b \o <<>> = InOrder(Seen(w, c))
      BY <2>1, <2>2 DEF HoldsSeen
    <3> HIDE DEF i, b
    <3> QED
      BY <2>4, <3>1, ConcatEmptySeq
  <2>6. InOrder(Seen(w, c)) \o InOrder(Batch(c)) = InOrder(Seen(w, c) \cup Batch(c))
    BY <1>6, <1>13, PointConcat
  <2>7. InShard(w, c)' = i /\ Buffered(w, c)' = b
    BY <1>1 DEF InShard, Buffered
  <2>8. groups'[w][c] = InOrder(Batch(c))
    BY <1>10
  <2>9. Seen(w, c)' = Seen(w, c) \cup Batch(c)
    BY <1>13
  <2> HIDE DEF i, b
  <2>10. i \o b \o groups'[w][c] = InOrder(Seen(w, c)')
    BY <2>5, <2>6, <2>8, <2>9
  <2> QED
    BY <2>7, <2>10 DEF HoldsSeen
<1>15. Reading(w)'
  <2> DEFINE first == FirstFile(w)
             end == LastFile(w)
  <2>1. first \in Nat \ {0} /\ end \in Nat
    BY SliceFiles
  <2>2. ~(first > NumFiles)
    BY <1>4, <2>1, Assumed
  <2>3. f \in first .. end + 1 /\ Bound(f - 1) < n
    BY <1>2, <2>2 DEF Reading
  <2>4. f - 1 \in Nat /\ f - 1 <= f
    BY <1>4
  <2>5. Bound(f - 1) \in Nat
    BY <1>3, <2>4, BoundGrows
  <2>6. Bound(f - 1) < last + 1 /\ last + 1 <= Bound(f) + 1
    BY <1>3, <1>4, <1>5, <2>3, <2>5
  <2>7. file'[w] = f /\ next'[w] = last + 1
    BY <1>1, <1>7
  <2> HIDE DEF f, n, first, end
  <2>8. IF first > NumFiles
        THEN file'[w] = first /\ next'[w] = 1
        ELSE /\ file'[w] \in first .. end + 1
             /\ Bound(file'[w] - 1) < next'[w]
             /\ next'[w] <= (IF file'[w] <= end THEN Bound(file'[w]) ELSE Edge(w + 1)) + 1
    <3>1. file'[w] \in first .. end + 1
      BY <2>3, <2>7
    <3>2. Bound(file'[w] - 1) < next'[w]
      BY <2>6, <2>7
    <3>3. next'[w] <= (IF file'[w] <= end THEN Bound(file'[w]) ELSE Edge(w + 1)) + 1
      <4>1. f <= end
        BY <1>1 DEF end
      <4> QED
        BY <2>6, <2>7, <4>1
    <3> QED
      BY <2>2, <3>1, <3>2, <3>3
  <2> QED
    BY <2>8 DEF Reading, first, end
<1>16. WorkerSound(w)'
  <2>1. CacheSound(w)'
    BY <1>1, <1>2 DEF WorkerSound, CacheSound
  <2>2. EndedWell(w)'
    BY <1>1 DEF EndedWell
  <2> QED
    BY <1>14, <1>15, <2>1, <2>2 DEF WorkerSound
<1>17. Tallied'
  <2>1. ASSUME NEW c \in Chunks PROVE Appended(c)' = Appended(c)
    <3>1. ASSUME NEW v \in Workers, v # w, NEW p
          PROVE  p \in Seen(v, c)' /\ p \notin ToSet(groups'[v][c])
                 <=> p \in Seen(v, c) /\ p \notin ToSet(groups[v][c])
      <4>1. Seen(v, c)' = Seen(v, c) /\ groups'[v][c] = groups[v][c]
        BY <1>1, <1>7, <1>9, <3>1 DEF Seen
      <4> QED
        BY <4>1
    <3>2. ASSUME NEW p
          PROVE  p \in Seen(w, c)' /\ p \notin ToSet(groups'[w][c])
                 <=> p \in Seen(w, c) /\ p \notin ToSet(groups[w][c])
      <4>1. ToSet(groups'[w][c]) = Batch(c)
        BY <1>6, <1>10, PointList
      <4>2. ToSet(groups[w][c]) = {}
        <5>1. groups[w][c] = <<>>
          BY <1>1 DEF Drained
        <5> QED
          BY <5>1 DEF ToSet
      <4>3. ASSUME p \in Seen(w, c) PROVE p \notin Batch(c)
        <5>1. p \in Points
          BY <1>13, <4>3
        <5>2. p \in Nat
          BY <5>1, Assumed DEF Points
        <5> QED
          BY <1>13, <4>3, <5>2
      <4> QED
        BY <1>13, <4>1, <4>2, <4>3
    <3>3. All(c)' = All(c)
      BY <1>1 DEF All
    <3> QED
      BY <3>1, <3>2, <3>3 DEF Appended
  <2> QED
    BY <1>1, <2>1 DEF Tallied
<1> QED
  BY <1>1, <1>11, <1>12, <1>16, <1>17, WorkerStepSound

-----------------------------------------------------------------------------
(* The cache of open writers                                                *)

\* s has each element of D once.
InStep(s, D) ==
    /\ s \in Seq(Chunks)
    /\ \A i \in 1 .. Len(s) : s[i] \in D
    /\ \A c \in D : \E i \in 1 .. Len(s) : s[i] = c
    /\ \A i, j \in 1 .. Len(s) : s[i] = s[j] => i = j

\* Adding one more to both.
LEMMA InStepAppend ==
    ASSUME NEW s, NEW D, InStep(s, D), NEW c \in Chunks, c \notin D
    PROVE  InStep(Append(s, c), D \cup {c}) /\ Len(Append(s, c)) = Len(s) + 1
<1> DEFINE t == Append(s, c)
<1>1. /\ t \in Seq(Chunks) /\ Len(t) = Len(s) + 1 /\ Len(s) \in Nat
      /\ \A i \in 1 .. Len(s) : t[i] = s[i]
      /\ t[Len(s) + 1] = c
  BY AppendProperties, LenProperties DEF InStep
<1> HIDE DEF t
<1>2. \A i \in 1 .. Len(t) : i \in 1 .. Len(s) \/ i = Len(s) + 1
  BY <1>1
<1>3. ASSUME NEW i \in 1 .. Len(s) PROVE i \in 1 .. Len(t) /\ t[i] = s[i] /\ t[i] \in D /\ t[i] # c
  BY <1>1, <1>3 DEF InStep
<1>4. \A i \in 1 .. Len(t) : t[i] \in D \cup {c}
  BY <1>1, <1>2, <1>3
<1>5. ASSUME NEW d \in D \cup {c} PROVE \E i \in 1 .. Len(t) : t[i] = d
  <2>1. CASE d = c
    BY <1>1, <2>1
  <2>2. CASE d \in D
    <3>1. PICK i \in 1 .. Len(s) : s[i] = d
      BY <2>2 DEF InStep
    <3> QED
      BY <1>3, <3>1
  <2> QED
    BY <2>1, <2>2
<1>6. ASSUME NEW i \in 1 .. Len(t), NEW j \in 1 .. Len(t), t[i] = t[j] PROVE i = j
  <2>1. CASE i \in 1 .. Len(s) /\ j \in 1 .. Len(s)
    BY <1>3, <1>6, <2>1 DEF InStep
  <2>2. CASE i \in 1 .. Len(s) /\ j = Len(s) + 1
    BY <1>1, <1>3, <1>6, <2>2
  <2>3. CASE i = Len(s) + 1 /\ j \in 1 .. Len(s)
    BY <1>1, <1>3, <1>6, <2>3
  <2> QED
    BY <1>2, <2>1, <2>2, <2>3
<1>7. InStep(t, D \cup {c})
  BY <1>1, <1>4, <1>5, <1>6 DEF InStep
<1> QED
  BY <1>1, <1>7 DEF t

\* Leaving out the first k.
LEMMA InStepSuffix ==
    ASSUME NEW s, NEW D, InStep(s, D), NEW k \in 0 .. Len(s)
    PROVE  /\ InStep(SubSeq(s, k + 1, Len(s)), D \ ToSet(SubSeq(s, 1, k)))
           /\ Len(SubSeq(s, k + 1, Len(s))) = Len(s) - k
           /\ ToSet(SubSeq(s, 1, k)) \subseteq D
           /\ Len(SubSeq(s, 1, k)) = k
<1> DEFINE head == SubSeq(s, 1, k)
           tail == SubSeq(s, k + 1, Len(s))
<1>1. s \in Seq(Chunks) /\ Len(s) \in Nat /\ k \in Nat /\ k <= Len(s)
      /\ \A i \in 1 .. Len(s) : s[i] \in Chunks
  BY LenProperties, ElementOfSeq DEF InStep
<1>2. /\ head \in Seq(Chunks) /\ Len(head) = k
      /\ \A i \in 1 .. k : head[i] = s[i]
  <2>1. \A i \in 1 .. k : s[i] \in Chunks
    BY <1>1
  <2>2. /\ head \in Seq(Chunks)
        /\ Len(head) = IF 1 <= k THEN k - 1 + 1 ELSE 0
        /\ \A i \in 1 .. k - 1 + 1 : head[i] = s[1 + i - 1]
    BY <1>1, <2>1, SubSeqProperties
  <2> HIDE DEF head
  <2>3. Len(head) = k
    BY <1>1, <2>2
  <2>4. ASSUME NEW i \in 1 .. k PROVE head[i] = s[i]
    <3>1. i \in 1 .. k - 1 + 1 /\ 1 + i - 1 = i
      BY <1>1
    <3> QED
      BY <2>2, <3>1
  <2> QED
    BY <2>2, <2>3, <2>4
<1>3. /\ tail \in Seq(Chunks) /\ Len(tail) = Len(s) - k
      /\ \A i \in 1 .. Len(s) - k : tail[i] = s[k + i]
  <2>1. \A i \in k + 1 .. Len(s) : s[i] \in Chunks
    BY <1>1
  <2>2. /\ tail \in Seq(Chunks)
        /\ Len(tail) = IF k + 1 <= Len(s) THEN Len(s) - (k + 1) + 1 ELSE 0
        /\ \A i \in 1 .. Len(s) - (k + 1) + 1 : tail[i] = s[k + 1 + i - 1]
    BY <1>1, <2>1, SubSeqProperties
  <2> HIDE DEF tail
  <2>3. Len(tail) = Len(s) - k
    BY <1>1, <2>2
  <2>4. ASSUME NEW i \in 1 .. Len(s) - k PROVE tail[i] = s[k + i]
    <3>1. i \in 1 .. Len(s) - (k + 1) + 1 /\ k + 1 + i - 1 = k + i
      BY <1>1
    <3> QED
      BY <2>2, <3>1
  <2> QED
    BY <2>2, <2>3, <2>4
<1> HIDE DEF head, tail
<1>4. ToSet(head) = {s[i] : i \in 1 .. k}
  <2>1. DOMAIN head = 1 .. k
    BY <1>2, LenProperties
  <2> QED
    BY <1>2, <2>1 DEF ToSet
<1>5. ToSet(head) \subseteq D
  BY <1>1, <1>4 DEF InStep
<1>6. ASSUME NEW i \in 1 .. Len(tail)
      PROVE  /\ k + i \in 1 .. Len(s) /\ tail[i] = s[k + i] /\ tail[i] \in D \ ToSet(head)
  <2>1. k + i \in 1 .. Len(s) /\ tail[i] = s[k + i]
    BY <1>1, <1>3
  <2>2. ASSUME NEW j \in 1 .. k PROVE s[j] # s[k + i]
    <3>1. j \in 1 .. Len(s) /\ j # k + i
      BY <1>1, <1>3
    <3> QED
      BY <2>1, <3>1 DEF InStep
  <2>3. s[k + i] \in D
    BY <2>1 DEF InStep
  <2> QED
    BY <1>4, <2>1, <2>2, <2>3
<1>7. ASSUME NEW d \in D \ ToSet(head) PROVE \E i \in 1 .. Len(tail) : tail[i] = d
  <2>1. PICK j \in 1 .. Len(s) : s[j] = d
    BY DEF InStep
  <2>2. j \notin 1 .. k
    BY <1>4, <2>1
  <2>3. j - k \in 1 .. Len(s) - k /\ k + (j - k) = j
    BY <1>1, <2>2
  <2> QED
    BY <1>3, <2>1, <2>3
<1>8. ASSUME NEW i \in 1 .. Len(tail), NEW j \in 1 .. Len(tail), tail[i] = tail[j] PROVE i = j
  <2>1. k + i = k + j
    BY <1>6, <1>8 DEF InStep
  <2> QED
    BY <1>1, <2>1
<1>9. InStep(tail, D \ ToSet(head))
  BY <1>3, <1>6, <1>7, <1>8 DEF InStep
<1> QED
  BY <1>2, <1>3, <1>5, <1>9 DEF head, tail

\* Taking out one.
LEMMA InStepRemove ==
    ASSUME NEW s, NEW D, InStep(s, D), NEW pos \in 1 .. Len(s)
    PROVE  /\ InStep(RemoveAt(s, pos), D \ {s[pos]})
           /\ Len(RemoveAt(s, pos)) = Len(s) - 1
<1> DEFINE head == SubSeq(s, 1, pos - 1)
           tail == SubSeq(s, pos + 1, Len(s))
           t == head \o tail
<1>1. s \in Seq(Chunks) /\ Len(s) \in Nat /\ pos \in Nat /\ pos <= Len(s) /\ pos >= 1
      /\ \A i \in 1 .. Len(s) : s[i] \in Chunks
  BY LenProperties, ElementOfSeq DEF InStep
<1>2. /\ head \in Seq(Chunks) /\ Len(head) = pos - 1
      /\ \A i \in 1 .. pos - 1 : head[i] = s[i]
  <2>1. \A i \in 1 .. pos - 1 : s[i] \in Chunks
    BY <1>1
  <2>2. /\ head \in Seq(Chunks)
        /\ Len(head) = IF 1 <= pos - 1 THEN pos - 1 - 1 + 1 ELSE 0
        /\ \A i \in 1 .. pos - 1 - 1 + 1 : head[i] = s[1 + i - 1]
    BY <1>1, <2>1, SubSeqProperties
  <2> HIDE DEF head
  <2>3. Len(head) = pos - 1
    BY <1>1, <2>2
  <2>4. ASSUME NEW i \in 1 .. pos - 1 PROVE head[i] = s[i]
    <3>1. i \in 1 .. pos - 1 - 1 + 1 /\ 1 + i - 1 = i
      BY <1>1
    <3> QED
      BY <2>2, <3>1
  <2> QED
    BY <2>2, <2>3, <2>4
<1>3. /\ tail \in Seq(Chunks) /\ Len(tail) = Len(s) - pos
      /\ \A i \in 1 .. Len(s) - pos : tail[i] = s[pos + i]
  <2>1. \A i \in pos + 1 .. Len(s) : s[i] \in Chunks
    BY <1>1
  <2>2. /\ tail \in Seq(Chunks)
        /\ Len(tail) = IF pos + 1 <= Len(s) THEN Len(s) - (pos + 1) + 1 ELSE 0
        /\ \A i \in 1 .. Len(s) - (pos + 1) + 1 : tail[i] = s[pos + 1 + i - 1]
    BY <1>1, <2>1, SubSeqProperties
  <2> HIDE DEF tail
  <2>3. Len(tail) = Len(s) - pos
    BY <1>1, <2>2
  <2>4. ASSUME NEW i \in 1 .. Len(s) - pos PROVE tail[i] = s[pos + i]
    <3>1. i \in 1 .. Len(s) - (pos + 1) + 1 /\ pos + 1 + i - 1 = pos + i
      BY <1>1
    <3> QED
      BY <2>2, <3>1
  <2> QED
    BY <2>2, <2>3, <2>4
<1> HIDE DEF head, tail
<1>4. t \in Seq(Chunks) /\ Len(t) = Len(s) - 1
  <2>1. t \in Seq(Chunks) /\ Len(t) = Len(head) + Len(tail)
    BY <1>2, <1>3, ConcatProperties
  <2> QED
    BY <1>1, <1>2, <1>3, <2>1
<1>5. \A i \in 1 .. Len(head) + Len(tail) :
         t[i] = IF i <= Len(head) THEN head[i] ELSE tail[i - Len(head)]
  BY <1>2, <1>3, ConcatProperties
<1> HIDE DEF t
<1> DEFINE From(i) == IF i < pos THEN i ELSE i + 1
<1>6. ASSUME NEW i \in 1 .. Len(t)
      PROVE  From(i) \in 1 .. Len(s) /\ From(i) # pos /\ t[i] = s[From(i)]
  <2>1. i \in 1 .. Len(head) + Len(tail) /\ i \in Nat
    BY <1>1, <1>2, <1>3, <1>4
  <2>2. CASE i < pos
    <3>1. i <= Len(head) /\ i \in 1 .. pos - 1
      BY <1>1, <1>2, <2>1, <2>2
    <3>2. t[i] = s[i]
      BY <1>2, <1>5, <2>1, <3>1
    <3> QED
      BY <1>1, <1>4, <2>1, <2>2, <3>2
  <2>3. CASE ~(i < pos)
    <3>1. ~(i <= Len(head)) /\ i - (pos - 1) \in 1 .. Len(s) - pos
          /\ pos + (i - (pos - 1)) = i + 1
      BY <1>1, <1>2, <1>4, <2>1, <2>3
    <3>2. t[i] = tail[i - (pos - 1)]
      BY <1>2, <1>5, <2>1, <3>1
    <3>3. t[i] = s[i + 1]
      BY <1>3, <3>1, <3>2
    <3> QED
      BY <1>1, <1>4, <2>1, <2>3, <3>3
  <2> QED
    BY <2>2, <2>3
<1>7. ASSUME NEW i \in 1 .. Len(t) PROVE t[i] \in D \ {s[pos]}
  <2>1. s[From(i)] \in D /\ s[From(i)] # s[pos]
    BY <1>6 DEF InStep
  <2> QED
    BY <1>6, <2>1
<1>8. ASSUME NEW d \in D \ {s[pos]} PROVE \E i \in 1 .. Len(t) : t[i] = d
  <2>1. PICK j \in 1 .. Len(s) : s[j] = d
    BY DEF InStep
  <2>2. j # pos
    BY <2>1
  <2>3. CASE j < pos
    <3>1. j \in 1 .. Len(t) /\ From(j) = j
      BY <1>1, <1>4, <2>3
    <3> QED
      BY <1>6, <2>1, <3>1
  <2>4. CASE j > pos
    <3>1. j - 1 \in 1 .. Len(t) /\ From(j - 1) = j
      BY <1>1, <1>4, <2>4
    <3> QED
      BY <1>6, <2>1, <3>1
  <2> QED
    BY <1>1, <2>2, <2>3, <2>4
<1>9. ASSUME NEW i \in 1 .. Len(t), NEW j \in 1 .. Len(t), t[i] = t[j] PROVE i = j
  <2>1. From(i) = From(j)
    <3>1. s[From(i)] = s[From(j)] /\ From(i) \in 1 .. Len(s) /\ From(j) \in 1 .. Len(s)
      BY <1>6, <1>9
    <3> HIDE DEF From
    <3> QED
      BY <3>1 DEF InStep
  <2> QED
    BY <1>1, <1>4, <2>1
<1>10. InStep(t, D \ {s[pos]})
  BY <1>4, <1>7, <1>8, <1>9 DEF InStep
<1> QED
  BY <1>4, <1>10 DEF t, head, tail, RemoveAt

\* As many elements as places.
LEMMA InStepLength ==
    ASSUME NEW s, NEW D, InStep(s, D)
    PROVE  IsFiniteSet(D) /\ Cardinality(D) = Len(s) /\ ToSet(s) = D
<1>1. Len(s) \in Nat /\ s \in [1 .. Len(s) -> Chunks] /\ DOMAIN s = 1 .. Len(s)
  BY LenProperties DEF InStep
<1>2. s \in [1 .. Len(s) -> D]
  BY <1>1 DEF InStep
<1>3. s \in Injection(1 .. Len(s), D) /\ s \in Surjection(1 .. Len(s), D)
  BY <1>2 DEF InStep, Injection, Surjection, IsInjective
<1>4. IsFiniteSet(1 .. Len(s)) /\ Cardinality(1 .. Len(s)) = Len(s)
  <2>1. 1 \in Int /\ Len(s) \in Int
    BY <1>1
  <2>2. /\ IsFiniteSet(1 .. Len(s))
        /\ Cardinality(1 .. Len(s)) = IF 1 > Len(s) THEN 0 ELSE Len(s) - 1 + 1
    BY <2>1, FS_Interval
  <2> QED
    BY <1>1, <2>2
<1>5. ToSet(s) = D
  BY <1>1, <1>2 DEF InStep, ToSet
<1> QED
  BY <1>3, <1>4, <1>5, FS_Surjection

\* The victims are the first of the list, and leave room for one more.
LEMMA VictimsAre ==
    ASSUME NEW w \in Workers, InStep(order[w], DOMAIN buffered[w])
    PROVE  \E k \in 0 .. Len(order[w]) :
              /\ Victims(w) = SubSeq(order[w], 1, k)
              /\ Len(order[w]) - k < Capacity
<1> DEFINE s == order[w]
           open == DOMAIN buffered[w]
           Popped(k) == ToSet(SubSeq(s, 1, k))
           enough == {k \in 0 .. Len(s) : Cardinality(open \ Popped(k)) < Capacity \/ k = Len(s)}
<1>1. Len(s) \in Nat
  BY LenProperties DEF InStep
<1>2. Min(enough) \in enough
  <2>1. enough \subseteq Nat /\ enough # {}
    BY <1>1
  <2> HIDE DEF enough
  <2>2. \E n \in enough : \A m \in enough : n <= m
    BY <2>1, Least
  <2> QED
    BY <2>2 DEF Min
<1>3. Victims(w) = SubSeq(s, 1, Min(enough))
  BY DEF Victims
<1> DEFINE k == Min(enough)
<1>4. k \in 0 .. Len(s) /\ (Cardinality(open \ Popped(k)) < Capacity \/ k = Len(s))
  BY <1>2
<1> HIDE DEF k
<1>5. /\ InStep(SubSeq(s, k + 1, Len(s)), open \ Popped(k))
      /\ Len(SubSeq(s, k + 1, Len(s))) = Len(s) - k
  BY <1>4, InStepSuffix
<1>6. Cardinality(open \ Popped(k)) = Len(s) - k
  BY <1>5, InStepLength
<1>7. Len(s) - k < Capacity
  BY <1>1, <1>4, <1>6, Assumed
<1> QED
  BY <1>3, <1>4, <1>7 DEF k

\* What the cache of worker w is after it has taken the points of c.
TakenUp(w, c) ==
    /\ DOMAIN order' = Workers /\ DOMAIN buffered' = Workers /\ DOMAIN shard' = Workers
    /\ \A v \in Workers \ {w} : /\ order'[v] = order[v] /\ buffered'[v] = buffered[v]
                                /\ shard'[v] = shard[v]
    /\ InStep(order'[w], DOMAIN buffered'[w]) /\ Len(order'[w]) <= Capacity
    /\ IsFiles(buffered'[w]) /\ IsFiles(shard'[w]) /\ DOMAIN buffered'[w] \subseteq DOMAIN shard'[w]
    /\ InShard(w, c)' \o Buffered(w, c)' = InShard(w, c) \o Buffered(w, c) \o groups[w][c]
    /\ \A d \in Chunks \ {c} : InShard(w, d)' \o Buffered(w, d)' = InShard(w, d) \o Buffered(w, d)

\* CacheSound says that the list and the map are in step.
LEMMA CacheIsInStep ==
    ASSUME TypeOK, NEW w \in Workers
    PROVE  CacheSound(w) <=> InStep(order[w], DOMAIN buffered[w]) /\ Len(order[w]) <= Capacity
<1>1. order[w] \in Seq(Chunks)
  BY WorkerTypes
<1> QED
  BY <1>1 DEF CacheSound, InStep

\* The writer is open: its chunk goes to the end of the list.
LEMMA OpenTakesUp ==
    ASSUME TypeOK, NEW w \in Workers, NEW c \in Chunks, CacheSound(w), AppendToOpen(w, c)
    PROVE  TakenUp(w, c)
<1> DEFINE g == groups[w][c]
           s == order[w]
           D == DOMAIN buffered[w]
<1>1. /\ c \in D /\ shard' = shard
      /\ buffered' = [buffered EXCEPT ![w][c] = @ \o g]
  BY DEF AppendToOpen
<1>2. InStep(s, D) /\ Len(s) <= Capacity /\ Len(s) \in Nat /\ DOMAIN s = 1 .. Len(s)
  <2>1. s \in Seq(Chunks)
    BY WorkerTypes
  <2> QED
    BY <2>1, CacheIsInStep, LenProperties
<1>3. PICK pos \in DOMAIN s : s[pos] = c
                              /\ order' = [order EXCEPT ![w] = Append(RemoveAt(s, pos), c)]
  <2> DEFINE places == {pos \in DOMAIN s : s[pos] = c}
  <2>1. places # {}
    BY <1>1, <1>2 DEF InStep
  <2>2. Min(places) \in places
    <3>1. places \subseteq Nat
      BY <1>2
    <3> HIDE DEF places
    <3>2. \E n \in places : \A m \in places : n <= m
      BY <2>1, <3>1, Least
    <3> QED
      BY <3>2 DEF Min
  <2>3. order' = [order EXCEPT ![w] =
                    Append(IF places = {} THEN @ ELSE RemoveAt(@, Min(places)), c)]
    BY DEF AppendToOpen
  <2>4. Min(places) \in DOMAIN s /\ s[Min(places)] = c
    BY <2>2
  <2> HIDE DEF places
  <2> QED
    BY <2>1, <2>3, <2>4
<1>4. /\ InStep(RemoveAt(s, pos), D \ {c}) /\ Len(RemoveAt(s, pos)) = Len(s) - 1
  BY <1>3, <1>2, InStepRemove
<1>5. /\ InStep(Append(RemoveAt(s, pos), c), (D \ {c}) \cup {c})
      /\ Len(Append(RemoveAt(s, pos), c)) = Len(s)
  <2>1. c \notin D \ {c}
    OBVIOUS
  <2>2. /\ InStep(Append(RemoveAt(s, pos), c), (D \ {c}) \cup {c})
        /\ Len(Append(RemoveAt(s, pos), c)) = Len(RemoveAt(s, pos)) + 1
    BY <1>4, <2>1, InStepAppend
  <2> QED
    BY <1>2, <1>4, <2>2
<1>6. (D \ {c}) \cup {c} = D
  BY <1>1
<1>7. /\ DOMAIN order' = Workers /\ order'[w] = Append(RemoveAt(s, pos), c)
      /\ \A v \in Workers \ {w} : order'[v] = order[v]
  BY <1>3 DEF TypeOK
<1>8. /\ DOMAIN buffered = Workers /\ DOMAIN shard = Workers
      /\ IsFiles(buffered[w]) /\ IsFiles(shard[w]) /\ D \subseteq DOMAIN shard[w]
  BY DEF TypeOK
<1>9. /\ DOMAIN buffered' = Workers
      /\ \A v \in Workers \ {w} : buffered'[v] = buffered[v]
      /\ buffered'[w] = [buffered[w] EXCEPT ![c] = @ \o g]
  BY <1>1, <1>8
<1>10. /\ DOMAIN buffered'[w] = D
       /\ buffered'[w][c] = buffered[w][c] \o g
       /\ \A d \in D \ {c} : buffered'[w][d] = buffered[w][d]
  BY <1>1, <1>9
<1>11. g \in Seq(Points) /\ \A d \in D : buffered[w][d] \in Seq(Points)
  BY WorkerTypes
<1>12. buffered[w][c] \o g \in Seq(Points)
  BY <1>1, <1>11, ConcatProperties
<1>13. IsFiles(buffered'[w])
  <2>1. buffered'[w] \in [D -> Seq(Points)]
    BY <1>8, <1>9, <1>12 DEF IsFiles
  <2> QED
    BY <1>8, <1>10, <2>1 DEF IsFiles
<1>14. InShard(w, c) \in Seq(Points)
  BY WorkerTypes
<1>15. InShard(w, c)' \o Buffered(w, c)' = InShard(w, c) \o Buffered(w, c) \o g
  <2>1. InShard(w, c)' = InShard(w, c)
    BY <1>1 DEF InShard
  <2>2. Buffered(w, c) = buffered[w][c] /\ Buffered(w, c)' = buffered[w][c] \o g
    BY <1>1, <1>10 DEF Buffered
  <2>3. buffered[w][c] \in Seq(Points)
    BY <1>1, <1>11
  <2>4. g \in Seq(Points)
    BY <1>11
  <2> DEFINE i == InShard(w, c)
             b == buffered[w][c]
  <2>5. i \in Seq(Points) /\ b \in Seq(Points)
    BY <1>14, <2>3
  <2> HIDE DEF g, i, b
  <2>6. (i \o b) \o g = i \o (b \o g)
    BY <2>4, <2>5, ConcatAssociative
  <2> QED
    BY <2>1, <2>2, <2>6 DEF i, b
<1>16. ASSUME NEW d \in Chunks \ {c}
       PROVE  InShard(w, d)' \o Buffered(w, d)' = InShard(w, d) \o Buffered(w, d)
  <2>1. InShard(w, d)' = InShard(w, d)
    BY <1>1 DEF InShard
  <2>2. Buffered(w, d)' = Buffered(w, d)
    BY <1>10 DEF Buffered
  <2> QED
    BY <2>1, <2>2
<1>17. InStep(order'[w], DOMAIN buffered'[w]) /\ Len(order'[w]) <= Capacity
  BY <1>2, <1>5, <1>6, <1>7, <1>10
<1> QED
  BY <1>1, <1>7, <1>8, <1>9, <1>10, <1>13, <1>15, <1>16, <1>17 DEF TakenUp

\* The writer is not open: writers are evicted, their points go to the end of
\* their shards, and the chunk's shard is opened at its end.
LEMMA ReopenTakesUp ==
    ASSUME TypeOK, NEW w \in Workers, NEW c \in Chunks, CacheSound(w), OpenAndAppend(w, c)
    PROVE  TakenUp(w, c)
<1> DEFINE g == groups[w][c]
           s == order[w]
           D == DOMAIN buffered[w]
           H == DOMAIN shard[w]
<1>1. InStep(s, D) /\ Len(s) <= Capacity /\ Len(s) \in Nat
  <2>1. s \in Seq(Chunks)
    BY WorkerTypes
  <2> QED
    BY <2>1, CacheIsInStep, LenProperties
<1>2. PICK k \in 0 .. Len(s) : Victims(w) = SubSeq(s, 1, k) /\ Len(s) - k < Capacity
  BY <1>1, VictimsAre
<1> DEFINE V == ToSet(Victims(w))
           kept == D \ V
           rest == SubSeq(s, k + 1, Len(s))
<1>3. /\ InStep(rest, kept) /\ Len(rest) = Len(s) - k
      /\ V \subseteq D /\ Len(Victims(w)) = k
  BY <1>1, <1>2, InStepSuffix
<1>4. /\ c \notin D
      /\ order' = [order EXCEPT ![w] = Append(SubSeq(@, Len(Victims(w)) + 1, Len(@)), c)]
      /\ buffered' = [buffered EXCEPT ![w] =
                        [d \in kept \cup {c} |-> IF d = c THEN groups[w][c] ELSE @[d]]]
      /\ shard' = [shard EXCEPT ![w] =
                     [d \in DOMAIN @ \cup {c} |->
                        IF d \in V THEN Flushed(w, d)
                        ELSE IF d \in DOMAIN @ THEN @[d] ELSE <<>>]]
  BY DEF OpenAndAppend
<1>5. DOMAIN order = Workers /\ DOMAIN buffered = Workers /\ DOMAIN shard = Workers
      /\ D \subseteq H /\ D \subseteq Chunks /\ H \subseteq Chunks
  BY WorkerTypes DEF TypeOK
<1> HIDE DEF V, kept, rest
<1>6. /\ DOMAIN order' = Workers /\ \A v \in Workers \ {w} : order'[v] = order[v]
      /\ order'[w] = Append(rest, c)
  BY <1>3, <1>4, <1>5 DEF rest
<1>7. /\ DOMAIN buffered' = Workers /\ \A v \in Workers \ {w} : buffered'[v] = buffered[v]
      /\ buffered'[w] = [d \in kept \cup {c} |-> IF d = c THEN g ELSE buffered[w][d]]
  BY <1>4, <1>5
<1>8. /\ DOMAIN shard' = Workers /\ \A v \in Workers \ {w} : shard'[v] = shard[v]
      /\ shard'[w] = [d \in H \cup {c} |->
                        IF d \in V THEN Flushed(w, d)
                        ELSE IF d \in H THEN shard[w][d] ELSE <<>>]
  BY <1>4, <1>5
<1>9. kept \subseteq D /\ c \notin kept /\ c \notin V
  BY <1>3, <1>4 DEF kept
<1>10. InStep(Append(rest, c), kept \cup {c}) /\ Len(Append(rest, c)) = Len(rest) + 1
  BY <1>3, <1>9, InStepAppend
<1>11. DOMAIN buffered'[w] = kept \cup {c} /\ DOMAIN shard'[w] = H \cup {c}
  BY <1>7, <1>8
<1>12. InStep(order'[w], DOMAIN buffered'[w]) /\ Len(order'[w]) <= Capacity
  <2>1. Len(s) - k + 1 <= Capacity
    BY <1>1, <1>2, Assumed
  <2> QED
    BY <1>3, <1>6, <1>10, <1>11, <2>1
<1>13. /\ \A d \in D : buffered[w][d] \in Seq(Points)
       /\ \A d \in H : shard[w][d] \in Seq(Points)
       /\ g \in Seq(Points) /\ <<>> \in Seq(Points)
  BY WorkerTypes, EmptySeq
<1>14. \A d \in V : Flushed(w, d) \in Seq(Points) /\ Flushed(w, d) = shard[w][d] \o buffered[w][d]
  <2> TAKE d \in V
  <2>1. d \in D /\ d \in H
    BY <1>3, <1>5
  <2> QED
    BY <1>13, <2>1, ConcatProperties DEF Flushed
<1>15. IsFiles(buffered'[w])
  <2>1. buffered'[w] \in [kept \cup {c} -> Seq(Points)]
    <3>1. \A d \in kept \cup {c} : (IF d = c THEN g ELSE buffered[w][d]) \in Seq(Points)
      BY <1>9, <1>13
    <3> HIDE DEF g
    <3> QED
      BY <1>7, <3>1
  <2>2. kept \cup {c} \subseteq Chunks
    BY <1>5, <1>9
  <2> QED
    BY <1>11, <2>1, <2>2 DEF IsFiles
<1>16. IsFiles(shard'[w])
  <2>1. shard'[w] \in [H \cup {c} -> Seq(Points)]
    <3>1. \A d \in H \cup {c} :
             (IF d \in V THEN Flushed(w, d)
              ELSE IF d \in H THEN shard[w][d] ELSE <<>>) \in Seq(Points)
      BY <1>13, <1>14
    <3> HIDE DEF H
    <3> QED
      BY <1>8, <3>1
  <2> QED
    BY <1>5, <1>11, <2>1 DEF IsFiles
<1>17. DOMAIN buffered'[w] \subseteq DOMAIN shard'[w]
  BY <1>5, <1>9, <1>11
<1>18. InShard(w, c)' \o Buffered(w, c)' = InShard(w, c) \o Buffered(w, c) \o g
  <2>1. InShard(w, c)' = InShard(w, c)
    BY <1>8, <1>9, <1>11 DEF InShard
  <2>2. Buffered(w, c)' = g
    BY <1>7, <1>11 DEF Buffered
  <2>3. Buffered(w, c) = <<>>
    BY <1>4 DEF Buffered
  <2>4. InShard(w, c) \in Seq(Points)
    BY WorkerTypes
  <2>5. InShard(w, c) \o <<>> = InShard(w, c)
    BY <2>4, ConcatEmptySeq
  <2> QED
    BY <2>1, <2>2, <2>3, <2>5
<1>19. ASSUME NEW d \in Chunks \ {c}
       PROVE  InShard(w, d)' \o Buffered(w, d)' = InShard(w, d) \o Buffered(w, d)
  <2>1. CASE d \in V
    <3>1. d \in D /\ d \in H /\ d \notin kept
      BY <1>3, <1>5, <2>1 DEF kept
    <3>2. Buffered(w, d) = buffered[w][d] /\ InShard(w, d) = shard[w][d]
      BY <3>1 DEF Buffered, InShard
    <3>3. Buffered(w, d)' = <<>>
      BY <1>11, <3>1 DEF Buffered
    <3>4. InShard(w, d)' = Flushed(w, d)
      <4>1. d \in H \cup {c} /\ d \in DOMAIN shard'[w]
        BY <1>11, <3>1
      <4>2. shard'[w][d] = Flushed(w, d)
        BY <1>8, <2>1, <4>1
      <4> QED
        BY <4>1, <4>2 DEF InShard
    <3>5. Flushed(w, d) \o <<>> = Flushed(w, d)
      BY <1>14, <2>1, ConcatEmptySeq
    <3>6. Flushed(w, d) = shard[w][d] \o buffered[w][d]
      BY DEF Flushed
    <3> QED
      BY <3>2, <3>3, <3>4, <3>5, <3>6
  <2>2. CASE d \notin V
    <3>1. d \in D <=> d \in kept \cup {c}
      BY <2>2 DEF kept
    <3>2. Buffered(w, d)' = Buffered(w, d)
      BY <1>7, <1>11, <3>1 DEF Buffered
    <3>3. InShard(w, d)' = InShard(w, d)
      <4>1. CASE d \in H
        <5>1. d \in H \cup {c} /\ d \in DOMAIN shard'[w]
          BY <1>11, <4>1
        <5>2. shard'[w][d] = shard[w][d]
          BY <1>8, <2>2, <4>1, <5>1
        <5> QED
          BY <4>1, <5>1, <5>2 DEF InShard
      <4>2. CASE d \notin H
        BY <1>11, <4>2 DEF InShard
      <4> QED
        BY <4>1, <4>2
    <3> QED
      BY <3>2, <3>3
  <2> QED
    BY <2>1, <2>2
<1> QED
  BY <1>6, <1>7, <1>8, <1>12, <1>15, <1>16, <1>17, <1>18, <1>19 DEF TakenUp

\* The last points of a list in order are as many as they look.
LEMMA LastOfList ==
    ASSUME NEW S, S \subseteq Points, NEW a \in Seq(Points), NEW g \in Seq(Points),
           a \o g = InOrder(S)
    PROVE  ToSet(g) \subseteq S /\ IsFiniteSet(ToSet(g)) /\ Cardinality(ToSet(g)) = Len(g)
<1> DEFINE u == a \o g
           T == ToSet(g)
<1>1. Len(a) \in Nat /\ Len(g) \in Nat /\ DOMAIN g = 1 .. Len(g)
  BY LenProperties
<1>2. Len(u) = Len(a) + Len(g)
      /\ \A i \in 1 .. Len(a) + Len(g) : u[i] = IF i <= Len(a) THEN a[i] ELSE g[i - Len(a)]
  BY ConcatProperties
<1>3. Lists(u, S) /\ S \subseteq Nat
  BY PointList
<1> HIDE DEF u
<1>4. ASSUME NEW i \in 1 .. Len(g)
      PROVE  Len(a) + i \in 1 .. Len(u) /\ u[Len(a) + i] = g[i] /\ g[i] \in S
  <2>1. /\ Len(a) + i \in 1 .. Len(a) + Len(g) /\ ~(Len(a) + i <= Len(a))
        /\ Len(a) + i - Len(a) = i
    BY <1>1
  <2>2. u[Len(a) + i] = g[i]
    BY <1>2, <2>1
  <2>3. Len(a) + i \in 1 .. Len(u)
    BY <1>2, <2>1
  <2>4. u[Len(a) + i] \in S
    BY <1>3, <2>3, ElementOfSeq DEF Lists
  <2> QED
    BY <2>2, <2>3, <2>4
<1>5. T = {g[i] : i \in 1 .. Len(g)}
  BY <1>1 DEF ToSet
<1> HIDE DEF T
<1>6. T \subseteq S
  BY <1>4, <1>5
<1>7. ASSUME NEW i \in 1 .. Len(g), NEW j \in 1 .. Len(g), i < j PROVE g[i] < g[j]
  <2>1. Len(a) + i < Len(a) + j
    BY <1>1, <1>7
  <2>2. u[Len(a) + i] < u[Len(a) + j]
    BY <1>3, <1>4, <2>1 DEF Lists
  <2> QED
    BY <1>4, <2>2
<1>8. g \in Seq(T)
  <2>1. \A i \in 1 .. Len(g) : g[i] \in T
    BY <1>5
  <2>2. g \in [1 .. Len(g) -> T]
    BY <1>1, <2>1
  <2> DEFINE n == Len(g)
  <2>3. n \in Nat /\ g \in [1 .. n -> T]
    BY <1>1, <2>2
  <2> HIDE DEF n
  <2>4. g \in UNION {[1 .. m -> T] : m \in Nat}
    BY <2>3
  <2> QED
    BY <2>4, SeqDef, Zenon
<1>9. Lists(g, T)
  BY <1>5, <1>7, <1>8 DEF Lists
<1>10. T \subseteq Nat
  BY <1>3, <1>6
<1>11. IsFiniteSet(T) /\ Cardinality(T) = Len(g)
  BY <1>9, <1>10, ListLength
<1> QED
  BY <1>6, <1>11 DEF T

\* No point is in two slices.
LEMMA OneSlice ==
    ASSUME NEW v \in Workers, NEW w \in Workers, NEW c, NEW p,
           p \in Slice(v, c), p \in Slice(w, c)
    PROVE  v = w
<1>1. p \in Edge(v) + 1 .. Edge(v + 1) /\ p \in Edge(w) + 1 .. Edge(w + 1)
  BY DEF Slice
<1>2. p \in Nat
  <2>1. p \in Points
    BY SliceBounded
  <2> QED
    BY <2>1, Assumed DEF Points
<1>3. v \in Nat /\ w \in Nat
  BY WorkerNumbers
<1>4. ~(v < w)
  <2> SUFFICES ASSUME v < w PROVE FALSE
    OBVIOUS
  <2>1. p < p
    BY <1>1, SlicesApart
  <2> QED
    BY <1>2, <2>1
<1>5. ~(w < v)
  <2> SUFFICES ASSUME w < v PROVE FALSE
    OBVIOUS
  <2>1. p < p
    BY <1>1, SlicesApart
  <2> QED
    BY <1>2, <2>1
<1> QED
  BY <1>3, <1>4, <1>5

\* A group is appended: nothing is lost, and its points are tallied.
LEMMA AppendGroupSound ==
    ASSUME IInv, NEW w \in Workers, NEW c \in Chunks, AppendGroup(w, c) PROVE IInv'
<1> USE DEF IInv
<1> DEFINE g == groups[w][c]
<1>1. /\ status[w] = "running"
      /\ counts' = [counts EXCEPT ![c] = @ + Len(g)]
      /\ groups' = [groups EXCEPT ![w][c] = <<>>]
      /\ UNCHANGED <<chunkOf, status, file, next, mergeVars>>
  BY DEF AppendGroup
<1>2. WorkerSound(w) /\ TypeOK
  OBVIOUS
<1>3. TakenUp(w, c)
  <2>1. CacheSound(w)
    BY <1>2 DEF WorkerSound
  <2> QED
    BY <1>2, <2>1, OpenTakesUp, ReopenTakesUp DEF AppendGroup
<1>4. g \in Seq(Points) /\ Len(g) \in Nat
  <2>1. g \in Seq(Points)
    BY <1>2, WorkerTypes
  <2> QED
    BY <2>1, LenProperties
<1>5. /\ groups' \in [Workers -> [Chunks -> Seq(Points)]]
      /\ groups'[w][c] = <<>>
      /\ \A d \in Chunks \ {c} : groups'[w][d] = groups[w][d]
      /\ \A v \in Workers \ {w} : groups'[v] = groups[v]
  <2>1. groups \in [Workers -> [Chunks -> Seq(Points)]]
    BY DEF TypeOK
  <2>2. <<>> \in Seq(Points)
    BY EmptySeq
  <2> HIDE DEF IInv
  <2>3. groups' = [groups EXCEPT ![w] = [groups[w] EXCEPT ![c] = <<>>]]
    BY <1>1, <2>1
  <2>4. groups[w] \in [Chunks -> Seq(Points)]
    BY <2>1
  <2> DEFINE h == [groups[w] EXCEPT ![c] = <<>>]
  <2>5. h \in [Chunks -> Seq(Points)] /\ h[c] = <<>> /\ \A d \in Chunks \ {c} : h[d] = groups[w][d]
    BY <2>2, <2>4
  <2> HIDE DEF h
  <2> QED
    BY <2>1, <2>3, <2>5 DEF h
<1>6. /\ counts' \in [Chunks -> Nat] /\ counts'[c] = counts[c] + Len(g) /\ counts[c] \in Nat
      /\ \A d \in Chunks \ {c} : counts'[d] = counts[d]
  <2>1. counts \in [Chunks -> Nat]
    BY DEF TypeOK
  <2> HIDE DEF g
  <2> QED
    BY <1>1, <1>4, <2>1
<1>7. Only(w)
  BY <1>1, <1>3, <1>5 DEF Only, TakenUp
<1>8. TypeOK'
  <2>1. order' \in [Workers -> Seq(Chunks)]
    <3>1. DOMAIN order' = Workers /\ order'[w] \in Seq(Chunks)
          /\ \A v \in Workers \ {w} : order'[v] = order[v]
      BY <1>3 DEF TakenUp, InStep
    <3>2. order \in [Workers -> Seq(Chunks)]
      BY DEF TypeOK
    <3>3. order' = [v \in Workers |-> order'[v]]
      <4>1. CASE AppendToOpen(w, c)
        BY <3>2, <4>1 DEF AppendToOpen
      <4>2. CASE OpenAndAppend(w, c)
        BY <3>2, <4>2 DEF OpenAndAppend
      <4> QED
        BY <4>1, <4>2 DEF AppendGroup
    <3> HIDE DEF IInv
    <3> QED
      BY <3>1, <3>2, <3>3
  <2>2. ASSUME NEW v \in Workers
        PROVE  /\ IsFiles(buffered'[v]) /\ IsFiles(shard'[v])
               /\ DOMAIN buffered'[v] \subseteq DOMAIN shard'[v]
    <3>1. CASE v = w
      BY <1>3, <3>1 DEF TakenUp
    <3>2. CASE v # w
      <4>1. buffered'[v] = buffered[v] /\ shard'[v] = shard[v]
        BY <1>3, <3>2 DEF TakenUp
      <4> QED
        BY <4>1 DEF TypeOK
    <3> QED
      BY <3>1, <3>2
  <2>3. DOMAIN buffered' = Workers /\ DOMAIN shard' = Workers
    BY <1>3 DEF TakenUp
  <2>4. \A f : IsFiles(f)' = IsFiles(f)
    BY DEF IsFiles
  <2> QED
    BY <1>1, <1>5, <1>6, <2>1, <2>2, <2>3 DEF TypeOK, mergeVars, IsFiles
<1>9. ASSUME NEW d \in Chunks PROVE HoldsSeen(w, d) /\ Seen(w, d) \subseteq Points
  <2>1. HoldsSeen(w, d)
    BY <1>1, <1>2, NothingMerged DEF WorkerSound
  <2>2. Reading(w)
    BY <1>2 DEF WorkerSound
  <2> QED
    BY <1>2, <2>1, <2>2, SeenInSlice
<1>10. ASSUME NEW d \in Chunks PROVE HoldsSeen(w, d)'
  <2>1. Seen(w, d)' = Seen(w, d)
    BY <1>1 DEF Seen
  <2>2. CASE d # c
    <3>1. InShard(w, d)' \o Buffered(w, d)' = InShard(w, d) \o Buffered(w, d)
      BY <1>3, <2>2 DEF TakenUp
    <3>2. groups'[w][d] = groups[w][d]
      BY <1>5, <2>2
    <3>3. HoldsSeen(w, d)
      BY <1>9
    <3> QED
      BY <2>1, <3>1, <3>2, <3>3 DEF HoldsSeen
  <2>3. CASE d = c
    <3>1. InShard(w, c)' \o Buffered(w, c)' = InShard(w, c) \o Buffered(w, c) \o groups[w][c]
      BY <1>3 DEF TakenUp
    <3>2. InShard(w, c) \o Buffered(w, c) \o groups[w][c] = InOrder(Seen(w, c))
      BY <1>9 DEF HoldsSeen
    <3>3. InOrder(Seen(w, c)) \in Seq(Points)
      BY <1>9, PointList
    <3>4. InOrder(Seen(w, c)) \o <<>> = InOrder(Seen(w, c))
      BY <3>3, ConcatEmptySeq
    <3>5. InShard(w, c)' \o Buffered(w, c)' \o groups'[w][c] = InOrder(Seen(w, c)')
      BY <1>5, <2>1, <2>3, <3>1, <3>2, <3>4
    <3> QED
      BY <2>3, <3>5 DEF HoldsSeen
  <2> QED
    BY <2>2, <2>3
<1>11. WorkerSound(w)'
  <2>1. Reading(w)'
    BY <1>1, <1>2 DEF WorkerSound, Reading
  <2>2. CacheSound(w)'
    BY <1>3 DEF TakenUp, InStep, CacheSound
  <2>3. EndedWell(w)'
    BY <1>1 DEF EndedWell
  <2> QED
    BY <1>10, <2>1, <2>2, <2>3 DEF WorkerSound
<1>12. ToSet(g) \subseteq Seen(w, c) /\ IsFiniteSet(ToSet(g)) /\ Cardinality(ToSet(g)) = Len(g)
  <2> DEFINE a == InShard(w, c) \o Buffered(w, c)
  <2>1. a \in Seq(Points)
    <3>1. InShard(w, c) \in Seq(Points) /\ Buffered(w, c) \in Seq(Points)
      BY <1>2, WorkerTypes
    <3> QED
      BY <3>1, ConcatProperties
  <2>2. a \o g = InOrder(Seen(w, c))
    BY <1>9 DEF HoldsSeen
  <2>3. Seen(w, c) \subseteq Points
    BY <1>9
  <2> HIDE DEF a, g
  <2> QED
    BY <1>4, <2>1, <2>2, <2>3, LastOfList
<1>13. ToSet(<<>>) = {}
  BY DEF ToSet
<1>14. \A v \in Workers : Seen(v, c)' = Seen(v, c)
  BY <1>1 DEF Seen
<1>15. Appended(c)' = Appended(c) \cup ToSet(g)
  <2>1. All(c)' = All(c)
    BY <1>1 DEF All
  <2>2. ToSet(groups'[w][c]) = {}
    BY <1>5, <1>13
  <2>3. \A v \in Workers \ {w} : groups'[v][c] = groups[v][c]
    BY <1>5
  <2>4. Seen(w, c) \subseteq All(c)
    BY <1>9 DEF Seen, All
  <2>5. ASSUME NEW p
        PROVE  (\E v \in Workers : p \in Seen(v, c)' /\ p \notin ToSet(groups'[v][c]))
               <=> \/ \E v \in Workers : p \in Seen(v, c) /\ p \notin ToSet(groups[v][c])
                   \/ p \in ToSet(g)
    <3>1. ASSUME NEW v \in Workers, v # w
          PROVE  p \in Seen(v, c)' /\ p \notin ToSet(groups'[v][c])
                 <=> p \in Seen(v, c) /\ p \notin ToSet(groups[v][c])
      BY <1>14, <2>3, <3>1
    <3>2. p \in Seen(w, c)' /\ p \notin ToSet(groups'[w][c]) <=> p \in Seen(w, c)
      BY <1>14, <2>2
    <3>3. p \in Seen(w, c) <=> (p \in Seen(w, c) /\ p \notin ToSet(groups[w][c])) \/ p \in ToSet(g)
      BY <1>12
    <3> HIDE DEF IInv
    <3> QED
      BY <3>1, <3>2, <3>3
  <2> HIDE DEF IInv, g
  <2> QED
    BY <1>12, <2>1, <2>4, <2>5 DEF Appended
<1>16. Appended(c) \cap ToSet(g) = {}
  <2> SUFFICES ASSUME NEW p \in Appended(c), p \in ToSet(g) PROVE FALSE
    OBVIOUS
  <2>1. PICK v \in Workers : p \in Seen(v, c) /\ p \notin ToSet(groups[v][c])
    BY DEF Appended
  <2>2. p \in Seen(w, c)
    BY <1>12
  <2>3. Reading(v) /\ Reading(w)
    BY DEF WorkerSound
  <2>4. p \in Slice(v, c) /\ p \in Slice(w, c)
    BY <1>2, <2>1, <2>2, <2>3, SeenInSlice
  <2>5. v = w
    BY <2>4, OneSlice
  <2> QED
    BY <2>1, <2>5
<1>17. IsFiniteSet(Appended(c))
  <2>1. All(c) \subseteq Points
    BY DEF All
  <2>2. IsFiniteSet(All(c))
    BY <2>1, PointList
  <2>3. Appended(c) \subseteq All(c)
    BY DEF Appended
  <2> QED
    BY <2>2, <2>3, FS_Subset
<1>18. Cardinality(Appended(c) \cup ToSet(g)) = Cardinality(Appended(c)) + Len(g)
  <2>1. Cardinality(Appended(c) \cup ToSet(g))
          = Cardinality(Appended(c)) + Cardinality(ToSet(g))
              - Cardinality(Appended(c) \cap ToSet(g))
    BY <1>12, <1>17, FS_Union
  <2>2. Cardinality(Appended(c) \cap ToSet(g)) = 0
    BY <1>16, FS_EmptySet
  <2>3. Cardinality(Appended(c)) \in Nat
    BY <1>17, FS_CardinalityType
  <2> QED
    BY <1>4, <1>12, <2>1, <2>2, <2>3
<1>19. Tallied'
  <2> SUFFICES ASSUME \A v \in Workers : status[v] # "err", NEW d \in Chunks
               PROVE  counts'[d] = Cardinality(Appended(d)')
    BY <1>1 DEF Tallied
  <2>1. counts[d] = Cardinality(Appended(d))
    BY DEF Tallied
  <2>2. CASE d = c
    BY <1>6, <1>15, <1>18, <2>1, <2>2
  <2>3. CASE d # c
    <3>1. \A v \in Workers : groups'[v][d] = groups[v][d]
      BY <1>5, <2>3
    <3>2. \A v \in Workers : Seen(v, d)' = Seen(v, d)
      BY <1>1 DEF Seen
    <3>3. All(d)' = All(d)
      BY <1>1 DEF All
    <3>4. Appended(d)' = Appended(d)
      BY <3>1, <3>2, <3>3 DEF Appended
    <3> QED
      BY <1>6, <2>1, <2>3, <3>4
  <2> QED
    BY <2>2, <2>3
<1> QED
  BY <1>1, <1>7, <1>8, <1>11, <1>19, WorkerStepSound

\* The worker ends: what was buffered is at the end of its shards.
LEMMA FlushAllSound == ASSUME IInv, NEW w \in Workers, FlushAll(w) PROVE IInv'
<1> USE DEF IInv
<1> DEFINE D == DOMAIN buffered[w]
           H == DOMAIN shard[w]
<1>1. /\ status[w] = "running" /\ Drained(w) /\ file[w] > LastFile(w)
      /\ shard' = [shard EXCEPT ![w] =
                     [c \in DOMAIN @ |-> IF c \in D THEN Flushed(w, c) ELSE @[c]]]
      /\ buffered' = [buffered EXCEPT ![w] = None]
      /\ order' = [order EXCEPT ![w] = <<>>]
      /\ status' = [status EXCEPT ![w] = "ok"]
      /\ UNCHANGED <<chunkOf, file, next, groups, counts, mergeVars>>
  BY DEF FlushAll
<1>2. WorkerSound(w) /\ TypeOK
  OBVIOUS
<1>3. /\ status' \in [Workers -> {"waiting", "running", "ok", "err"}] /\ status'[w] = "ok"
      /\ \A v \in Workers \ {w} : status'[v] = status[v]
  BY <1>1 DEF TypeOK
<1>4. <<>> \in Seq(Chunks) /\ <<>> \in Seq(Points) /\ Len(<<>>) = 0
  BY EmptySeq
<1>5. /\ order' \in [Workers -> Seq(Chunks)] /\ order'[w] = <<>>
      /\ \A v \in Workers \ {w} : order'[v] = order[v]
  BY <1>1, <1>4 DEF TypeOK
<1>6. DOMAIN None = {}
  BY DEF None
<1>7. /\ DOMAIN buffered' = Workers /\ buffered'[w] = None
      /\ \A v \in Workers \ {w} : buffered'[v] = buffered[v]
  BY <1>1 DEF TypeOK
<1>8. /\ DOMAIN shard' = Workers
      /\ shard'[w] = [c \in H |-> IF c \in D THEN Flushed(w, c) ELSE shard[w][c]]
      /\ \A v \in Workers \ {w} : shard'[v] = shard[v]
  BY <1>1 DEF TypeOK
<1>9. /\ \A d \in D : buffered[w][d] \in Seq(Points)
      /\ \A d \in H : shard[w][d] \in Seq(Points)
      /\ D \subseteq H /\ H \subseteq Chunks
  BY <1>2, WorkerTypes
<1>10. DOMAIN shard'[w] = H /\ IsFiles(shard'[w])
  <2>1. \A d \in H : (IF d \in D THEN Flushed(w, d) ELSE shard[w][d]) \in Seq(Points)
    BY <1>9, ConcatProperties DEF Flushed
  <2> HIDE DEF H, D, IInv
  <2>2. shard'[w] \in [H -> Seq(Points)]
    BY <1>8, <2>1
  <2> QED
    BY <1>9, <2>2 DEF IsFiles
<1>11. Only(w)
  BY <1>1, <1>3, <1>5, <1>7, <1>8 DEF Only
<1>12. TypeOK'
  <2>1. ASSUME NEW v \in Workers
        PROVE  /\ IsFiles(buffered'[v]) /\ IsFiles(shard'[v])
               /\ DOMAIN buffered'[v] \subseteq DOMAIN shard'[v]
    <3>1. CASE v = w
      <4>1. IsFiles(None)
        BY <1>6 DEF None, IsFiles
      <4> QED
        BY <1>6, <1>7, <1>10, <3>1, <4>1
    <3>2. CASE v # w
      <4>1. buffered'[v] = buffered[v] /\ shard'[v] = shard[v]
        BY <1>7, <1>8, <3>2
      <4> QED
        BY <4>1 DEF TypeOK
    <3> QED
      BY <3>1, <3>2
  <2> QED
    BY <1>1, <1>3, <1>5, <1>7, <1>8, <2>1 DEF TypeOK, mergeVars, IsFiles
<1>13. ASSUME NEW c \in Chunks PROVE HoldsSeen(w, c)'
  <2>1. HoldsSeen(w, c)
    BY <1>1, <1>2, NothingMerged DEF WorkerSound
  <2>2. Seen(w, c)' = Seen(w, c) /\ groups'[w][c] = <<>> /\ groups[w][c] = <<>>
    BY <1>1 DEF Seen, Drained
  <2>3. Buffered(w, c)' = <<>>
    BY <1>6, <1>7 DEF Buffered
  <2>4. InShard(w, c) \in Seq(Points) /\ Buffered(w, c) \in Seq(Points)
    BY <1>2, WorkerTypes
  <2>5. InShard(w, c)' = InShard(w, c) \o Buffered(w, c)
    <3>1. CASE c \in D
      <4>1. c \in H
        BY <1>9, <3>1
      <4> QED
        BY <1>8, <1>10, <3>1, <4>1 DEF InShard, Buffered, Flushed
    <3>2. CASE c \notin D
      <4>1. Buffered(w, c) = <<>>
        BY <3>2 DEF Buffered
      <4>2. InShard(w, c)' = InShard(w, c)
        BY <1>8, <1>10, <3>2 DEF InShard
      <4> QED
        BY <2>4, <4>1, <4>2, ConcatEmptySeq
    <3> QED
      BY <3>1, <3>2
  <2> DEFINE a == InShard(w, c) \o Buffered(w, c)
  <2>6. a \in Seq(Points)
    BY <2>4, ConcatProperties
  <2>7. a \o <<>> = InOrder(Seen(w, c))
    BY <2>1, <2>2 DEF HoldsSeen
  <2> HIDE DEF a
  <2>8. InShard(w, c)' = a
    BY <2>5 DEF a
  <2>9. a \o <<>> = a
    BY <2>6, ConcatEmptySeq
  <2> QED
    BY <2>2, <2>3, <2>7, <2>8, <2>9 DEF HoldsSeen
<1>14. WorkerSound(w)'
  <2>1. Reading(w)'
    BY <1>1, <1>2 DEF WorkerSound, Reading
  <2>2. CacheSound(w)'
    BY <1>4, <1>5, <1>6, <1>7, Assumed DEF CacheSound
  <2>3. EndedWell(w)'
    <3>1. Drained(w)' = Drained(w)
      BY <1>1 DEF Drained
    <3> QED
      BY <1>1, <1>6, <1>7, <3>1 DEF EndedWell
  <2> QED
    BY <1>13, <2>1, <2>2, <2>3 DEF WorkerSound
<1>15. Tallied'
  <2>1. Tallied
    OBVIOUS
  <2> QED
    BY <1>1, <1>3, <2>1, TalliedFrame
<1> QED
  BY <1>1, <1>11, <1>12, <1>14, <1>15, WorkerStepSound

-----------------------------------------------------------------------------
(* The steps of the calling thread and of the merge                         *)

\* Nothing but the phase changes.
LEMMA JoinSound == ASSUME IInv, Join PROVE IInv'
<1> USE DEF IInv
<1>1. /\ phase = "distributing" /\ WorkersJoined
      /\ phase' = IF \E w \in Workers : status[w] = "err" THEN "failed" ELSE "merging"
      /\ UNCHANGED <<chunkOf, workerVars, canonical, merging, stashed>>
  BY DEF Join
<1>2. UNCHANGED <<chunkOf, status, file, next, groups, order, buffered, shard, counts,
                  canonical, merging, stashed>>
  BY <1>1 DEF workerVars
<1>3. TypeOK'
  BY <1>1, <1>2 DEF TypeOK, IsFiles
<1>4. ASSUME NEW w \in Workers PROVE WorkerSound(w)'
  <2>1. \A c \in Chunks : InShard(w, c)' = InShard(w, c)
    BY <1>2 DEF InShard
  <2>2. WorkerSound(w)
    OBVIOUS
  <2> QED
    BY <1>2, <2>1, <2>2, WorkerFrame
<1>5. PhasesInOrder'
  BY <1>1, <1>2 DEF PhasesInOrder, WorkersJoined
<1>6. \A c \in Chunks : ChunkSound(c)'
  <2>1. \A c \in Chunks : All(c)' = All(c)
    BY <1>2 DEF All
  <2>2. \A c \in Chunks, w \in Workers : Slice(w, c)' = Slice(w, c)
    BY <1>2 DEF Slice
  <2>3. \A c \in Chunks : merging[c].at = "todo"
    BY <1>1 DEF PhasesInOrder
  <2> QED
    BY <1>2, <2>3 DEF ChunkSound
<1>7. Tallied'
  <2>1. Tallied
    OBVIOUS
  <2> QED
    BY <1>2, <2>1, TalliedFrame
<1> QED
  BY <1>3, <1>4, <1>5, <1>6, <1>7

\* An ascending list of workers: the first, and those after it.
LEMMA FirstAndRest ==
    ASSUME NEW s \in Seq(Workers), s # <<>>, Ascends(s)
    PROVE  /\ Head(s) \in Workers /\ Tail(s) \in Seq(Workers) /\ Ascends(Tail(s))
           /\ ToSet(s) = {Head(s)} \cup ToSet(Tail(s))
           /\ ToSet(s) \subseteq Workers
           /\ \A v \in ToSet(Tail(s)) : Head(s) < v /\ v # Head(s)
<1> DEFINE t == Tail(s)
<1>1. /\ Head(s) \in Workers /\ t \in Seq(Workers) /\ Len(t) = Len(s) - 1
      /\ \A i \in 1 .. Len(t) : t[i] = s[i + 1]
  BY HeadTailProperties
<1>2. Head(s) = s[1] /\ Len(s) \in Nat /\ Len(s) > 0 /\ DOMAIN s = 1 .. Len(s)
  BY LenProperties, EmptySeq
<1>3. DOMAIN t = 1 .. Len(t)
  BY <1>1, LenProperties
<1> HIDE DEF t
<1>4. \A i \in 1 .. Len(t) : i + 1 \in 1 .. Len(s) /\ i + 1 > 1
  BY <1>1, <1>2
<1>5. \A i \in 1 .. Len(s) : s[i] \in Workers
  BY ElementOfSeq
<1>6. Ascends(t)
  <2> SUFFICES ASSUME NEW i \in 1 .. Len(t), NEW j \in 1 .. Len(t), i < j PROVE t[i] < t[j]
    BY <1>3 DEF Ascends
  <2>1. i + 1 < j + 1
    BY <1>1, <1>2
  <2>2. s[i + 1] < s[j + 1]
    BY <1>2, <1>4, <2>1 DEF Ascends
  <2> QED
    BY <1>1, <2>2
<1>7. ToSet(s) = {s[i] : i \in 1 .. Len(s)} /\ ToSet(t) = {t[i] : i \in 1 .. Len(t)}
  BY <1>2, <1>3 DEF ToSet
<1>8. ASSUME NEW v \in ToSet(s) PROVE v = Head(s) \/ v \in ToSet(t)
  <2>1. PICK i \in 1 .. Len(s) : v = s[i]
    BY <1>7
  <2>2. CASE i = 1
    BY <1>2, <2>1, <2>2
  <2>3. CASE i # 1
    <3>1. i - 1 \in 1 .. Len(t) /\ i - 1 + 1 = i
      BY <1>1, <1>2, <2>3
    <3>2. t[i - 1] = s[i]
      BY <1>1, <3>1
    <3> QED
      BY <1>7, <2>1, <3>1, <3>2
  <2> QED
    BY <2>2, <2>3
<1>9. ASSUME NEW v \in ToSet(t) PROVE v \in ToSet(s) /\ Head(s) < v /\ v # Head(s)
  <2>1. PICK i \in 1 .. Len(t) : v = t[i]
    BY <1>7
  <2>2. v = s[i + 1] /\ i + 1 \in 1 .. Len(s) /\ 1 \in 1 .. Len(s) /\ 1 < i + 1
    BY <1>1, <1>2, <1>4, <2>1
  <2>3. s[1] < v
    BY <1>2, <2>2 DEF Ascends
  <2>4. v \in Nat /\ s[1] \in Nat
    BY <1>1, <1>2, <1>5, <2>2, WorkerNumbers
  <2> QED
    BY <1>2, <1>7, <2>2, <2>3, <2>4
<1>10. Head(s) \in ToSet(s) /\ ToSet(s) \subseteq Workers
  <2>1. 1 \in 1 .. Len(s)
    BY <1>2
  <2> QED
    BY <1>2, <1>5, <1>7, <2>1
<1> QED
  BY <1>1, <1>6, <1>8, <1>9, <1>10 DEF t

\* When the workers are done, each shard that is left holds a slice of its chunk.
LEMMA WorkersDone ==
    ASSUME IInv, phase \in {"merging", "done"}, NEW w \in Workers
    PROVE  /\ status[w] = "ok"
           /\ \A c \in Chunks :
                 /\ Seen(w, c) = Slice(w, c) /\ groups[w][c] = <<>>
                 /\ merging[c].at = "todo" => InShard(w, c) = InOrder(Slice(w, c))
<1>1. status[w] = "ok" /\ WorkerSound(w) /\ TypeOK
  BY DEF IInv, PhasesInOrder
<1>2. file[w] > LastFile(w) /\ DOMAIN buffered[w] = {} /\ Drained(w) /\ Reading(w)
  BY <1>1 DEF WorkerSound, EndedWell
<1>3. ASSUME NEW c \in Chunks PROVE Seen(w, c) = Slice(w, c) /\ groups[w][c] = <<>>
  BY <1>1, <1>2, SeenInSlice DEF Drained
<1>4. ASSUME NEW c \in Chunks, merging[c].at = "todo" PROVE InShard(w, c) = InOrder(Slice(w, c))
  <2>1. HoldsSeen(w, c)
    BY <1>1, <1>4 DEF WorkerSound
  <2>2. Buffered(w, c) = <<>>
    BY <1>2 DEF Buffered
  <2>3. InShard(w, c) \in Seq(Points)
    BY <1>1, WorkerTypes
  <2>4. InShard(w, c) \o <<>> = InShard(w, c)
    BY <2>3, ConcatEmptySeq
  <2> QED
    BY <1>3, <2>1, <2>2, <2>4 DEF HoldsSeen
<1> QED
  BY <1>1, <1>3, <1>4

\* Every point of a chunk is in a slice.
LEMMA InSomeSlice ==
    ASSUME NEW c, NEW p \in All(c)
    PROVE  p \in Points /\ \E w \in Workers : p \in Slice(w, c)
<1>1. p \in Points /\ chunkOf[p] = c
  BY DEF All
<1>2. PICK w \in Workers : p \in Edge(w) + 1 .. Edge(w + 1)
  BY <1>1, SlicesCover
<1> QED
  BY <1>1, <1>2 DEF Slice

\* What is in a slice is of the chunk.
LEMMA SliceOfChunk ==
    ASSUME NEW c, NEW w \in Workers
    PROVE  Slice(w, c) \subseteq All(c)
BY SliceBounded DEF Slice, All

\* A step of the merge of chunk c changes nothing of the other chunks.
LEMMA MergeStepSound ==
    ASSUME IInv, phase = "merging", NEW c \in Chunks,
           UNCHANGED <<chunkOf, status, file, next, groups, order, buffered, counts,
                       phase, stashed>>,
           TypeOK', ChunkSound(c)', merging[c].at # "ok", merging'[c].at # "todo",
           \A d \in Chunks \ {c} :
              /\ merging'[d] = merging[d]
              /\ d \in DOMAIN canonical => d \in DOMAIN canonical' /\ canonical'[d] = canonical[d]
              /\ \A w \in Workers : /\ InShard(w, d)' = InShard(w, d)
                                    /\ d \in DOMAIN shard[w] =>
                                          d \in DOMAIN shard'[w] /\ shard'[w][d] = shard[w][d]
    PROVE  IInv'
<1> USE DEF IInv
<1>1. ASSUME NEW w \in Workers PROVE WorkerSound(w)'
  <2>1. WorkerSound(w)
    OBVIOUS
  <2>2. \A d \in Chunks : merging'[d].at = "todo"
           => merging[d].at = "todo" /\ InShard(w, d)' = InShard(w, d)
    OBVIOUS
  <2> QED
    BY <2>1, <2>2, WorkerFrame
<1>2. PhasesInOrder'
  BY DEF PhasesInOrder
<1>3. ASSUME NEW d \in Chunks PROVE ChunkSound(d)'
  <2>1. CASE d = c
    BY <2>1
  <2>2. CASE d # c
    <3>1. ChunkSound(d) /\ d \in Chunks \ {c}
      BY <2>2
    <3>2. All(d)' = All(d) /\ \A w \in Workers : Slice(w, d)' = Slice(w, d)
      BY DEF All, Slice
    <3>3. merging'[d] = merging[d]
      BY <2>2
    <3>4. ToSet(merging[d].left) \subseteq Workers
      <4>1. merging[d].left \in Seq(Workers)
        BY DEF TypeOK
      <4> QED
        BY <4>1, LenProperties, ElementOfSeq DEF ToSet
    <3>5. Left(d)' = Left(d)
      BY <3>2, <3>3, <3>4 DEF Left
    <3>6. d \in DOMAIN canonical => d \in DOMAIN canonical' /\ canonical'[d] = canonical[d]
      BY <2>2
    <3>7. ASSUME merging'[d].at = "ok"
          PROVE  d \in DOMAIN canonical' /\ canonical'[d] = InOrder(All(d)')
      BY <3>1, <3>2, <3>3, <3>6, <3>7 DEF ChunkSound
    <3>8. ASSUME merging'[d].at = "copying"
          PROVE  /\ d \in DOMAIN canonical' /\ canonical'[d] = InOrder(All(d)' \ Left(d)')
                 /\ Ascends(merging'[d].left)
                 /\ \A w \in ToSet(merging'[d].left) :
                       d \in DOMAIN shard'[w] /\ shard'[w][d] = InOrder(Slice(w, d)')
                 /\ \A w \in Workers : \/ w \in ToSet(merging'[d].left)
                                       \/ Slice(w, d)' = {}
                                       \/ \A v \in ToSet(merging'[d].left) : w < v
      <4>1. /\ d \in DOMAIN canonical /\ canonical[d] = InOrder(All(d) \ Left(d))
            /\ Ascends(merging[d].left)
            /\ \A w \in ToSet(merging[d].left) :
                  d \in DOMAIN shard[w] /\ shard[w][d] = InOrder(Slice(w, d))
            /\ \A w \in Workers : \/ w \in ToSet(merging[d].left)
                                  \/ Slice(w, d) = {}
                                  \/ \A v \in ToSet(merging[d].left) : w < v
        BY <3>1, <3>3, <3>8 DEF ChunkSound
      <4>2. \A w \in ToSet(merging[d].left) :
                  d \in DOMAIN shard'[w] /\ shard'[w][d] = InOrder(Slice(w, d)')
        BY <2>2, <3>2, <3>4, <4>1
      <4> HIDE DEF IInv
      <4> QED
        BY <3>2, <3>3, <3>5, <3>6, <4>1, <4>2
    <3> QED
      BY <3>7, <3>8 DEF ChunkSound, Ascends
  <2> QED
    BY <2>1, <2>2
<1>4. Tallied'
  <2>1. Tallied
    OBVIOUS
  <2> QED
    BY <2>1, TalliedFrame
<1> QED
  BY <1>1, <1>2, <1>3, <1>4

\* The workers that have a shard of chunk c.
Holders(c) == {w \in Workers : c \in DOMAIN shard[w]}

\* ShardsOf lists them in ascending order.
LEMMA HoldersListed ==
    ASSUME NEW c
    PROVE  /\ ShardsOf(c) \in Seq(Workers) /\ Ascends(ShardsOf(c))
           /\ ToSet(ShardsOf(c)) = Holders(c)
<1> DEFINE n == NumWorkers
           S == Holders(c)
           s == ShardsOf(c)
<1>1. n \in Nat /\ S \subseteq 0 .. n - 1 /\ S \subseteq Workers
  BY WorkersSuffice DEF Workers, Holders
<1>2. s = InOrder(S)
  BY DEF ShardsOf, Holders
<1> HIDE DEF n, S, s
<1>3. Lists(s, S)
  BY <1>1, <1>2, InOrderLists
<1>4. s \in Seq(S)
  BY <1>3 DEF Lists
<1>5. s \in Seq(Workers)
  BY <1>1, <1>4, SeqMonotonic
<1>6. DOMAIN s = 1 .. Len(s) /\ \A i \in 1 .. Len(s) : s[i] \in S
  BY <1>4, LenProperties, ElementOfSeq
<1>7. ToSet(s) = S /\ Ascends(s)
  BY <1>3, <1>6 DEF Lists, ToSet, Ascends
<1> QED
  BY <1>5, <1>7 DEF S, s

\* A chunk that is still to be merged has its points in the shards of its holders.
LEMMA HoldersHaveAll ==
    ASSUME IInv, phase = "merging", NEW c \in Chunks, merging[c].at = "todo", NEW w \in Workers
    PROVE  /\ w \notin Holders(c) => Slice(w, c) = {}
           /\ w \in Holders(c) => shard[w][c] = InOrder(Slice(w, c))
<1>1. InShard(w, c) = InOrder(Slice(w, c))
  BY WorkersDone
<1>2. Slice(w, c) \subseteq Points
  BY SliceBounded
<1>3. w \notin Holders(c) => InShard(w, c) = <<>>
  BY DEF Holders, InShard
<1>4. w \in Holders(c) => InShard(w, c) = shard[w][c]
  BY DEF Holders, InShard
<1> QED
  BY <1>1, <1>2, <1>3, <1>4, EmptyList

\* One more canonical file.
LEMMA FileAdded ==
    ASSUME IsFiles(canonical), NEW c \in Chunks, NEW points \in Seq(Points),
           canonical' = WithFile(c, points)
    PROVE  /\ IsFiles(canonical') /\ c \in DOMAIN canonical' /\ canonical'[c] = points
           /\ \A d \in Chunks \ {c} : d \in DOMAIN canonical =>
                 d \in DOMAIN canonical' /\ canonical'[d] = canonical[d]
<1>1. canonical' = [d \in DOMAIN canonical \cup {c} |-> IF d = c THEN points ELSE canonical[d]]
  BY DEF WithFile
<1>2. DOMAIN canonical' = DOMAIN canonical \cup {c}
  BY <1>1
<1>3. canonical' \in [DOMAIN canonical \cup {c} -> Seq(Points)]
  BY <1>1 DEF IsFiles
<1> QED
  BY <1>1, <1>2, <1>3 DEF IsFiles

\* The next state of a merge is of its type.
LEMMA MergingTyped ==
    ASSUME TypeOK, NEW c \in Chunks, NEW at \in {"todo", "copying", "ok", "err"},
           NEW left \in Seq(Workers), merging' = [merging EXCEPT ![c] = Merged(at, left)]
    PROVE  /\ merging' \in [Chunks -> [at : {"todo", "copying", "ok", "err"}, left : Seq(Workers)]]
           /\ merging'[c].at = at /\ merging'[c].left = left
           /\ \A d \in Chunks \ {c} : merging'[d] = merging[d]
<1>1. Merged(at, left) \in [at : {"todo", "copying", "ok", "err"}, left : Seq(Workers)]
  BY DEF Merged
<1>2. merging \in [Chunks -> [at : {"todo", "copying", "ok", "err"}, left : Seq(Workers)]]
  BY DEF TypeOK
<1>3. Merged(at, left).at = at /\ Merged(at, left).left = left
  BY DEF Merged
<1> QED
  BY <1>1, <1>2, <1>3

\* No worker has met the chunk: it has no points.
LEMMA CreateEmptySound == ASSUME IInv, NEW c \in Chunks, CreateEmpty(c) PROVE IInv'
<1> USE DEF IInv
<1>1. /\ phase = "merging" /\ merging[c].at = "todo" /\ ShardsOf(c) = <<>>
      /\ canonical' = WithFile(c, <<>>)
      /\ merging' = [merging EXCEPT ![c] = Merged("ok", <<>>)]
      /\ UNCHANGED <<chunkOf, status, file, next, groups, order, buffered, shard, counts,
                     phase, stashed>>
  BY DEF CreateEmpty, workerVars
<1>2. Holders(c) = {}
  <2>1. ToSet(<<>>) = {}
    BY DEF ToSet
  <2> QED
    BY <1>1, <2>1, HoldersListed
<1>3. All(c) = {}
  <2> SUFFICES ASSUME NEW p \in All(c) PROVE FALSE
    OBVIOUS
  <2>1. PICK w \in Workers : p \in Slice(w, c)
    BY InSomeSlice
  <2>2. Slice(w, c) = {}
    BY <1>1, <1>2, HoldersHaveAll
  <2> QED
    BY <2>1, <2>2
<1>4. InOrder({}) = <<>>
  BY EmptyList
<1>5. <<>> \in Seq(Points) /\ <<>> \in Seq(Workers)
  BY EmptySeq
<1>6. IsFiles(canonical) /\ TypeOK
  BY DEF TypeOK
<1>7. /\ IsFiles(canonical') /\ c \in DOMAIN canonical' /\ canonical'[c] = <<>>
      /\ \A d \in Chunks \ {c} : d \in DOMAIN canonical =>
            d \in DOMAIN canonical' /\ canonical'[d] = canonical[d]
  BY <1>1, <1>5, <1>6, FileAdded
<1>8. /\ merging' \in [Chunks -> [at : {"todo", "copying", "ok", "err"}, left : Seq(Workers)]]
      /\ merging'[c].at = "ok" /\ merging'[c].left = <<>>
      /\ \A d \in Chunks \ {c} : merging'[d] = merging[d]
  BY <1>1, <1>5, <1>6, MergingTyped
<1>9. TypeOK'
  BY <1>1, <1>7, <1>8 DEF TypeOK, IsFiles
<1>10. ChunkSound(c)'
  <2>1. All(c)' = {}
    BY <1>1, <1>3 DEF All
  <2> QED
    BY <1>4, <1>7, <1>8, <2>1 DEF ChunkSound
<1>11. \A d \in Chunks, w \in Workers : InShard(w, d)' = InShard(w, d)
  BY <1>1 DEF InShard
<1> HIDE DEF IInv
<1> QED
  BY <1>1, <1>7, <1>8, <1>9, <1>10, <1>11, MergeStepSound

\* The merge of a chunk fails, and never succeeds afterwards.
LEMMA MergeFailsSound == ASSUME IInv, NEW c \in Chunks, MergeFails(c) PROVE IInv'
<1> USE DEF IInv
<1>1. /\ phase = "merging" /\ merging[c].at \notin {"ok", "err"}
      /\ merging' = [merging EXCEPT ![c] = Merged("err", <<>>)]
      /\ UNCHANGED <<chunkOf, status, file, next, groups, order, buffered, shard, counts,
                     canonical, phase, stashed>>
  BY DEF MergeFails, workerVars
<1>2. <<>> \in Seq(Workers) /\ TypeOK
  BY EmptySeq
<1>3. /\ merging' \in [Chunks -> [at : {"todo", "copying", "ok", "err"}, left : Seq(Workers)]]
      /\ merging'[c].at = "err"
      /\ \A d \in Chunks \ {c} : merging'[d] = merging[d]
  BY <1>1, <1>2, MergingTyped
<1>4. TypeOK'
  BY <1>1, <1>3 DEF TypeOK, IsFiles
<1>5. ChunkSound(c)'
  BY <1>3 DEF ChunkSound
<1>6. \A d \in Chunks, w \in Workers : InShard(w, d)' = InShard(w, d)
  BY <1>1 DEF InShard
<1> HIDE DEF IInv
<1> QED
  BY <1>1, <1>3, <1>4, <1>5, <1>6, MergeStepSound

\* The first shard becomes the canonical file: the points of its worker are
\* the first of the chunk.
LEMMA RenameFirstSound == ASSUME IInv, NEW c \in Chunks, RenameFirst(c) PROVE IInv'
<1> USE DEF IInv
<1> DEFINE s == ShardsOf(c)
           h == Head(s)
           t == Tail(s)
<1>1. /\ phase = "merging" /\ merging[c].at = "todo" /\ s # <<>>
      /\ canonical' = WithFile(c, shard[h][c])
      /\ shard' = [shard EXCEPT ![h] = [d \in DOMAIN @ \ {c} |-> @[d]]]
      /\ merging' = [merging EXCEPT ![c] = Merged("copying", t)]
      /\ UNCHANGED <<chunkOf, status, file, next, groups, order, buffered, counts,
                     phase, stashed>>
  BY DEF RenameFirst
<1>2. s \in Seq(Workers) /\ Ascends(s) /\ ToSet(s) = Holders(c)
  BY HoldersListed
<1> HIDE DEF s
<1>3. /\ h \in Workers /\ t \in Seq(Workers) /\ Ascends(t)
      /\ Holders(c) = {h} \cup ToSet(t) /\ Holders(c) \subseteq Workers
      /\ \A v \in ToSet(t) : h < v /\ v # h
  BY <1>1, <1>2, FirstAndRest
<1> HIDE DEF h, t
<1>4. TypeOK /\ IsFiles(canonical) /\ DOMAIN shard = Workers
  BY DEF TypeOK
<1>5. /\ shard[h][c] = InOrder(Slice(h, c))
      /\ \A w \in Workers : w \notin Holders(c) => Slice(w, c) = {}
      /\ \A w \in Holders(c) : c \in DOMAIN shard[w] /\ shard[w][c] = InOrder(Slice(w, c))
  BY <1>1, <1>3, HoldersHaveAll DEF Holders
<1>6. shard[h][c] \in Seq(Points)
  <2>1. c \in DOMAIN shard[h]
    BY <1>3, <1>5
  <2> QED
    BY <1>3, <1>4, <2>1, WorkerTypes
<1>7. /\ IsFiles(canonical') /\ c \in DOMAIN canonical' /\ canonical'[c] = InOrder(Slice(h, c))
      /\ \A d \in Chunks \ {c} : d \in DOMAIN canonical =>
            d \in DOMAIN canonical' /\ canonical'[d] = canonical[d]
  BY <1>1, <1>4, <1>5, <1>6, FileAdded
<1>8. /\ merging' \in [Chunks -> [at : {"todo", "copying", "ok", "err"}, left : Seq(Workers)]]
      /\ merging'[c].at = "copying" /\ merging'[c].left = t
      /\ \A d \in Chunks \ {c} : merging'[d] = merging[d]
  BY <1>1, <1>3, <1>4, MergingTyped
<1>9. /\ DOMAIN shard' = Workers
      /\ shard'[h] = [d \in DOMAIN shard[h] \ {c} |-> shard[h][d]]
      /\ \A w \in Workers \ {h} : shard'[w] = shard[w]
  BY <1>1, <1>3, <1>4
<1>10. ASSUME NEW w \in Workers
       PROVE  /\ IsFiles(shard'[w]) /\ DOMAIN buffered[w] \subseteq DOMAIN shard'[w]
              /\ \A d \in Chunks \ {c} :
                    /\ InShard(w, d)' = InShard(w, d)
                    /\ d \in DOMAIN shard[w] =>
                          d \in DOMAIN shard'[w] /\ shard'[w][d] = shard[w][d]
  <2>1. CASE w # h
    <3>1. shard'[w] = shard[w]
      BY <1>9, <2>1
    <3>2. IsFiles(shard[w]) /\ DOMAIN buffered[w] \subseteq DOMAIN shard[w]
      BY DEF TypeOK
    <3> QED
      BY <3>1, <3>2 DEF InShard
  <2>2. CASE w = h
    <3>1. IsFiles(shard[w])
      BY DEF TypeOK
    <3>2. DOMAIN shard'[w] = DOMAIN shard[w] \ {c}
      BY <1>9, <2>2
    <3>3. \A d \in DOMAIN shard[w] \ {c} : shard'[w][d] = shard[w][d]
      BY <1>9, <2>2
    <3>4. shard'[w] \in [DOMAIN shard[w] \ {c} -> Seq(Points)]
      BY <1>9, <2>2, <3>1 DEF IsFiles
    <3>5. IsFiles(shard'[w])
      BY <3>1, <3>2, <3>4 DEF IsFiles
    <3>6. DOMAIN buffered[w] = {}
      BY <1>1 DEF PhasesInOrder, WorkerSound, EndedWell
    <3>7. \A d \in Chunks \ {c} : InShard(w, d)' = InShard(w, d)
      BY <3>2, <3>3 DEF InShard
    <3> QED
      BY <3>2, <3>3, <3>5, <3>6, <3>7
  <2> QED
    BY <2>1, <2>2
<1>11. TypeOK'
  BY <1>1, <1>7, <1>8, <1>9, <1>10 DEF TypeOK, IsFiles
<1>12. ChunkSound(c)'
  <2> DEFINE L == UNION {Slice(w, c) : w \in ToSet(t)}
  <2>1. \A w \in Workers : Slice(w, c)' = Slice(w, c)
    BY <1>1 DEF Slice
  <2>2. All(c)' = All(c)
    BY <1>1 DEF All
  <2>3. Left(c)' = L
    BY <1>3, <1>8, <2>1 DEF Left
  <2>4. All(c) \ L = Slice(h, c)
    <3>1. ASSUME NEW p \in All(c) \ L PROVE p \in Slice(h, c)
      <4>1. PICK w \in Workers : p \in Slice(w, c)
        BY InSomeSlice
      <4>2. w \in Holders(c)
        BY <1>5, <4>1
      <4>3. w \notin ToSet(t)
        BY <4>1
      <4> QED
        BY <1>3, <4>1, <4>2, <4>3
    <3>2. ASSUME NEW p \in Slice(h, c) PROVE p \in All(c) \ L
      <4>1. p \in All(c)
        BY <1>3, SliceOfChunk
      <4>2. ASSUME NEW w \in ToSet(t), p \in Slice(w, c) PROVE FALSE
        <5>1. w \in Workers /\ w # h
          BY <1>3
        <5> QED
          BY <1>3, <4>2, <5>1, OneSlice
      <4> QED
        BY <4>1, <4>2
    <3> QED
      BY <3>1, <3>2
  <2>5. \A w \in ToSet(t) : w \in Workers \ {h}
    BY <1>3
  <2>6. \A w \in ToSet(t) : c \in DOMAIN shard'[w] /\ shard'[w][c] = InOrder(Slice(w, c)')
    BY <1>3, <1>5, <1>9, <2>1, <2>5
  <2>7. \A w \in Workers : \/ w \in ToSet(t)
                           \/ Slice(w, c)' = {}
                           \/ \A v \in ToSet(t) : w < v
    BY <1>3, <1>5, <2>1
  <2> HIDE DEF L, IInv
  <2>8. canonical'[c] = InOrder(All(c)' \ Left(c)')
    BY <1>7, <2>2, <2>3, <2>4
  <2> QED
    BY <1>3, <1>7, <1>8, <2>6, <2>7, <2>8 DEF ChunkSound, Ascends
<1>13. \A d \in Chunks \ {c} :
          /\ merging'[d] = merging[d]
          /\ d \in DOMAIN canonical => d \in DOMAIN canonical' /\ canonical'[d] = canonical[d]
          /\ \A w \in Workers : /\ InShard(w, d)' = InShard(w, d)
                                /\ d \in DOMAIN shard[w] =>
                                      d \in DOMAIN shard'[w] /\ shard'[w][d] = shard[w][d]
  BY <1>7, <1>8, <1>10
<1>14. merging[c].at # "ok" /\ merging'[c].at # "todo"
  BY <1>1, <1>8
<1> HIDE DEF IInv
<1> QED
  BY <1>1, <1>11, <1>12, <1>13, <1>14, MergeStepSound

\* The next shard is copied behind those of the workers before, or none is left.
LEMMA CopyShardSound == ASSUME IInv, NEW c \in Chunks, CopyShard(c) PROVE IInv'
<1> USE DEF IInv
<1> DEFINE s == merging[c].left
           h == Head(s)
           t == Tail(s)
<1>1. /\ phase = "merging" /\ merging[c].at = "copying"
      /\ UNCHANGED <<chunkOf, status, file, next, groups, order, buffered, shard, counts,
                     phase, stashed>>
  BY DEF CopyShard, workerVars
<1>2. TypeOK /\ IsFiles(canonical) /\ s \in Seq(Workers)
      /\ merging \in [Chunks -> [at : {"todo", "copying", "ok", "err"}, left : Seq(Workers)]]
  BY DEF TypeOK
<1>3. /\ c \in DOMAIN canonical /\ canonical[c] = InOrder(All(c) \ Left(c))
      /\ Ascends(s)
      /\ \A w \in ToSet(s) : c \in DOMAIN shard[w] /\ shard[w][c] = InOrder(Slice(w, c))
      /\ \A w \in Workers : \/ w \in ToSet(s)
                            \/ Slice(w, c) = {}
                            \/ \A v \in ToSet(s) : w < v
  BY <1>1 DEF ChunkSound
<1>4. All(c)' = All(c) /\ \A w \in Workers : Slice(w, c)' = Slice(w, c)
  BY <1>1 DEF All, Slice
<1>5. \A d \in Chunks, w \in Workers : InShard(w, d)' = InShard(w, d)
  BY <1>1 DEF InShard
<1>6. Left(c) = UNION {Slice(w, c) : w \in ToSet(s)}
  BY DEF Left
<1>7. CASE s = <<>>
  <2>1. merging' = [merging EXCEPT ![c] = Merged("ok", <<>>)] /\ canonical' = canonical
    BY <1>7 DEF CopyShard
  <2>2. <<>> \in Seq(Workers) /\ ToSet(<<>>) = {}
    BY EmptySeq DEF ToSet
  <2>3. /\ merging' \in [Chunks -> [at : {"todo", "copying", "ok", "err"}, left : Seq(Workers)]]
        /\ merging'[c].at = "ok"
        /\ \A d \in Chunks \ {c} : merging'[d] = merging[d]
    BY <1>2, <2>1, <2>2, MergingTyped
  <2>4. TypeOK'
    BY <1>1, <2>1, <2>3 DEF TypeOK, IsFiles
  <2>5. All(c) \ Left(c) = All(c)
    BY <1>6, <1>7, <2>2
  <2>6. ChunkSound(c)'
    BY <1>3, <1>4, <2>1, <2>3, <2>5 DEF ChunkSound
  <2> HIDE DEF IInv, s
  <2> QED
    BY <1>1, <1>5, <2>1, <2>3, <2>4, <2>6, MergeStepSound
<1>8. CASE s # <<>>
  <2>1. /\ merging' = [merging EXCEPT ![c] = Merged("copying", t)]
        /\ canonical' = [canonical EXCEPT ![c] = @ \o shard[h][c]]
    BY <1>2, <1>8 DEF CopyShard
  <2> HIDE DEF s
  <2>2. /\ h \in Workers /\ t \in Seq(Workers) /\ Ascends(t)
        /\ ToSet(s) = {h} \cup ToSet(t) /\ ToSet(s) \subseteq Workers
        /\ \A v \in ToSet(t) : h < v /\ v # h
    BY <1>2, <1>3, <1>8, FirstAndRest
  <2> HIDE DEF h, t
  <2>3. /\ merging' \in [Chunks -> [at : {"todo", "copying", "ok", "err"}, left : Seq(Workers)]]
        /\ merging'[c].at = "copying" /\ merging'[c].left = t
        /\ \A d \in Chunks \ {c} : merging'[d] = merging[d]
    BY <1>2, <2>1, <2>2, MergingTyped
  <2> DEFINE A == All(c) \ Left(c)
             L == UNION {Slice(w, c) : w \in ToSet(t)}
  <2>4. shard[h][c] = InOrder(Slice(h, c)) /\ Slice(h, c) \subseteq Points /\ A \subseteq Points
    BY <1>3, <2>2, SliceBounded DEF All
  <2>5. \A x \in A, y \in Slice(h, c) : x < y
    <3> SUFFICES ASSUME NEW x \in A, NEW y \in Slice(h, c) PROVE x < y
      OBVIOUS
    <3>1. PICK w \in Workers : x \in Slice(w, c)
      BY InSomeSlice
    <3>2. w \notin ToSet(s)
      BY <1>6, <3>1
    <3>3. w < h
      BY <1>3, <2>2, <3>1, <3>2
    <3>4. x \in Edge(w) + 1 .. Edge(w + 1) /\ y \in Edge(h) + 1 .. Edge(h + 1)
      BY <3>1 DEF Slice
    <3> QED
      BY <2>2, <3>3, <3>4, SlicesApart
  <2>6. A \cup Slice(h, c) = All(c) \ L
    <3>1. Left(c) = Slice(h, c) \cup L
      BY <1>6, <2>2
    <3>2. Slice(h, c) \subseteq All(c)
      BY <2>2, SliceOfChunk
    <3>3. Slice(h, c) \cap L = {}
      <4> SUFFICES ASSUME NEW p \in Slice(h, c), NEW w \in ToSet(t), p \in Slice(w, c) PROVE FALSE
        OBVIOUS
      <4>1. w \in Workers /\ w # h
        BY <2>2
      <4> QED
        BY <2>2, <4>1, OneSlice
    <3> HIDE DEF L, IInv
    <3> QED
      BY <3>1, <3>2, <3>3
  <2>7. canonical[c] \o shard[h][c] = InOrder(All(c) \ L)
    <3>1. canonical[c] = InOrder(A)
      BY <1>3
    <3> HIDE DEF A, L
    <3>2. InOrder(A) \o InOrder(Slice(h, c)) = InOrder(A \cup Slice(h, c))
      BY <2>4, <2>5, PointConcat
    <3> QED
      BY <2>4, <2>6, <3>1, <3>2
  <2>8. canonical[c] \o shard[h][c] \in Seq(Points)
    <3>1. All(c) \ L \subseteq Points
      BY DEF All
    <3> HIDE DEF L
    <3> QED
      BY <2>7, <3>1, PointList
  <2>9. /\ DOMAIN canonical' = DOMAIN canonical
        /\ canonical'[c] = canonical[c] \o shard[h][c]
        /\ \A d \in Chunks \ {c} : d \in DOMAIN canonical =>
              d \in DOMAIN canonical' /\ canonical'[d] = canonical[d]
    BY <1>3, <2>1
  <2>10. IsFiles(canonical')
    <3>1. canonical' \in [DOMAIN canonical -> Seq(Points)]
      BY <1>2, <2>1, <2>8 DEF IsFiles
    <3> QED
      BY <1>2, <2>9, <3>1 DEF IsFiles
  <2>11. TypeOK'
    BY <1>1, <2>3, <2>10 DEF TypeOK, IsFiles
  <2>12. Left(c)' = L
    BY <1>4, <2>2, <2>3 DEF Left
  <2>13. \A w \in ToSet(t) : c \in DOMAIN shard'[w] /\ shard'[w][c] = InOrder(Slice(w, c)')
    BY <1>1, <1>3, <1>4, <2>2
  <2>14. \A w \in Workers : \/ w \in ToSet(t)
                            \/ Slice(w, c)' = {}
                            \/ \A v \in ToSet(t) : w < v
    BY <1>3, <1>4, <2>2
  <2>15. canonical'[c] = InOrder(All(c)' \ Left(c)')
    BY <1>4, <2>7, <2>9, <2>12
  <2> HIDE DEF IInv, A, L
  <2>16. ChunkSound(c)'
    BY <1>3, <2>2, <2>3, <2>9, <2>13, <2>14, <2>15 DEF ChunkSound, Ascends
  <2> QED
    BY <1>1, <1>5, <2>3, <2>9, <2>11, <2>16, MergeStepSound
<1> QED
  BY <1>7, <1>8

\* Every chunk is merged: the shards go, the counts are handed on.
LEMMA FinishSound == ASSUME IInv, Finish PROVE IInv'
<1> USE DEF IInv
<1>1. /\ phase = "merging" /\ (\A c \in Chunks : merging[c].at = "ok")
      /\ shard' = [w \in Workers |-> None] /\ stashed' = counts /\ phase' = "done"
      /\ UNCHANGED <<chunkOf, status, file, next, groups, order, buffered, counts,
                     canonical, merging>>
  BY DEF Finish
<1>2. ASSUME NEW w \in Workers PROVE status[w] = "ok" /\ DOMAIN buffered[w] = {}
  BY <1>1 DEF PhasesInOrder, WorkerSound, EndedWell
<1>3. IsFiles(None) /\ DOMAIN None = {}
  BY DEF None, IsFiles
<1>4. TypeOK'
  BY <1>1, <1>2, <1>3 DEF TypeOK, IsFiles
<1>5. ASSUME NEW w \in Workers PROVE WorkerSound(w)'
  <2>1. WorkerSound(w)
    OBVIOUS
  <2>2. \A c \in Chunks : merging'[c].at = "todo"
           => merging[c].at = "todo" /\ InShard(w, c)' = InShard(w, c)
    BY <1>1
  <2> QED
    BY <1>1, <2>1, <2>2, WorkerFrame
<1>6. PhasesInOrder'
  BY <1>1, <1>2 DEF PhasesInOrder
<1>7. ASSUME NEW c \in Chunks PROVE ChunkSound(c)'
  <2>1. All(c)' = All(c)
    BY <1>1 DEF All
  <2>2. merging'[c].at = "ok"
    BY <1>1
  <2>3. c \in DOMAIN canonical' /\ canonical'[c] = InOrder(All(c)')
    BY <1>1, <2>1 DEF ChunkSound
  <2> QED
    BY <2>2, <2>3 DEF ChunkSound
<1>8. Tallied'
  <2>1. Tallied
    OBVIOUS
  <2> QED
    BY <1>1, <2>1, TalliedFrame
<1> QED
  BY <1>4, <1>5, <1>6, <1>7, <1>8

\* A step that leaves everything but the phase as it is, and is not a success.
LEMMA OnlyPhase ==
    ASSUME IInv, phase' = phase \/ phase' = "failed",
           UNCHANGED <<chunkOf, workerVars, canonical, merging, stashed>>
    PROVE  IInv'
<1> USE DEF IInv
<1>1. UNCHANGED <<chunkOf, status, file, next, groups, order, buffered, shard, counts,
                  canonical, merging, stashed>>
  BY DEF workerVars
<1>2. TypeOK'
  BY <1>1 DEF TypeOK, IsFiles
<1>3. ASSUME NEW w \in Workers PROVE WorkerSound(w)'
  <2>1. \A c \in Chunks : InShard(w, c)' = InShard(w, c)
    BY <1>1 DEF InShard
  <2>2. WorkerSound(w)
    OBVIOUS
  <2> QED
    BY <1>1, <2>1, <2>2, WorkerFrame
<1>4. PhasesInOrder'
  BY <1>1 DEF PhasesInOrder
<1>5. \A c \in Chunks : ChunkSound(c)'
  <2> TAKE c \in Chunks
  <2>1. ChunkSound(c) /\ merging[c].left \in Seq(Workers)
    BY DEF TypeOK
  <2>2. All(c)' = All(c) /\ \A w \in Workers : Slice(w, c)' = Slice(w, c)
    BY <1>1 DEF All, Slice
  <2>3. ToSet(merging[c].left) \subseteq Workers
    BY <2>1, LenProperties, ElementOfSeq DEF ToSet
  <2>4. Left(c)' = Left(c)
    BY <1>1, <2>2, <2>3 DEF Left
  <2>5. Ascends(merging[c].left)' = Ascends(merging[c].left)
    BY <1>1 DEF Ascends
  <2> HIDE DEF IInv
  <2> QED
    BY <1>1, <2>1, <2>2, <2>3, <2>4, <2>5 DEF ChunkSound
<1>6. Tallied'
  <2>1. Tallied
    OBVIOUS
  <2> QED
    BY <1>1, <2>1, TalliedFrame
<1> QED
  BY <1>2, <1>3, <1>4, <1>5, <1>6

(***************************************************************************)
(* Every step keeps the invariant.                                         *)
(***************************************************************************)
LEMMA NextSound == ASSUME IInv, [Next]_vars PROVE IInv'
<1>1. CASE UNCHANGED vars
  <2>1. phase' = phase /\ UNCHANGED <<chunkOf, workerVars, canonical, merging, stashed>>
    BY <1>1 DEF vars, mergeVars
  <2> QED
    BY <2>1, OnlyPhase
<1>2. ASSUME NEW w \in Workers, WorkerStep(w) \/ WorkerFails(w) PROVE IInv'
  <2>1. CASE Start(w)
    BY <2>1, StartSound
  <2>2. CASE ReadBatch(w)
    BY <2>2, ReadBatchSound
  <2>3. CASE NextFile(w)
    BY <2>3, NextFileSound
  <2>4. CASE FlushAll(w)
    BY <2>4, FlushAllSound
  <2>5. CASE \E c \in Chunks : AppendGroup(w, c)
    BY <2>5, AppendGroupSound
  <2>6. CASE WorkerFails(w)
    BY <2>6, WorkerFailsSound
  <2> QED
    BY <1>2, <2>1, <2>2, <2>3, <2>4, <2>5, <2>6 DEF WorkerStep
<1>3. ASSUME NEW c \in Chunks, MergeStep(c) \/ MergeFails(c) PROVE IInv'
  <2>1. CASE CreateEmpty(c)
    BY <2>1, CreateEmptySound
  <2>2. CASE RenameFirst(c)
    BY <2>2, RenameFirstSound
  <2>3. CASE CopyShard(c)
    BY <2>3, CopyShardSound
  <2>4. CASE MergeFails(c)
    BY <2>4, MergeFailsSound
  <2> QED
    BY <1>3, <2>1, <2>2, <2>3, <2>4 DEF MergeStep
<1>4. CASE MainStep
  <2>1. CASE Join
    BY <2>1, JoinSound
  <2>2. CASE Finish
    BY <2>2, FinishSound
  <2>3. CASE GiveUp
    <3>1. phase' = "failed" /\ UNCHANGED <<chunkOf, workerVars, canonical, merging, stashed>>
      BY <2>3 DEF GiveUp
    <3> QED
      BY <3>1, OnlyPhase
  <2> QED
    BY <1>4, <2>1, <2>2, <2>3 DEF MainStep
<1>5. CASE Returned
  BY <1>1, <1>5 DEF Returned
<1> QED
  BY <1>1, <1>2, <1>3, <1>4, <1>5 DEF Next

(***************************************************************************)
(* The invariant holds in every state of every run of the pass, for any    *)
(* input, number of threads, plan, batch size and capacity.                *)
(***************************************************************************)
THEOREM DistributeInvariant == Spec => []IInv
<1>1. Init => IInv
  BY InitSound
<1>2. IInv /\ [Next]_vars => IInv'
  BY NextSound
<1> QED
  BY <1>1, <1>2, PTL DEF Spec

\* Where the slice of a worker that has files begins.
LEMMA SliceStart ==
    ASSUME NEW w \in Workers, FirstFile(w) <= LastFile(w)
    PROVE  FileStart(FirstFile(w)) = Edge(w) + 1
<1> DEFINE f == FirstFile(w)
<1>1. f \in Nat \ {0} /\ f <= NumFiles /\ Bound(f - 1) = Edge(w)
  BY SliceFiles
<1> HIDE DEF f
<1>2. CASE f = 1
  BY <1>1, <1>2 DEF FileStart, Bound, f
<1>3. CASE f # 1
  <2>1. f - 1 > 0 /\ f - 1 < NumFiles
    BY <1>1, <1>3, Assumed
  <2>2. Bound(f - 1) = FileEnds[f - 1]
    BY <2>1 DEF Bound
  <2>3. FileStart(f) = FileEnds[f - 1] + 1
    BY <1>3 DEF FileStart
  <2> QED
    BY <1>1, <2>2, <2>3 DEF f
<1> QED
  BY <1>2, <1>3

(***************************************************************************)
(* Evicting writers and reopening their files loses, repeats and reorders  *)
(* no point (ChunkWriterCache::append).                                    *)
(***************************************************************************)
THEOREM CacheLosesNothing == Spec => []NothingLostInCache
<1>1. IInv => NothingLostInCache
  <2> SUFFICES ASSUME IInv, phase = "distributing", NEW w \in Workers, NEW c \in Chunks,
                      status[w] # "err", FirstFile(w) <= LastFile(w)
               PROVE  InShard(w, c) \o Buffered(w, c) \o groups[w][c]
                        = InputOf(c, FileStart(FirstFile(w)), next[w] - 1)
    BY DEF NothingLostInCache
  <2>1. HoldsSeen(w, c)
    BY DEF IInv, PhasesInOrder, WorkerSound
  <2>2. FileStart(FirstFile(w)) = Edge(w) + 1
    BY SliceStart
  <2> QED
    BY <2>1, <2>2 DEF HoldsSeen, InputOf, Seen
<1> QED
  BY <1>1, DistributeInvariant, PTL

(***************************************************************************)
(* The list and the map of the cache never drift apart, no worker has more *)
(* writers open than the capacity, and the state is of its type.           *)
(***************************************************************************)
THEOREM CacheKeepsStep == Spec => []CacheInStep
<1>1. IInv => CacheInStep
  <2> SUFFICES ASSUME IInv PROVE CacheInStep
    OBVIOUS
  <2>1. TypeOK
    BY DEF IInv
  <2>2. ASSUME NEW w \in Workers
        PROVE  /\ ToSet(order[w]) = DOMAIN buffered[w]
               /\ Len(order[w]) = Cardinality(DOMAIN buffered[w])
               /\ Len(order[w]) <= Capacity
    <3>1. CacheSound(w)
      BY DEF IInv, WorkerSound
    <3>2. InStep(order[w], DOMAIN buffered[w]) /\ Len(order[w]) <= Capacity
      BY <2>1, <3>1, CacheIsInStep
    <3> QED
      BY <3>2, InStepLength
  <2> QED
    BY <2>1, <2>2 DEF CacheInStep
<1> QED
  BY <1>1, DistributeInvariant, PTL

(***************************************************************************)
(* A pass that succeeds has put exactly the points of each planned chunk   *)
(* into its canonical file, once each and in input order, and the count it *)
(* hands on is exact (distribute, merge_chunk_shards).                     *)
(***************************************************************************)
THEOREM DistributeExact == Spec => []ChunkFilesExact
<1>1. IInv => ChunkFilesExact
  <2> SUFFICES ASSUME IInv, phase = "done"
               PROVE  /\ DOMAIN canonical = Chunks
                      /\ \A c \in Chunks : /\ canonical[c] = InputOf(c, 1, NumPoints)
                                           /\ stashed[c] = Len(canonical[c])
    BY DEF ChunkFilesExact
  <2>1. stashed = counts /\ \A c \in Chunks : merging[c].at = "ok"
    BY DEF IInv, PhasesInOrder
  <2>2. \A c \in Chunks : c \in DOMAIN canonical /\ canonical[c] = InOrder(All(c))
    BY <2>1 DEF IInv, ChunkSound
  <2>3. DOMAIN canonical = Chunks
    BY <2>2 DEF IInv, TypeOK, IsFiles
  <2>4. ASSUME NEW c \in Chunks PROVE canonical[c] = InputOf(c, 1, NumPoints)
    BY <2>2 DEF InputOf, All, Points
  <2>5. \A w \in Workers : status[w] = "ok"
    BY DEF IInv, PhasesInOrder
  <2>6. ASSUME NEW c \in Chunks PROVE Appended(c) = All(c)
    <3> SUFFICES ASSUME NEW p \in All(c)
                 PROVE  \E w \in Workers : p \in Seen(w, c) /\ p \notin ToSet(groups[w][c])
      BY DEF Appended
    <3>1. PICK w \in Workers : p \in Slice(w, c)
      BY InSomeSlice
    <3>2. Seen(w, c) = Slice(w, c) /\ groups[w][c] = <<>>
      BY WorkersDone
    <3>3. ToSet(<<>>) = {}
      BY DEF ToSet
    <3> QED
      BY <3>1, <3>2, <3>3
  <2>7. ASSUME NEW c \in Chunks PROVE stashed[c] = Len(canonical[c])
    <3>1. stashed[c] = Cardinality(All(c))
      BY <2>1, <2>5, <2>6 DEF IInv, Tallied
    <3>2. All(c) \subseteq Points
      BY DEF All
    <3>3. Cardinality(All(c)) = Len(InOrder(All(c)))
      BY <3>2, PointList
    <3> QED
      BY <2>2, <3>1, <3>3
  <2> QED
    BY <2>3, <2>4, <2>7
<1> QED
  BY <1>1, DistributeInvariant, PTL
=============================================================================
