-------------------------- MODULE OctreeBuild_proofs --------------------------
(***************************************************************************)
(* What `grid_sample` and `chunk_local_extra_levels` (src/src/octree.rs)   *)
(* do for every set of points, every octree and every grid; the inductive  *)
(* invariant of the octree build, and what follows from it at once, for    *)
(* every tree, plan, budget and order of the threads' steps.               *)
(*                                                                         *)
(* A step's guard tells only of the one chunk, subtree, merge or task it   *)
(* is a step of.  The invariant tells where all of them are: subtrees lie  *)
(* in chunks that are being built, at the split level of their chunk;      *)
(* merges run above the split level of a chunk, or above all chunks; each  *)
(* merge has tasks on one level only; and what lies above a merge's level, *)
(* or below a subtree that does not write yet, is not in the store.  So no *)
(* two threads have work on one node, whatever they do next, and each step *)
(* disturbs only the parts of the invariant that speak of its own voxels.  *)
(***************************************************************************)
EXTENDS OctreeBuild, FiniteSetTheorems, WellFoundedInduction, TLAPS

(***************************************************************************)
(* Samples and voxel keys                                                  *)
(***************************************************************************)
\* A nonempty set of naturals has a least element.
LEMMA LeastNatural ==
    ASSUME NEW T, T \subseteq Nat, T # {}
    PROVE  \E n \in T : \A m \in T : n <= m
<1> DEFINE R == OpToRel(<, Nat)
<1>1. IsWellFoundedOn(R, Nat)
  BY NatLessThanWellFounded
<1>2. \A x, y \in Nat : <<x, y>> \in R <=> x < y
  BY DEF OpToRel
<1> HIDE DEF R
<1>3. PICK x \in T : \A y \in T : ~(<<y, x>> \in R)
  BY <1>1, WFMin
<1>4. \A y \in T : ~(y < x)
  BY <1>2, <1>3
<1> QED
  BY <1>4

\* A nonempty finite set of naturals has a greatest element: otherwise take a
\* smallest set that has none, and remove an element of it.
LEMMA GreatestNatural ==
    ASSUME NEW S, S \subseteq Nat, IsFiniteSet(S), S # {}
    PROVE  \E n \in S : \A m \in S : m <= n
<1> DEFINE HasGreatest(U) == \E n \in U : \A m \in U : m <= n
           Bad   == {U \in SUBSET S : U # {} /\ ~HasGreatest(U)}
           Sizes == {Cardinality(U) : U \in Bad}
<1>1. SUFFICES ASSUME Bad # {} PROVE FALSE
  BY <1>1
<1>2. \A U \in Bad : IsFiniteSet(U) /\ Cardinality(U) \in Nat
  BY FS_Subset, FS_CardinalityType
<1>3. PICK n \in Sizes : \A m \in Sizes : n <= m
  <2>1. Sizes \subseteq Nat /\ Sizes # {}
    BY <1>1, <1>2
  <2> HIDE DEF Sizes
  <2> QED
    BY <2>1, LeastNatural
<1>4. PICK U \in Bad : n = Cardinality(U)
  BY <1>3
<1>5. PICK x \in U : TRUE
  BY <1>4
<1> DEFINE V == U \ {x}
<1>6. IsFiniteSet(V) /\ Cardinality(V) = n - 1 /\ n \in Nat
  BY <1>2, <1>4, <1>5, FS_RemoveElement
<1>7. V \notin Bad
  <2>1. V \in Bad => n - 1 \in Sizes
    BY <1>6
  <2> QED
    BY <1>3, <1>6, <2>1
<1>8. V # {}
  BY <1>4, <1>5
<1>9. PICK y \in V : \A m \in V : m <= y
  BY <1>4, <1>7, <1>8
<1>10. x \in Nat /\ y \in Nat
  BY <1>4, <1>5, <1>9
<1>11. CASE x <= y
  BY <1>4, <1>9, <1>11
<1>12. CASE y <= x
  <2>1. \A m \in U : m \in Nat
    BY <1>4
  <2>2. \A m \in U : m <= x
    BY <1>9, <1>10, <1>12, <2>1
  <2> QED
    BY <1>4, <1>5, <2>2
<1> QED
  BY <1>10, <1>11, <1>12

-----------------------------------------------------------------------------
(* grid_sample                                                             *)

\* Sampling a parent neither loses nor copies a point: what the parent keeps
\* and what goes back to the children are together what was gathered, each
\* child gets back only points of its own, and none that the parent kept.
THEOREM SamplingPartitions ==
    ASSUME NEW parent, NEW at, NEW got
    PROVE  /\ Gathered(got) = Sampled(parent, at, got)
                \cup UNION {Remaining(parent, at, got, c) : c \in DOMAIN got}
           /\ \A c \in DOMAIN got :
                 /\ Remaining(parent, at, got, c) \subseteq got[c]
                 /\ Remaining(parent, at, got, c)
                      \cap Sampled(parent, at, got) = {}
<1>1. CASE Collapses(got)
  BY <1>1 DEF Sampled, Remaining
<1>2. CASE ~Collapses(got)
  <2> DEFINE A == Accepted(parent, at, Gathered(got))
             B == GivenBack(parent, at, got)
  <2>1. A \subseteq Gathered(got)
    BY DEF Accepted
  <2>2. Sampled(parent, at, got) = A \ B
    BY <1>2 DEF Sampled
  <2>3. \A c : Remaining(parent, at, got, c) = (got[c] \ A) \cup (got[c] \cap B)
    BY <1>2 DEF Remaining
  <2> HIDE DEF A, B
  <2>4. \A p \in Gathered(got) : \E c \in DOMAIN got : p \in got[c]
    BY DEF Gathered
  <2>5. \A c \in DOMAIN got : got[c] \subseteq Gathered(got)
    BY DEF Gathered
  <2> QED
    BY <2>1, <2>2, <2>3, <2>4, <2>5
<1> QED
  BY <1>1, <1>2

\* Unless a parent takes everything, a child that gave points keeps one: a
\* child whose points were all accepted gets its last one back.
THEOREM ChildKeepsPoint ==
    ASSUME NEW parent, NEW at, NEW got, ~Collapses(got),
           NEW c \in DOMAIN got,
           got[c] \subseteq Points, got[c] # {}
    PROVE  Remaining(parent, at, got, c) # {}
<1> DEFINE A == Accepted(parent, at, Gathered(got))
<1>1. CASE got[c] \subseteq A
  <2>1. PICK p \in got[c] : \A q \in got[c] : q <= p
    BY VoxelTreeAssumption, FS_Subset, GreatestNatural
  <2>2. p \in GivenBack(parent, at, got)
    BY <1>1, <2>1 DEF GivenBack
  <2> QED
    BY <2>1, <2>2 DEF Remaining
<1>2. CASE ~(got[c] \subseteq A)
  BY <1>2 DEF Remaining
<1> QED
  BY <1>1, <1>2

\* What a sampled parent keeps is a sample already: it has at most one point
\* in each cell of its grid.
THEOREM SampleIsThin ==
    ASSUME NEW parent, NEW at, NEW got, ~Collapses(got),
           Gathered(got) \subseteq Points
    PROVE  \A p, q \in Sampled(parent, at, got) :
              Cell(parent, at[p]) = Cell(parent, at[q]) => p = q
<1>1. \A p \in Sampled(parent, at, got) :
         p \in Accepted(parent, at, Gathered(got)) /\ p \in Nat
  BY VoxelTreeAssumption DEF Sampled, Accepted
<1>2. ASSUME NEW p \in Sampled(parent, at, got),
             NEW q \in Sampled(parent, at, got),
             Cell(parent, at[p]) = Cell(parent, at[q])
      PROVE  p <= q /\ q <= p
  BY <1>1, <1>2 DEF Accepted
<1> QED
  BY <1>1, <1>2

-----------------------------------------------------------------------------
(* chunk_local_extra_levels                                                *)

\* What fits the leaves d levels down is a number.
LEMMA LevelsHold ==
    ASSUME NEW d \in Nat
    PROVE  MaxLeaf * Arity^d \in Int
BY VoxelTreeAssumption DEF Arity

\* d levels down, leaves of the average size fit; 13 is the code's limit.
EnoughLevels(n, d) == n <= MaxLeaf * Arity^d \/ d = 13

\* The loop of chunk_local_extra_levels ends with the least depth at which leaves
\* of the average size fit MAX_LEAF_POINTS, or with the limit of 13.
THEOREM ExtraLevelsLeast ==
    ASSUME NEW n \in Nat
    PROVE  /\ ExtraLevels(n) \in 0 .. 13
           /\ EnoughLevels(n, ExtraLevels(n))
           /\ \A e \in 0 .. ExtraLevels(n) - 1 : ~EnoughLevels(n, e)
<1> DEFINE T == {d \in 0 .. 13 : EnoughLevels(n, d)}
           Grown == [d \in 0 .. 13 |-> IF n > MaxLeaf * Arity^d THEN d + 1 ELSE d]
           F(f) == [i \in 0 .. 13 |-> IF i = 0 THEN 0 ELSE Grown[f[i - 1]]]
           After == CHOOSE f : f = F(f)
<1>1. T \subseteq Nat /\ 13 \in T
  BY DEF EnoughLevels
<1>2. PICK d \in T : \A e \in T : d <= e
  <2> HIDE DEF T
  <2> QED
    BY <1>1, LeastNatural
<1>3. d \in 0 .. 13 /\ EnoughLevels(n, d)
  BY <1>2
<1>4. \A e \in 0 .. d - 1 : ~EnoughLevels(n, e)
  BY <1>2, <1>3
<1> DEFINE u == [i \in 0 .. 13 |-> IF d <= i THEN d ELSE i]
\* An iteration before the d-th adds a level, every later one leaves it at that.
<1>5. \A i \in 1 .. 13 : i - 1 \in 0 .. 13 /\ u[i] = Grown[u[i - 1]]
  <2>1. ASSUME NEW i \in 1 .. 13 PROVE i - 1 \in 0 .. 13 /\ u[i] = Grown[u[i - 1]]
    <3>1. /\ i - 1 \in 0 .. 13 /\ i - 1 < 13
          /\ u[i] = (IF d <= i THEN d ELSE i) /\ u[i - 1] = IF d <= i - 1 THEN d ELSE i - 1
      OBVIOUS
    <3> HIDE DEF u
    <3>2. CASE d <= i - 1
      <4>1. ~(n > MaxLeaf * Arity^d)
        <5>1. d # 13
          BY <1>3, <3>1, <3>2
        <5>2. n <= MaxLeaf * Arity^d
          BY <1>3, <5>1 DEF EnoughLevels
        <5>3. MaxLeaf * Arity^d \in Int
          BY <1>3, LevelsHold
        <5> QED
          BY <5>2, <5>3
      <4>2. u[i] = d /\ u[i - 1] = d
        BY <1>3, <3>1, <3>2
      <4> QED
        BY <3>1, <4>1, <4>2
    <3>3. CASE ~(d <= i - 1)
      <4>1. i - 1 \in 0 .. d - 1
        BY <1>3, <3>1, <3>3
      <4>2. ~(n <= MaxLeaf * Arity^(i - 1))
        BY <1>4, <4>1 DEF EnoughLevels
      <4>3. MaxLeaf * Arity^(i - 1) \in Int
        BY <3>1, LevelsHold
      <4>4. n > MaxLeaf * Arity^(i - 1)
        BY <4>2, <4>3
      <4>5. u[i] = i /\ u[i - 1] = i - 1
        BY <1>3, <3>1, <3>3
      <4> QED
        BY <3>1, <4>4, <4>5
    <3> QED
      BY <3>2, <3>3
  <2> QED
    BY <2>1
<1>6. u[0] = 0 /\ u[13] = d /\ u = [i \in 0 .. 13 |-> u[i]]
  BY <1>3
<1> HIDE DEF u
<1>7. u = F(u)
  <2>1. \A i \in 0 .. 13 : i # 0 => i \in 1 .. 13
    OBVIOUS
  <2> QED
    BY <1>5, <1>6, <2>1
<1>8. After = F(After)
  <2>1. \E f : f = F(f)
    BY <1>7
  <2> HIDE DEF F
  <2> QED
    BY <2>1
<1>9. ExtraLevels(n) = After[13]
  BY DEF ExtraLevels
<1> HIDE DEF After
<1>10. After[0] = 0 /\ \A i \in 1 .. 13 : After[i] = Grown[After[i - 1]]
  <2>1. 0 \in 0 .. 13 /\ \A i \in 1 .. 13 : i \in 0 .. 13 /\ i # 0
    OBVIOUS
  <2> QED
    BY <1>8, <2>1
<1> DEFINE Off == {i \in 0 .. 13 : After[i] # u[i]}
<1>11. Off = {}
  <2>1. SUFFICES ASSUME NEW x \in Off PROVE FALSE
    OBVIOUS
  <2>2. PICK i \in Off : \A e \in Off : i <= e
    <3>1. Off \subseteq Nat
      OBVIOUS
    <3> HIDE DEF Off
    <3> QED
      BY <2>1, <3>1, LeastNatural
  <2>3. i \in 1 .. 13
    BY <1>6, <1>10
  <2>4. i - 1 \in 0 .. 13 /\ ~(i <= i - 1)
    BY <2>3
  <2>5. After[i - 1] = u[i - 1]
    BY <2>2, <2>4
  <2> HIDE DEF Grown
  <2>6. After[i] = u[i]
    BY <1>5, <1>10, <2>3, <2>5
  <2> QED
    BY <2>6
<1>12. ExtraLevels(n) = d
  BY <1>6, <1>9, <1>11
<1> QED
  BY <1>3, <1>4, <1>12

-----------------------------------------------------------------------------
(* Voxel keys: prefixes of positions, ordered by IsUnder                    *)

\* The key of a position's voxel, octant by octant.
LEMMA KeyIsPath ==
    ASSUME NEW path \in Positions, NEW l \in 0 .. Depth
    PROVE  /\ KeyAt(path, l) \in Keys
           /\ KeyAt(path, l) \in Seq(Octants)
           /\ Len(KeyAt(path, l)) = l
           /\ \A i \in 1 .. l : KeyAt(path, l)[i] = path[i]
<1>1. path \in [1 .. Depth -> Octants] /\ Depth \in Nat /\ l \in Nat
  BY VoxelTreeAssumption
<1>2. KeyAt(path, l) \in [1 .. l -> Octants]
  BY <1>1 DEF KeyAt, Prefix
<1>3. KeyAt(path, l) \in Seq(Octants) /\ Len(KeyAt(path, l)) = l
  BY <1>1, <1>2
<1> QED
  BY <1>1, <1>3 DEF KeyAt, Prefix, Keys

\* Every key is that of some position.
LEMMA KeyHasPath ==
    ASSUME NEW k \in Keys
    PROVE  /\ k \in Seq(Octants)
           /\ Len(k) \in 0 .. Depth
           /\ \E path \in Positions : k = KeyAt(path, Len(k))
<1>1. PICK path \in Positions, l \in 0 .. Depth : k = KeyAt(path, l)
  BY DEF Keys
<1> QED
  BY <1>1, KeyIsPath

\* Keys of one length with the same octants are the same.
LEMMA KeysEqual ==
    ASSUME NEW k \in Keys, NEW m \in Keys, Len(k) = Len(m),
           \A i \in 1 .. Len(k) : k[i] = m[i]
    PROVE  k = m
<1>1. k \in Seq(Octants) /\ m \in Seq(Octants)
  BY KeyHasPath
<1> QED
  BY <1>1

\* IsUnder, octant by octant.
LEMMA UnderIsPrefix ==
    ASSUME NEW k \in Keys, NEW r \in Keys
    PROVE  IsUnder(k, r) <=> Len(r) <= Len(k) /\ \A i \in 1 .. Len(r) : k[i] = r[i]
<1>1. r \in Seq(Octants) /\ k \in Seq(Octants) /\ Len(r) \in Nat /\ Len(k) \in Nat
  BY KeyHasPath, VoxelTreeAssumption
<1>2. ASSUME Len(r) <= Len(k)
      PROVE  Prefix(k, Len(r)) = r <=> \A i \in 1 .. Len(r) : k[i] = r[i]
  <2>1. r = [i \in 1 .. Len(r) |-> r[i]]
    BY <1>1
  <2> QED
    BY <1>1, <2>1 DEF Prefix
<1> QED
  BY <1>2 DEF IsUnder

\* Every voxel but the root lies in its parent.
LEMMA ParentIsKey ==
    ASSUME NEW k \in Keys, k # Root
    PROVE  /\ Parent(k) \in Keys
           /\ Len(k) \in 1 .. Depth
           /\ Len(Parent(k)) = Len(k) - 1
           /\ \A i \in 1 .. Len(k) - 1 : Parent(k)[i] = k[i]
           /\ IsUnder(k, Parent(k))
<1>1. PICK path \in Positions : k = KeyAt(path, Len(k))
  BY KeyHasPath
<1>2. k \in Seq(Octants) /\ Len(k) \in 0 .. Depth /\ Depth \in Nat
  BY KeyHasPath, VoxelTreeAssumption
<1>3. Len(k) # 0
  BY <1>2 DEF Root
<1>4. Len(k) - 1 \in 0 .. Depth /\ Len(k) \in Nat
  BY <1>2, <1>3
<1>5. \A i \in 1 .. Len(k) : k[i] = path[i]
  BY <1>1, <1>2, KeyIsPath
<1>6. Parent(k) = KeyAt(path, Len(k) - 1)
  BY <1>4, <1>5 DEF Parent, KeyAt, Prefix
<1>7. /\ Parent(k) \in Keys /\ Len(Parent(k)) = Len(k) - 1
      /\ \A i \in 1 .. Len(k) - 1 : Parent(k)[i] = path[i]
  BY <1>4, <1>6, KeyIsPath
<1>8. \A i \in 1 .. Len(k) - 1 : Parent(k)[i] = k[i]
  BY <1>4, <1>5, <1>7
<1> QED
  BY <1>4, <1>2, <1>3, <1>7, <1>8, UnderIsPrefix

\* The depth of a voxel is a number.
LEMMA KeyLength ==
    \A k \in Keys : Len(k) \in Nat
BY KeyHasPath, VoxelTreeAssumption

\* Every voxel is under the root.
LEMMA RootIsKey ==
    /\ Root \in Keys /\ Len(Root) = 0
    /\ \A k \in Keys : IsUnder(k, Root)
    /\ \A k \in Keys : Len(k) = 0 => k = Root
<1>1. PICK path \in Positions : TRUE
  BY VoxelTreeAssumption
<1>2. KeyAt(path, 0) \in Keys /\ KeyAt(path, 0) \in Seq(Octants) /\ Len(KeyAt(path, 0)) = 0
  BY KeyIsPath, VoxelTreeAssumption
<1>3. KeyAt(path, 0) = Root
  BY <1>2 DEF Root
<1>4. Root \in Keys /\ Len(Root) = 0
  BY <1>2, <1>3
<1>5. \A k \in Keys : Len(k) = 0 => k = Root
  BY <1>4, KeysEqual
<1> QED
  BY <1>4, <1>5, UnderIsPrefix, KeyLength

\* IsUnder is a partial order ...
LEMMA UnderReflexive ==
    \A k \in Keys : IsUnder(k, k)
BY UnderIsPrefix, KeyLength

\* ... that agrees with the depth ...
LEMMA UnderLength ==
    ASSUME NEW k \in Keys, NEW r \in Keys, IsUnder(k, r)
    PROVE  Len(r) <= Len(k) /\ (Len(r) = Len(k) => r = k)
BY UnderIsPrefix, KeysEqual

\* ... and is transitive ...
LEMMA UnderTransitive ==
    ASSUME NEW k \in Keys, NEW r \in Keys, NEW s \in Keys,
           IsUnder(k, r), IsUnder(r, s)
    PROVE  IsUnder(k, s)
BY KeyLength, UnderIsPrefix

\* ... and what is above one voxel is on one path.
LEMMA UnderComparable ==
    ASSUME NEW k \in Keys, NEW r \in Keys, NEW s \in Keys,
           IsUnder(k, r), IsUnder(k, s), Len(r) <= Len(s)
    PROVE  IsUnder(s, r)
BY KeyLength, UnderIsPrefix

\* What is under a voxel, and is not it, has its parent under it.
LEMMA UnderParent ==
    ASSUME NEW k \in Keys, NEW r \in Keys, IsUnder(k, r), k # r
    PROVE  k # Root /\ IsUnder(Parent(k), r) /\ Len(r) < Len(k)
<1>1. Len(k) \in Nat /\ Len(r) \in Nat
  BY KeyLength
<1>2. Len(r) < Len(k)
  BY <1>1, UnderLength
<1>3. k # Root
  BY <1>1, <1>2 DEF Root
<1> QED
  BY <1>1, <1>2, <1>3, UnderIsPrefix, ParentIsKey

\* The voxels above a voxel are those of the positions in it.
LEMMA PathThroughKeys ==
    ASSUME NEW path \in Positions, NEW k \in Keys, KeyAt(path, Len(k)) = k,
           NEW m \in Keys
    PROVE  /\ IsUnder(k, m) => KeyAt(path, Len(m)) = m
           /\ KeyAt(path, Len(m)) = m /\ Len(m) <= Len(k) => IsUnder(k, m)
           /\ KeyAt(path, Len(m)) = m /\ Len(m) = Len(k) => m = k
<1>1. /\ Len(k) \in 0 .. Depth /\ Len(m) \in 0 .. Depth /\ Depth \in Nat
  BY KeyHasPath, VoxelTreeAssumption
<1>2. \A l \in 0 .. Depth : \A i \in 1 .. l : KeyAt(path, l)[i] = path[i]
  BY KeyIsPath
<1>3. \A i \in 1 .. Len(k) : k[i] = path[i]
  BY <1>1, <1>2
<1>4. ASSUME IsUnder(k, m) PROVE KeyAt(path, Len(m)) = m
  <2>1. \A i \in 1 .. Len(m) : m[i] = path[i]
    BY <1>1, <1>3, <1>4, UnderIsPrefix
  <2>2. KeyAt(path, Len(m)) \in Keys /\ Len(KeyAt(path, Len(m))) = Len(m)
    BY <1>1, KeyIsPath
  <2>3. \A i \in 1 .. Len(m) : KeyAt(path, Len(m))[i] = m[i]
    BY <1>1, <1>2, <2>1
  <2> QED
    BY <2>2, <2>3, KeysEqual
<1>5. ASSUME KeyAt(path, Len(m)) = m, Len(m) <= Len(k) PROVE IsUnder(k, m)
  <2>1. \A i \in 1 .. Len(m) : m[i] = path[i]
    BY <1>1, <1>2, <1>5
  <2> QED
    BY <1>1, <1>3, <1>5, <2>1, UnderIsPrefix
<1> QED
  BY <1>4, <1>5

\* The voxels of a position below a voxel it lies in are under that voxel.
LEMMA PathGoesOn ==
    ASSUME NEW path \in Positions, NEW k \in Keys, KeyAt(path, Len(k)) = k,
           NEW l \in 0 .. Depth, Len(k) <= l
    PROVE  /\ KeyAt(path, l) \in Keys /\ Len(KeyAt(path, l)) = l
           /\ IsUnder(KeyAt(path, l), k)
           /\ l = Len(k) + 1 => KeyAt(path, l) # Root /\ Parent(KeyAt(path, l)) = k
<1> DEFINE m == KeyAt(path, l)
<1>1. m \in Keys /\ Len(m) = l /\ KeyAt(path, Len(m)) = m
  BY KeyIsPath
<1>2. Len(k) \in Nat /\ l \in Nat /\ Len(k) <= Len(m)
  BY <1>1, KeyLength
<1> HIDE DEF m
<1>3. IsUnder(m, k)
  BY <1>1, <1>2, PathThroughKeys
<1>4. ASSUME l = Len(k) + 1 PROVE m # Root /\ Parent(m) = k
  <2>1. m # k
    BY <1>1, <1>2, <1>4
  <2>2. m # Root /\ IsUnder(Parent(m), k)
    BY <1>1, <1>3, <2>1, UnderParent
  <2>3. Parent(m) \in Keys /\ Len(Parent(m)) = Len(k)
    BY <1>1, <1>2, <1>4, <2>2, ParentIsKey
  <2> QED
    BY <2>2, <2>3, UnderLength
<1> QED
  BY <1>1, <1>3, <1>4 DEF m

\* The start of a key is the key of a voxel above.
LEMMA PrefixIsKey ==
    ASSUME NEW k \in Keys, NEW n \in Nat, n <= Len(k)
    PROVE  Prefix(k, n) \in Keys /\ Len(Prefix(k, n)) = n /\ IsUnder(k, Prefix(k, n))
<1>1. PICK path \in Positions : k = KeyAt(path, Len(k))
  BY KeyHasPath
<1>2. Len(k) \in 0 .. Depth /\ Depth \in Nat
  BY KeyHasPath, VoxelTreeAssumption
<1>3. n \in 0 .. Depth
  BY <1>2
<1>4. \A i \in 1 .. Len(k) : k[i] = path[i]
  BY <1>1, <1>2, KeyIsPath
<1>5. Prefix(k, n) = KeyAt(path, n)
  BY <1>2, <1>4 DEF KeyAt, Prefix
<1>6. KeyAt(path, n) \in Keys /\ Len(KeyAt(path, n)) = n
  BY <1>3, KeyIsPath
<1>7. \A i \in 1 .. n : KeyAt(path, n)[i] = k[i]
  BY <1>2, <1>3, <1>4, KeyIsPath
<1> QED
  BY <1>5, <1>6, <1>7, UnderIsPrefix

(***************************************************************************)
(* The build                                                               *)
(***************************************************************************)
\* p lies in the voxel k.
LiesIn(p, k) == KeyAt(pos[p], Len(k)) = k

AllBuilt == \A c \in plan : job[c].at = "built"

\* The merge that ends at o is under way: in a chunk, or over all of them.
MergesIn(o) == o \in plan /\ job[o].at = "merging"
MergesAll(o) == o = Root /\ AllBuilt

-----------------------------------------------------------------------------
(* Every point is where it belongs                                         *)

PointsInPlace ==
    /\ \A c \in plan : job[c].at # "built" => chunkFile[c] = Inside(Points, c)
    /\ \A k \in Keys : \A p \in spill[k] : LiesIn(p, k)
    /\ \A r, k \in Keys : \A p \in tree[r].nodes[k] : LiesIn(p, k)
    /\ \A k \in Keys : \A p \in store[k] : LiesIn(p, k)
    /\ \A q, k \in Keys : \A p \in task[q].got[k] : LiesIn(p, k)

-----------------------------------------------------------------------------
(* What of a chunk there is, as its build goes on                          *)

SplitsBounded ==
    \A c \in plan : job[c].at # "waiting" =>
        /\ job[c].split \in Len(c) .. Len(c) + SpillCap
        /\ job[c].at = "merging" => job[c].split > Len(c)

SpillsPlaced ==
    \A k \in Keys : spill[k] # {} =>
        \E c \in plan : /\ IsUnder(k, c) /\ job[c].at = "building"
                        /\ job[c].split = Len(k) /\ Len(k) > Len(c)

TreesPlaced ==
    \A r \in Keys : tree[r].at # "none" =>
        \E c \in plan : /\ IsUnder(r, c) /\ job[c].split = Len(r)
                        /\ job[c].at # "waiting"
                        /\ job[c].at # "building" => tree[r].at = "built"
                        /\ job[c].at = "building" /\ r # c => spill[r] # {}

InMemoryBegun ==
    \A c \in plan : job[c].at = "building" /\ job[c].split = Len(c) =>
        tree[c].at # "none"

TreesInside ==
    \A r, k \in Keys : tree[r].nodes[k] # {} =>
        IsUnder(k, r) /\ tree[r].at \in {"leaves", "sampling", "writing"}

\* The nodes that are still to be sampled lie beside one another.
LeavesApart ==
    \A r \in Keys : tree[r].at \in {"leaves", "sampling"} =>
        /\ Len(r) <= tree[r].level
        /\ \A k, m \in Keys :
              tree[r].nodes[k] # {} /\ tree[r].nodes[m] # {} /\ IsUnder(m, k) /\ m # k
                => tree[r].at = "sampling" /\ Len(m) > tree[r].level

-----------------------------------------------------------------------------
(* What has not been written yet                                           *)

Unwritten ==
    /\ \A c \in plan : job[c].at = "waiting" =>
          \A k \in Keys : IsUnder(k, c) => store[k] = {}
    /\ \A c \in plan : job[c].at = "building" =>
          \A k \in Keys : IsUnder(k, c) /\ Len(k) < job[c].split => store[k] = {}
    /\ \A c \in plan : job[c].at = "building" =>
          \A r, k \in Keys :
             /\ IsUnder(r, c) /\ Len(r) = job[c].split /\ IsUnder(k, r)
             /\ \/ tree[r].at \in {"none", "leaves", "sampling"}
                \/ tree[r].nodes[k] # {}
             => store[k] = {}

\* The merge that ends at o has come to the voxel k.
Merged(o, k) ==
    /\ merge[o].at # "none"
    /\ \/ Len(k) >= merge[o].from
       \/ merge[o].at = "sampling" /\ Len(k) + 1 = merge[o].from /\ task[k].at = "done"

TopsUnwritten ==
    /\ \A c \in plan : job[c].at = "merging" =>
          \A k \in Keys : IsUnder(k, c) /\ Len(k) < job[c].split /\ store[k] # {} =>
             Merged(c, k)
    /\ \A k \in Keys :
          (\A c \in plan : ~IsUnder(k, c)) /\ store[k] # {} => AllBuilt /\ Merged(Root, k)

-----------------------------------------------------------------------------
(* Merges and their tasks                                                  *)

MergesPlaced ==
    \A o \in Keys : merge[o].at # "none" =>
        /\ MergesIn(o) \/ MergesAll(o)
        /\ phase = "building" => MergesIn(o)
        /\ merge[o].stop = Len(o) /\ merge[o].from >= Len(o)
        /\ merge[o].made \subseteq merge[o].keys
        /\ merge[o].at = "sampling" => merge[o].from > Len(o)
        /\ MergesIn(o) => \A k \in merge[o].keys : IsUnder(k, o) /\ Len(k) <= job[o].split
        /\ MergesAll(o) => \A k \in merge[o].keys : \E c \in plan : IsUnder(c, k)

TasksPlaced ==
    \A q \in Keys : task[q].at # "none" =>
        \E o \in Keys : merge[o].at = "sampling" /\ q \in Parents(o)

TasksRead ==
    \A q \in Keys : task[q].at = "open" =>
        /\ task[q].unread \subseteq task[q].unwritten
        /\ \A k \in task[q].unwritten : k # Root /\ Parent(k) = q
        /\ \A k \in Keys : task[q].got[k] # {} => k # Root /\ Parent(k) = q
        /\ \A k \in task[q].unwritten \ task[q].unread : task[q].got[k] = store[k]
        /\ task[q].unread # {} =>
              \A k \in Keys : task[q].got[k] # {} => k \in task[q].unwritten \ task[q].unread

MadeOnly ==
    \A c \in plan : \A k \in job[c].made : IsUnder(k, c)

IInv ==
    /\ TypeOK
    /\ PointsInPlace
    /\ SplitsBounded /\ SpillsPlaced /\ TreesPlaced /\ InMemoryBegun
    /\ TreesInside /\ LeavesApart
    /\ Unwritten /\ TopsUnwritten
    /\ MergesPlaced /\ TasksPlaced /\ TasksRead /\ MadeOnly

-----------------------------------------------------------------------------
Jobs   == [at : {"waiting", "building", "merging", "built"}, split : Nat, made : SUBSET Keys]
Trees  == [at : {"none", "leaves", "sampling", "writing", "built"},
           level : Nat, nodes : [Keys -> SUBSET Points]]
Merges == [at : {"none", "grouping", "sampling", "done"}, from : Nat, stop : Nat,
           keys : SUBSET Keys, made : SUBSET Keys]
Tasks  == [at : {"none", "open", "done"}, unread : SUBSET Keys, unwritten : SUBSET Keys,
           got : [Keys -> SUBSET Points]]

\* The type invariant, conjunct by conjunct.
LEMMA Typed ==
    TypeOK <=> /\ pos \in [Points -> Positions] /\ plan \in Plans
               /\ chunkFile \in [Keys -> SUBSET Points]
               /\ job \in [Keys -> Jobs]
               /\ spill \in [Keys -> SUBSET Points]
               /\ tree \in [Keys -> Trees]
               /\ store \in [Keys -> SUBSET Points]
               /\ merge \in [Keys -> Merges]
               /\ task \in [Keys -> Tasks]
               /\ phase \in {"building", "merging", "done", "failed"}
               /\ result \subseteq Keys \X Nat
BY DEF TypeOK, Jobs, Trees, Merges, Tasks

\* The chunks of a plan do not overlap.
LEMMA PlanApart ==
    ASSUME TypeOK
    PROVE  /\ plan \subseteq Keys
           /\ \A k \in Keys : \A c, d \in plan :
                 IsUnder(k, c) /\ IsUnder(k, d) => c = d
<1>1. plan \subseteq Keys /\ \A c, d \in plan : IsUnder(c, d) => c = d
  BY OctreeBuildAssumption DEF TypeOK
<1>2. ASSUME NEW k \in Keys, NEW c \in plan, NEW d \in plan, IsUnder(k, c), IsUnder(k, d)
      PROVE  c = d
  <2>1. Len(c) <= Len(d) \/ Len(d) <= Len(c)
    BY <1>1, KeyLength
  <2> QED
    BY <1>1, <1>2, <2>1, UnderComparable
<1> QED
  BY <1>1, <1>2

\* A voxel of a chunk is of that chunk only.
LEMMA ChunkIs ==
    ASSUME TypeOK, NEW r \in Keys, NEW c \in plan, IsUnder(r, c)
    PROVE  ChunkOf(r) = c
BY PlanApart DEF ChunkOf

\* What every step of one subtree keeps: it may change the subtree, within its
\* voxel, as long as what is not in it yet has not been written.
LEMMA TreeChanges ==
    ASSUME IInv, NEW r \in Keys, NEW t \in Trees, NEW c \in plan,
           tree' = [tree EXCEPT ![r] = t],
           UNCHANGED <<fixed, chunkFile, job, spill, store, merge, task, phase, result>>,
           t.at # "none",
           IsUnder(r, c), job[c].at = "building", job[c].split = Len(r),
           r # c => spill[r] # {},
           \A k \in Keys : t.nodes[k] # {} =>
              IsUnder(k, r) /\ t.at \in {"leaves", "sampling", "writing"},
           \A k \in Keys : \A p \in t.nodes[k] : LiesIn(p, k),
           t.at \in {"leaves", "sampling"} => Len(r) <= t.level,
           t.at \in {"leaves", "sampling"} => \A k, m \in Keys :
              t.nodes[k] # {} /\ t.nodes[m] # {} /\ IsUnder(m, k) /\ m # k
                => t.at = "sampling" /\ Len(m) > t.level,
           \A k \in Keys : IsUnder(k, r)
                           /\ (t.at \in {"none", "leaves", "sampling"} \/ t.nodes[k] # {})
              => store[k] = {}
    PROVE  IInv'
<1> USE DEF fixed
<1>1. tree \in [Keys -> Trees] /\ TypeOK
  BY Typed DEF IInv
<1>2. tree' \in [Keys -> Trees] /\ tree'[r] = t /\ \A s \in Keys \ {r} : tree'[s] = tree[s]
  BY <1>1
<1>3. TypeOK'
  BY <1>1, <1>2 DEF TypeOK, Trees
<1>4. PointsInPlace'
  BY <1>2 DEF IInv, PointsInPlace, LiesIn, Inside
<1>5. SplitsBounded' /\ SpillsPlaced' /\ MadeOnly'
  BY DEF IInv, SplitsBounded, SpillsPlaced, MadeOnly
<1>6. TreesPlaced'
  BY <1>2 DEF IInv, TreesPlaced
<1>7. InMemoryBegun'
  BY <1>1, <1>2, PlanApart DEF IInv, InMemoryBegun
<1>8. TreesInside'
  BY <1>2 DEF IInv, TreesInside
<1>9. LeavesApart'
  BY <1>2 DEF IInv, LeavesApart
<1>10. Unwritten'
  <2>1. ASSUME NEW d \in plan, job[d].at = "building", NEW s \in Keys, NEW k \in Keys,
               IsUnder(s, d), Len(s) = job[d].split, IsUnder(k, s),
               tree'[s].at \in {"none", "leaves", "sampling"} \/ tree'[s].nodes[k] # {}
        PROVE  store[k] = {}
    BY <1>2, <2>1 DEF IInv, Unwritten
  <2> QED
    BY <2>1 DEF IInv, Unwritten
<1>11. TopsUnwritten'
  BY DEF IInv, TopsUnwritten, Merged, AllBuilt
<1>12. MergesPlaced' /\ TasksPlaced' /\ TasksRead'
  BY DEF IInv, MergesPlaced, MergesIn, MergesAll, AllBuilt, TasksPlaced, TasksRead, Parents
<1> QED
  BY <1>3, <1>4, <1>5, <1>6, <1>7, <1>8, <1>9, <1>10, <1>11, <1>12 DEF IInv

-----------------------------------------------------------------------------
(* One subtree in memory                                                    *)

\* The points of a voxel are those that lie in it.
LEMMA InsideLies ==
    ASSUME NEW S, NEW k
    PROVE  Inside(S, k) = {p \in S : LiesIn(p, k)}
BY DEF Inside, LiesIn

\* What lies in a voxel lies in those above it.
LEMMA LiesAbove ==
    ASSUME TypeOK, NEW p \in Points, NEW k \in Keys, NEW m \in Keys,
           LiesIn(p, k), IsUnder(k, m)
    PROVE  LiesIn(p, m)
BY PathThroughKeys DEF LiesIn, TypeOK

\* Of two voxels a point lies in, the deeper one is under the other.
LEMMA LiesInBoth ==
    ASSUME TypeOK, NEW p \in Points, NEW k \in Keys, NEW m \in Keys,
           LiesIn(p, k), LiesIn(p, m), Len(m) <= Len(k)
    PROVE  IsUnder(k, m) /\ (Len(m) = Len(k) => m = k)
BY PathThroughKeys, UnderLength DEF LiesIn, TypeOK

\* What lies in a voxel lies in one of each deeper level under it.
LEMMA LiesBelow ==
    ASSUME TypeOK, NEW p \in Points, NEW k \in Keys, LiesIn(p, k),
           NEW l \in 0 .. Depth, Len(k) <= l
    PROVE  \E m \in Keys : /\ Len(m) = l /\ LiesIn(p, m) /\ IsUnder(m, k)
                           /\ l = Len(k) + 1 => m # Root /\ Parent(m) = k
<1>1. pos[p] \in Positions
  BY DEF TypeOK
<1>2. KeyAt(pos[p], l) \in Keys /\ Len(KeyAt(pos[p], l)) = l
  BY <1>1, KeyIsPath
<1> QED
  BY <1>1, <1>2, PathGoesOn DEF LiesIn

\* A subtree's leaves are within the depth of the positions.
LEMMA DepthSuffices ==
    ASSUME TypeOK, SplitsBounded, NEW c \in plan, NEW r \in Keys,
           IsUnder(r, c), Len(r) <= Len(c) + SpillCap, NEW pts \in SUBSET Points
    PROVE  /\ ExtraLevels(Cardinality(pts)) \in Nat
           /\ Len(r) + ExtraLevels(Cardinality(pts)) \in 0 .. Depth
<1>1. IsFiniteSet(Points) /\ Depth \in Nat
  BY VoxelTreeAssumption
<1>2. Cardinality(pts) \in 0 .. Cardinality(Points)
  BY <1>1, FS_Subset, FS_CardinalityType
<1>3. Len(c) + SpillCap + ExtraLevels(Cardinality(pts)) <= Depth
  BY <1>2, OctreeBuildAssumption DEF TypeOK
<1>4. ExtraLevels(Cardinality(pts)) \in Nat
  BY <1>2, <1>1, FS_CardinalityType, ExtraLevelsLeast
<1> QED
  BY <1>1, <1>3, <1>4, KeyLength, PlanApart, OctreeBuildAssumption

\* The subtree begun with some points has them in leaves of one level.
LEMMA LoadedFits ==
    ASSUME TypeOK, SplitsBounded, NEW c \in plan, NEW r \in Keys,
           IsUnder(r, c), Len(r) <= Len(c) + SpillCap,
           NEW pts \in SUBSET Points, \A p \in pts : LiesIn(p, r)
    PROVE  LET t == Loaded(r, pts)
           IN  /\ t \in Trees
               /\ t.at = (IF pts = {} THEN "built" ELSE "leaves")
               /\ t.level \in Nat /\ Len(r) <= t.level
               /\ \A k \in Keys : t.nodes[k] # {} => IsUnder(k, r) /\ t.at = "leaves"
               /\ \A k \in Keys : \A p \in t.nodes[k] : p \in pts /\ LiesIn(p, k)
               /\ \A k, m \in Keys : t.nodes[k] # {} /\ t.nodes[m] # {} /\ IsUnder(m, k)
                                       => m = k
               /\ \A p \in pts : \E k \in Keys : p \in t.nodes[k]
<1> DEFINE depth == Len(r) + ExtraLevels(Cardinality(pts))
           nodes == [k \in Keys |-> IF Len(k) = depth THEN Inside(pts, k) ELSE {}]
           t == Loaded(r, pts)
<1>1. depth \in 0 .. Depth /\ depth \in Nat /\ Len(r) <= depth
  BY DepthSuffices, KeyLength, VoxelTreeAssumption
<1>2. t = [at |-> IF pts = {} THEN "built" ELSE "leaves", level |-> depth, nodes |-> nodes]
  BY DEF Loaded
<1>3. \A k \in Keys : nodes[k] = IF Len(k) = depth THEN {p \in pts : LiesIn(p, k)} ELSE {}
  BY InsideLies
<1>4. nodes \in [Keys -> SUBSET Points]
  BY DEF Inside
<1> HIDE DEF depth, nodes, t
<1>5. /\ t \in Trees /\ t.level = depth /\ t.nodes = nodes
      /\ t.at = IF pts = {} THEN "built" ELSE "leaves"
  BY <1>1, <1>2, <1>4 DEF Trees
<1>6. \A k \in Keys : nodes[k] # {} => IsUnder(k, r) /\ pts # {}
  <2>1. ASSUME NEW k \in Keys, NEW p \in nodes[k] PROVE IsUnder(k, r) /\ p \in pts
    <3>1. p \in pts /\ LiesIn(p, k) /\ Len(k) = depth
      BY <1>3, <2>1
    <3> QED
      BY <1>1, <3>1, LiesInBoth
  <2> QED
    BY <2>1
<1>7. \A k, m \in Keys : nodes[k] # {} /\ nodes[m] # {} /\ IsUnder(m, k) => m = k
  BY <1>3, UnderLength
<1>8. \A p \in pts : \E k \in Keys : p \in nodes[k]
  <2>1. ASSUME NEW p \in pts PROVE \E k \in Keys : p \in nodes[k]
    <3>1. \E k \in Keys : Len(k) = depth /\ LiesIn(p, k)
      BY <1>1, LiesBelow
    <3> QED
      BY <1>3, <3>1
  <2> QED
    BY <2>1
<1> QED
  <2>1. /\ \A k \in Keys : t.nodes[k] # {} => IsUnder(k, r) /\ t.at = "leaves"
        /\ \A k \in Keys : \A p \in t.nodes[k] : p \in pts /\ LiesIn(p, k)
    BY <1>3, <1>5, <1>6
  <2> QED
    BY <1>1, <1>5, <1>7, <1>8, <2>1 DEF t

\* An octant of a spilled chunk is read from its file and begun.
LEMMA BuildSubOctantKeeps ==
    ASSUME IInv, NEW c \in plan, NEW r \in SubRoots(c), BuildSubOctant(c, r)
    PROVE  IInv'
<1> DEFINE t == Loaded(r, spill[r])
<1>1. /\ TypeOK /\ SplitsBounded /\ spill \in [Keys -> SUBSET Points]
      /\ tree' = [tree EXCEPT ![r] = t]
      /\ UNCHANGED <<fixed, chunkFile, job, spill, store, merge, task, phase, result>>
      /\ job[c].at = "building" /\ job[c].split > Len(c)
      /\ r \in Keys /\ IsUnder(r, c) /\ spill[r] # {} /\ tree[r].at = "none"
  BY Typed DEF IInv, BuildSubOctant, Spilled, SubRoots
<1>2. job[c].split = Len(r)
  BY <1>1, PlanApart DEF IInv, SpillsPlaced
<1>3. Len(r) <= Len(c) + SpillCap
  BY <1>1, <1>2, PlanApart, KeyLength, OctreeBuildAssumption DEF SplitsBounded
<1>4. \A p \in spill[r] : LiesIn(p, r)
  BY <1>1 DEF IInv, PointsInPlace
<1>5. /\ t \in Trees /\ t.at = "leaves" /\ t.level \in Nat /\ Len(r) <= t.level
      /\ \A k \in Keys : t.nodes[k] # {} => IsUnder(k, r)
      /\ \A k \in Keys : \A p \in t.nodes[k] : LiesIn(p, k)
      /\ \A k, m \in Keys : t.nodes[k] # {} /\ t.nodes[m] # {} /\ IsUnder(m, k) => m = k
  BY <1>1, <1>3, <1>4, LoadedFits
<1> HIDE DEF t
<1>6. \A k \in Keys : IsUnder(k, r) => store[k] = {}
  BY <1>1, <1>2 DEF IInv, Unwritten
<1> QED
  BY <1>1, <1>2, <1>5, <1>6, TreeChanges

\* A subtree that is not finished is of a chunk that is being built.
LEMMA TreeHome ==
    ASSUME IInv, NEW r \in Keys, tree[r].at \in {"leaves", "sampling", "writing"}
    PROVE  \E c \in plan : /\ IsUnder(r, c) /\ job[c].at = "building"
                           /\ job[c].split = Len(r)
                           /\ r # c => spill[r] # {}
BY DEF IInv, TreesPlaced

\* A subtree with nothing left to write is built.
LEMMA TreeBuiltKeeps ==
    ASSUME IInv, NEW r \in Keys, TreeBuilt(r)
    PROVE  IInv'
<1> DEFINE t == [at |-> "built", level |-> tree[r].level, nodes |-> tree[r].nodes]
<1>1. /\ tree[r] \in Trees /\ tree[r].at = "writing" /\ tree[r].nodes = NoPoints
      /\ tree' = [tree EXCEPT ![r] = t]
      /\ UNCHANGED <<fixed, chunkFile, job, spill, store, merge, task, phase, result>>
  BY Typed DEF IInv, TreeBuilt
<1>2. t \in Trees /\ t.at = "built" /\ \A k \in Keys : t.nodes[k] = {}
  BY <1>1 DEF Trees, NoPoints
<1>3. PICK c \in plan : IsUnder(r, c) /\ job[c].at = "building" /\ job[c].split = Len(r)
                        /\ (r # c => spill[r] # {})
  BY <1>1, TreeHome
<1> HIDE DEF t
<1>4. /\ t.at # "none" /\ ~(t.at \in {"leaves", "sampling"})
      /\ \A k \in Keys : \A p \in t.nodes[k] : LiesIn(p, k)
      /\ \A k \in Keys : t.nodes[k] # {} =>
            IsUnder(k, r) /\ t.at \in {"leaves", "sampling", "writing"}
      /\ \A k \in Keys : IsUnder(k, r)
                          /\ (t.at \in {"none", "leaves", "sampling"} \/ t.nodes[k] # {})
            => store[k] = {}
  BY <1>2
<1>5. /\ t.at \in {"leaves", "sampling"} => Len(r) <= t.level
      /\ t.at \in {"leaves", "sampling"} => \A k, m \in Keys :
            t.nodes[k] # {} /\ t.nodes[m] # {} /\ IsUnder(m, k) /\ m # k
              => t.at = "sampling" /\ Len(m) > t.level
  BY <1>4
<1> QED
  BY <1>1, <1>2, <1>3, <1>4, <1>5, TreeChanges

\* A round of the subdivision: what it does to the nodes of the subtree.
LEMMA SubdivideNodes ==
    ASSUME IInv, NEW r \in Keys, Subdivide(r)
    PROVE  LET nodes == tree[r].nodes
               over  == Oversized(nodes)
               t     == tree'[r]
           IN  /\ tree' = [tree EXCEPT ![r] = t]
               /\ UNCHANGED <<fixed, chunkFile, job, spill, store, merge, task, phase,
                              result>>
               /\ t \in Trees /\ Len(r) <= t.level
               /\ \A k \in over : k \in Keys /\ nodes[k] # {}
               /\ \/ /\ t.at = "sampling" /\ t.nodes = nodes /\ t.level = tree[r].level
                     /\ over = {} \/ \E k \in over : Len(k) >= DepthCap
                  \/ /\ t.at = "leaves"
                     /\ over # {} /\ \A k \in over : Len(k) + 1 \in 0 .. Depth
                     /\ \A k \in over : Len(k) < DepthCap
                     /\ \A k \in over : Len(k) + 1 <= t.level
                     /\ t.level = tree[r].level \/ \E k \in over : t.level = Len(k) + 1
                     /\ \A k \in Keys :
                           t.nodes[k] =
                             IF k \in over THEN {}
                             ELSE IF k # Root /\ Parent(k) \in over
                                  THEN Inside(nodes[Parent(k)], k) ELSE nodes[k]
<1> DEFINE nodes == tree[r].nodes
           over  == Oversized(nodes)
           levels == {Len(k) + 1 : k \in over} \cup {tree[r].level}
           New(k) == IF k \in over THEN {}
                     ELSE IF k # Root /\ Parent(k) \in over
                          THEN Inside(nodes[Parent(k)], k) ELSE nodes[k]
           top  == CHOOSE l \in levels : \A m \in levels : m <= l
           kept == [at |-> "sampling", level |-> tree[r].level, nodes |-> nodes]
           split == [at |-> "leaves", level |-> top, nodes |-> [k \in Keys |-> New(k)]]
           ends == over = {} \/ \E k \in over : Len(k) >= DepthCap
<1>1. /\ tree \in [Keys -> Trees] /\ tree[r].at = "leaves"
      /\ tree[r] \in Trees /\ tree[r].level \in Nat /\ nodes \in [Keys -> SUBSET Points]
      /\ Len(r) <= tree[r].level
  BY Typed DEF IInv, Subdivide, LeavesApart, Trees
<1>2. /\ UNCHANGED <<fixed, chunkFile, job, spill, store, merge, task, phase, result>>
      /\ IF ends THEN tree' = [tree EXCEPT ![r] = kept] ELSE tree' = [tree EXCEPT ![r] = split]
  BY DEF Subdivide
<1>3. \A k \in over : k \in Keys /\ nodes[k] # {}
  <2>1. \A k \in over : k \in Keys /\ Cardinality(nodes[k]) > MaxLeaf
    BY DEF Oversized
  <2>2. \A k \in Keys : nodes[k] = {} => Cardinality(nodes[k]) = 0
    BY FS_EmptySet
  <2>3. MaxLeaf \in Nat
    BY VoxelTreeAssumption
  <2> HIDE DEF over
  <2> QED
    BY <2>1, <2>2, <2>3
<1>4. CASE ends
  <2>1. kept \in Trees /\ tree'[r] = kept
    BY <1>1, <1>2, <1>4 DEF Trees
  <2> QED
    BY <1>1, <1>2, <1>3, <1>4, <2>1
<1>5. CASE ~ends
  <2>1. over # {} /\ \A k \in over : Len(k) < DepthCap /\ Len(k) + 1 \in 0 .. Depth
    BY <1>3, <1>5, KeyLength, OctreeBuildAssumption, VoxelTreeAssumption
  <2>2. levels \subseteq Nat /\ levels # {} /\ IsFiniteSet(levels)
    <3> DEFINE bound == Depth + tree[r].level
    <3>1. bound \in Nat /\ levels \subseteq 0 .. bound /\ levels # {}
      <4> HIDE DEF over
      <4>1. \A k \in over : Len(k) + 1 \in 0 .. Depth
        BY <2>1
      <4>2. \A l \in levels : l \in 0 .. bound
        BY <1>1, <4>1, VoxelTreeAssumption
      <4>3. tree[r].level \in levels /\ bound \in Nat
        BY <1>1, VoxelTreeAssumption
      <4> HIDE DEF levels, bound
      <4> QED
        BY <4>2, <4>3
    <3> HIDE DEF bound, levels
    <3>2. IsFiniteSet(0 .. bound)
      BY <3>1, FS_Interval
    <3>3. IsFiniteSet(levels)
      BY <3>1, <3>2, FS_Subset
    <3>4. levels \subseteq Nat
      BY <3>1
    <3> QED
      BY <3>1, <3>3, <3>4
  <2>3. \E l \in levels : \A m \in levels : m <= l
    <3> HIDE DEF levels
    <3> QED
      BY <2>2, GreatestNatural
  <2>4. top \in levels /\ \A m \in levels : m <= top
    BY <2>3
  <2>5. top \in Nat /\ tree[r].level <= top
        /\ (top = tree[r].level \/ \E k \in over : top = Len(k) + 1)
        /\ \A k \in over : Len(k) + 1 <= top
    <3> HIDE DEF top, over
    <3> QED
      BY <2>2, <2>4
  <2>6. Len(r) <= top
    <3> HIDE DEF top
    <3> QED
      BY <1>1, <2>5, KeyLength
  <2>7. [k \in Keys |-> New(k)] \in [Keys -> SUBSET Points]
    BY <1>1, <1>3 DEF Inside
  <2>8. split \in Trees /\ split.at = "leaves" /\ split.level = top
        /\ \A k \in Keys : split.nodes[k] = New(k)
    <3> HIDE DEF top, New
    <3> QED
      BY <2>5, <2>7 DEF Trees
  <2>9. tree' = [tree EXCEPT ![r] = split] /\ tree'[r] = split
    <3> HIDE DEF split
    <3> QED
      BY <1>1, <1>2, <1>5
  <2> HIDE DEF split, top
  <2> QED
    BY <1>2, <1>3, <2>1, <2>5, <2>6, <2>8, <2>9
<1> QED
  BY <1>4, <1>5

\* Dividing leaves moves points one level down, beside the other leaves.
LEMMA SubdivideKeeps ==
    ASSUME IInv, NEW r \in Keys, Subdivide(r)
    PROVE  IInv'
<1> DEFINE nodes == tree[r].nodes
           over  == Oversized(nodes)
           t     == tree'[r]
           Moved(k) == k \notin over /\ k # Root /\ Parent(k) \in over
<1>1. /\ tree' = [tree EXCEPT ![r] = t]
      /\ UNCHANGED <<fixed, chunkFile, job, spill, store, merge, task, phase, result>>
      /\ t \in Trees /\ Len(r) <= t.level
      /\ \A k \in over : k \in Keys /\ nodes[k] # {}
      /\ \/ t.at = "sampling" /\ t.nodes = nodes
         \/ /\ t.at = "leaves"
            /\ \A k \in Keys :
                  t.nodes[k] = IF k \in over THEN {}
                               ELSE IF k # Root /\ Parent(k) \in over
                                    THEN Inside(nodes[Parent(k)], k) ELSE nodes[k]
  BY SubdivideNodes
<1>2. /\ TypeOK /\ nodes \in [Keys -> SUBSET Points] /\ tree[r].at = "leaves"
      /\ \A k \in Keys : nodes[k] # {} => IsUnder(k, r)
      /\ \A k \in Keys : \A p \in nodes[k] : LiesIn(p, k)
      /\ \A k, m \in Keys : nodes[k] # {} /\ nodes[m] # {} /\ IsUnder(m, k) => m = k
  BY Typed DEF IInv, Subdivide, PointsInPlace, TreesInside, LeavesApart, Trees
<1>3. PICK c \in plan : IsUnder(r, c) /\ job[c].at = "building" /\ job[c].split = Len(r)
                        /\ (r # c => spill[r] # {})
  BY <1>2, TreeHome
<1>4. \A k \in Keys : IsUnder(k, r) => store[k] = {}
  BY <1>2, <1>3 DEF IInv, Unwritten
<1> HIDE DEF over, nodes, t
<1>5. CASE t.at = "sampling" /\ t.nodes = nodes
  <2>1. /\ \A k \in Keys : t.nodes[k] # {} => IsUnder(k, r)
        /\ \A k \in Keys : \A p \in t.nodes[k] : LiesIn(p, k)
        /\ \A k, m \in Keys : t.nodes[k] # {} /\ t.nodes[m] # {} /\ IsUnder(m, k) => m = k
    BY <1>2, <1>5
  <2> QED
    BY <1>1, <1>3, <1>4, <1>5, <2>1, TreeChanges
<1>6. CASE /\ t.at = "leaves"
           /\ \A k \in Keys :
                 t.nodes[k] = IF k \in over THEN {}
                              ELSE IF k # Root /\ Parent(k) \in over
                                   THEN Inside(nodes[Parent(k)], k) ELSE nodes[k]
  <2>1. ASSUME NEW k \in Keys, t.nodes[k] # {}
        PROVE  /\ k \notin over
               /\ \/ ~Moved(k) /\ t.nodes[k] = nodes[k]
                  \/ /\ Moved(k) /\ Parent(k) \in Keys /\ nodes[Parent(k)] # {}
                     /\ Len(Parent(k)) + 1 = Len(k) /\ IsUnder(k, Parent(k))
                     /\ t.nodes[k] = Inside(nodes[Parent(k)], k)
    BY <1>1, <1>6, <2>1, ParentIsKey, KeyLength
  <2>2. \A k \in Keys : t.nodes[k] # {} => IsUnder(k, r)
    BY <1>2, <2>1, UnderTransitive
  <2>3. \A k \in Keys : \A p \in t.nodes[k] : LiesIn(p, k)
    <3>1. ASSUME NEW k \in Keys, NEW p \in t.nodes[k] PROVE LiesIn(p, k)
      BY <1>2, <2>1, InsideLies
    <3> QED
      BY <3>1
  <2>4. ASSUME NEW k \in Keys, NEW m \in Keys, t.nodes[k] # {}, t.nodes[m] # {},
               IsUnder(m, k), m # k
        PROVE  FALSE
    <3>1. m # Root /\ IsUnder(Parent(m), k) /\ Parent(m) \in Keys
      BY <2>4, UnderParent, ParentIsKey
    <3>2. CASE ~Moved(k)
      BY <1>2, <2>1, <2>4, <3>1, <3>2
    <3>3. CASE Moved(k)
      <4>1. IsUnder(m, Parent(k)) /\ IsUnder(Parent(m), Parent(k))
            /\ ~IsUnder(Parent(k), k)
        BY <2>1, <2>4, <3>1, <3>3, UnderTransitive, UnderLength, KeyLength
      <4> QED
        BY <1>2, <2>1, <2>4, <3>1, <3>3, <4>1
    <3> QED
      BY <3>2, <3>3
  <2> HIDE DEF Moved
  <2>5. /\ t.at # "none" /\ t.at = "leaves" /\ t \in Trees
        /\ tree' = [tree EXCEPT ![r] = t]
        /\ UNCHANGED <<fixed, chunkFile, job, spill, store, merge, task, phase, result>>
        /\ Len(r) <= t.level
    BY <1>1, <1>6
  <2>6. \A k \in Keys : t.nodes[k] # {} =>
           IsUnder(k, r) /\ t.at \in {"leaves", "sampling", "writing"}
    BY <2>2, <2>5
  <2>7. \A k, m \in Keys :
           t.nodes[k] # {} /\ t.nodes[m] # {} /\ IsUnder(m, k) /\ m # k
             => t.at = "sampling" /\ Len(m) > t.level
    BY <2>4
  <2> QED
    BY <1>3, <1>4, <2>3, <2>5, <2>6, <2>7, TreeChanges
<1> QED
  BY <1>1, <1>5, <1>6

\* What a parent samples comes from one of its children, and what a child gets
\* back was its own.
LEMMA SampledFromChildren ==
    ASSUME NEW nodes \in [Keys -> SUBSET Points], NEW q,
           NEW got, got = ChildrenIn(nodes, q)
    PROVE  /\ \A p \in Sampled(q, pos, got) :
                 \E c \in Keys : c # Root /\ Parent(c) = q /\ p \in nodes[c]
           /\ \A c \in Keys : c # Root /\ Parent(c) = q /\ nodes[c] # {} =>
                 /\ Remaining(q, pos, got, c) \subseteq nodes[c]
                 /\ Remaining(q, pos, got, c) \cap Sampled(q, pos, got) = {}
           /\ \A c \in Keys : c # Root /\ Parent(c) = q =>
                 \A p \in nodes[c] :
                    \/ p \in Sampled(q, pos, got)
                    \/ \E e \in Keys : /\ e # Root /\ Parent(e) = q /\ nodes[e] # {}
                                      /\ p \in Remaining(q, pos, got, e)
<1>1. /\ DOMAIN got = {c \in Keys : c # Root /\ Parent(c) = q /\ nodes[c] # {}}
      /\ \A c \in DOMAIN got : got[c] = nodes[c]
  BY DEF ChildrenIn
<1>2. Gathered(got) = Sampled(q, pos, got)
            \cup UNION {Remaining(q, pos, got, c) : c \in DOMAIN got}
  BY SamplingPartitions
<1>3. \A c \in DOMAIN got :
          /\ Remaining(q, pos, got, c) \subseteq got[c]
          /\ Remaining(q, pos, got, c) \cap Sampled(q, pos, got) = {}
  BY SamplingPartitions
<1>4. /\ \A p \in Gathered(got) :
            \/ p \in Sampled(q, pos, got)
            \/ \E c \in DOMAIN got : p \in Remaining(q, pos, got, c)
      /\ Sampled(q, pos, got) \subseteq Gathered(got)
  BY <1>2
<1>5. Gathered(got) = UNION {got[c] : c \in DOMAIN got}
  BY DEF Gathered
<1>6. ASSUME NEW p \in Sampled(q, pos, got)
      PROVE  \E c \in Keys : c # Root /\ Parent(c) = q /\ p \in nodes[c]
  <2>1. p \in Gathered(got)
    BY <1>4
  <2>2. PICK c \in DOMAIN got : p \in got[c]
    BY <1>5, <2>1
  <2> QED
    BY <1>1, <2>2
<1>7. ASSUME NEW c \in Keys, c # Root, Parent(c) = q, NEW p \in nodes[c]
      PROVE  \/ p \in Sampled(q, pos, got)
             \/ \E e \in Keys : /\ e # Root /\ Parent(e) = q /\ nodes[e] # {}
                               /\ p \in Remaining(q, pos, got, e)
  <2>1. c \in DOMAIN got /\ got[c] = nodes[c]
    BY <1>1, <1>7
  <2>2. p \in Gathered(got)
    BY <1>5, <2>1
  <2> QED
    BY <1>1, <1>4, <2>2
<1>8. \A c \in Keys : c # Root /\ Parent(c) = q /\ nodes[c] # {} =>
         /\ Remaining(q, pos, got, c) \subseteq nodes[c]
         /\ Remaining(q, pos, got, c) \cap Sampled(q, pos, got) = {}
  BY <1>1, <1>3
<1> QED
  BY <1>6, <1>7, <1>8

\* A level of the bottom-up pass: what it does to the nodes of the subtree.
LEMMA SampleLevelNodes ==
    ASSUME IInv, NEW r \in Keys, SampleLevel(r)
    PROVE  LET nodes == tree[r].nodes
               t     == tree'[r]
           IN  /\ tree' = [tree EXCEPT ![r] = t]
               /\ UNCHANGED <<fixed, chunkFile, job, spill, store, merge, task, phase,
                              result>>
               /\ t \in Trees /\ Len(r) <= t.level
               /\ \/ t.at = "writing" /\ t.nodes = nodes
                  \/ /\ t.at = "sampling" /\ tree[r].level = t.level + 1
                     /\ \A k \in Keys : Len(k) = tree[r].level /\ nodes[k] # {} =>
                           t.nodes[k] = Remaining(Parent(k), pos,
                                                  ChildrenIn(nodes, Parent(k)), k)
                     /\ \A k \in Keys : Len(k) = t.level
                                        /\ Sampled(k, pos, ChildrenIn(nodes, k)) # {} =>
                           t.nodes[k] = Sampled(k, pos, ChildrenIn(nodes, k))
                     /\ \A k \in Keys :
                           \/ t.nodes[k] = nodes[k]
                           \/ Len(k) = tree[r].level /\ nodes[k] # {}
                           \/ Len(k) = t.level /\ Sampled(k, pos, ChildrenIn(nodes, k)) # {}
<1> DEFINE nodes == tree[r].nodes
           d     == tree[r].level - 1
           Sample(k) == Sampled(k, pos, ChildrenIn(nodes, k))
           Rest(k) == Remaining(Parent(k), pos, ChildrenIn(nodes, Parent(k)), k)
           New(k) == IF Len(k) = d + 1 /\ nodes[k] # {} THEN Rest(k)
                     ELSE IF Len(k) = d /\ Sample(k) # {} THEN Sample(k) ELSE nodes[k]
           kept  == [at |-> "writing", level |-> tree[r].level, nodes |-> nodes]
           next  == [at |-> "sampling", level |-> d, nodes |-> [k \in Keys |-> New(k)]]
<1>1. /\ tree \in [Keys -> Trees] /\ tree[r].at = "sampling"
      /\ tree[r].level \in Nat /\ nodes \in [Keys -> SUBSET Points]
      /\ Len(r) <= tree[r].level /\ Len(r) \in Nat
  BY Typed, KeyLength DEF IInv, SampleLevel, LeavesApart, Trees
<1>2. /\ UNCHANGED <<fixed, chunkFile, job, spill, store, merge, task, phase, result>>
      /\ IF tree[r].level = Len(r) THEN tree' = [tree EXCEPT ![r] = kept]
         ELSE tree' = [tree EXCEPT ![r] = next]
  BY DEF SampleLevel
<1>3. CASE tree[r].level = Len(r)
  <2>1. kept \in Trees /\ tree'[r] = kept
    BY <1>1, <1>2, <1>3 DEF Trees
  <2> QED
    BY <1>1, <1>2, <1>3, <2>1
<1>4. CASE tree[r].level # Len(r)
  <2>1. d \in Nat /\ d + 1 = tree[r].level /\ Len(r) <= d
    BY <1>1, <1>4
  <2>2. \A k \in Keys : Sample(k) \subseteq Points
    BY <1>1, SampledFromChildren
  <2>3. \A k \in Keys : Len(k) = d + 1 /\ nodes[k] # {} => Rest(k) \subseteq Points
    <3>1. ASSUME NEW k \in Keys, Len(k) = d + 1, nodes[k] # {}
          PROVE  Rest(k) \subseteq nodes[k]
      <4>1. k # Root
        BY <2>1, <3>1, RootIsKey
      <4> QED
        BY <1>1, <3>1, <4>1, SampledFromChildren
    <3> QED
      BY <1>1, <3>1
  <2> HIDE DEF Sample, Rest, d
  <2>4. [k \in Keys |-> New(k)] \in [Keys -> SUBSET Points]
    BY <1>1, <2>2, <2>3
  <2>5. next \in Trees /\ next.at = "sampling" /\ next.level = d
        /\ \A k \in Keys : next.nodes[k] = New(k)
    <3> HIDE DEF New
    <3> QED
      BY <2>1, <2>4 DEF Trees
  <2>6. tree' = [tree EXCEPT ![r] = next] /\ tree'[r] = next
    <3> HIDE DEF next
    <3> QED
      BY <1>1, <1>2, <1>4
  <2>7. /\ \A k \in Keys : Len(k) = tree[r].level /\ nodes[k] # {} => New(k) = Rest(k)
        /\ \A k \in Keys : Len(k) = d /\ Sample(k) # {} => New(k) = Sample(k)
        /\ \A k \in Keys : \/ New(k) = nodes[k]
                           \/ Len(k) = tree[r].level /\ nodes[k] # {}
                           \/ Len(k) = d /\ Sample(k) # {}
    BY <2>1
  <2> HIDE DEF next, New
  <2>8. /\ \A k \in Keys : Len(k) = tree[r].level /\ nodes[k] # {} => next.nodes[k] = Rest(k)
        /\ \A k \in Keys : Len(k) = d /\ Sample(k) # {} => next.nodes[k] = Sample(k)
        /\ \A k \in Keys : \/ next.nodes[k] = nodes[k]
                           \/ Len(k) = tree[r].level /\ nodes[k] # {}
                           \/ Len(k) = d /\ Sample(k) # {}
    BY <2>5, <2>7
  <2> QED
    BY <1>2, <2>1, <2>5, <2>6, <2>8 DEF Sample, Rest
<1> QED
  BY <1>3, <1>4

\* A point of a sampled subtree was in the same node, or in one of its children.
LEMMA SampleLevelMoves ==
    ASSUME IInv, NEW r \in Keys, SampleLevel(r), tree'[r].at = "sampling",
           NEW k \in Keys, NEW p \in tree'[r].nodes[k]
    PROVE  \/ p \in tree[r].nodes[k]
           \/ /\ Len(k) = tree'[r].level
              /\ \E c \in Keys : /\ c # Root /\ Parent(c) = k /\ p \in tree[r].nodes[c]
                                 /\ Len(c) = tree[r].level /\ IsUnder(c, k)
<1> DEFINE nodes == tree[r].nodes
           t     == tree'[r]
<1>1. /\ nodes \in [Keys -> SUBSET Points]
  BY Typed DEF IInv, Trees
<1>2. /\ t \in Trees
      /\ tree[r].level = t.level + 1
      /\ \A m \in Keys : Len(m) = tree[r].level /\ nodes[m] # {} =>
             t.nodes[m] = Remaining(Parent(m), pos, ChildrenIn(nodes, Parent(m)), m)
      /\ \A m \in Keys : Len(m) = t.level /\ Sampled(m, pos, ChildrenIn(nodes, m)) # {} =>
             t.nodes[m] = Sampled(m, pos, ChildrenIn(nodes, m))
      /\ \A m \in Keys : \/ t.nodes[m] = nodes[m]
                         \/ Len(m) = tree[r].level /\ nodes[m] # {}
                         \/ Len(m) = t.level /\ Sampled(m, pos, ChildrenIn(nodes, m)) # {}
  BY SampleLevelNodes
<1>3. t.level \in Nat
  BY <1>2 DEF Trees
<1> HIDE DEF nodes, t
<1>4. CASE Len(k) = tree[r].level /\ nodes[k] # {}
  <2>1. k # Root
    BY <1>2, <1>3, <1>4, RootIsKey
  <2>2. t.nodes[k] \subseteq nodes[k]
    BY <1>1, <1>2, <1>4, <2>1, SampledFromChildren
  <2> QED
    BY <2>2 DEF nodes, t
<1>5. CASE Len(k) = t.level /\ Sampled(k, pos, ChildrenIn(nodes, k)) # {}
  <2>1. p \in Sampled(k, pos, ChildrenIn(nodes, k))
    BY <1>2, <1>5 DEF t
  <2>2. PICK c \in Keys : c # Root /\ Parent(c) = k /\ p \in nodes[c]
    BY <1>1, <2>1, SampledFromChildren
  <2>3. Len(c) = Len(k) + 1 /\ IsUnder(c, k)
    BY <2>2, ParentIsKey, KeyLength
  <2> QED
    BY <1>2, <1>5, <2>2, <2>3 DEF nodes, t
<1> QED
  BY <1>2, <1>4, <1>5 DEF nodes, t

\* A level of a subtree is sampled from the one below it.
LEMMA SampleLevelKeeps ==
    ASSUME IInv, NEW r \in Keys, SampleLevel(r)
    PROVE  IInv'
<1> DEFINE nodes == tree[r].nodes
           t     == tree'[r]
<1>1. /\ tree' = [tree EXCEPT ![r] = t]
      /\ UNCHANGED <<fixed, chunkFile, job, spill, store, merge, task, phase, result>>
      /\ t \in Trees /\ Len(r) <= t.level /\ t.level \in Nat
      /\ \/ t.at = "writing" /\ t.nodes = nodes
         \/ t.at = "sampling" /\ tree[r].level = t.level + 1
  BY SampleLevelNodes DEF Trees
<1>2. /\ TypeOK /\ nodes \in [Keys -> SUBSET Points] /\ tree[r].at = "sampling"
      /\ \A k \in Keys : nodes[k] # {} => IsUnder(k, r)
      /\ \A k \in Keys : \A p \in nodes[k] : LiesIn(p, k)
      /\ \A k, m \in Keys : nodes[k] # {} /\ nodes[m] # {} /\ IsUnder(m, k) /\ m # k =>
            Len(m) > tree[r].level
  BY Typed DEF IInv, SampleLevel, PointsInPlace, TreesInside, LeavesApart, Trees
<1>3. PICK c \in plan : IsUnder(r, c) /\ job[c].at = "building" /\ job[c].split = Len(r)
                        /\ (r # c => spill[r] # {})
  BY <1>2, TreeHome
<1>4. \A k \in Keys : IsUnder(k, r) => store[k] = {}
  BY <1>2, <1>3 DEF IInv, Unwritten
<1>5. CASE t.at = "writing" /\ t.nodes = nodes
  <2> HIDE DEF nodes, t
  <2>1. /\ \A k \in Keys : t.nodes[k] # {} => IsUnder(k, r)
        /\ \A k \in Keys : \A p \in t.nodes[k] : LiesIn(p, k)
    BY <1>2, <1>5
  <2> QED
    BY <1>1, <1>3, <1>4, <1>5, <2>1, TreeChanges
<1>6. CASE t.at = "sampling" /\ tree[r].level = t.level + 1
  <2>1. ASSUME NEW k \in Keys, NEW p \in t.nodes[k]
        PROVE  \/ p \in nodes[k]
               \/ /\ Len(k) = t.level
                  /\ \E e \in Keys : /\ e # Root /\ Parent(e) = k /\ p \in nodes[e]
                                     /\ Len(e) = t.level + 1 /\ IsUnder(e, k)
    BY <1>6, SampleLevelMoves
  <2> HIDE DEF nodes, t
  <2>2. ASSUME NEW k \in Keys, NEW p \in t.nodes[k]
        PROVE  IsUnder(k, r) /\ LiesIn(p, k)
    <3>1. CASE p \in nodes[k]
      BY <1>2, <3>1
    <3>2. ASSUME NEW e \in Keys, e # Root, Parent(e) = k, p \in nodes[e],
                 Len(e) = t.level + 1, IsUnder(e, k)
          PROVE  IsUnder(k, r) /\ LiesIn(p, k)
      <4>1. IsUnder(e, r) /\ e # r /\ LiesIn(p, e) /\ p \in Points
        BY <1>1, <1>2, <3>2, KeyLength
      <4> QED
        BY <1>2, <3>2, <4>1, UnderParent, LiesAbove
    <3> QED
      BY <2>1, <3>1, <3>2
  <2>3. ASSUME NEW k \in Keys, NEW m \in Keys, t.nodes[k] # {}, t.nodes[m] # {},
               IsUnder(m, k), m # k, Len(m) <= t.level
        PROVE  FALSE
    <3>1. Len(k) < Len(m) /\ Len(k) \in Nat /\ Len(m) \in Nat
      BY <2>3, UnderParent, KeyLength
    <3>2. nodes[k] # {}
      BY <1>1, <2>1, <2>3, <3>1
    <3>3. nodes[m] = {}
      BY <1>1, <1>2, <1>6, <2>3, <3>1, <3>2
    <3>4. PICK e \in Keys : nodes[e] # {} /\ Len(e) = t.level + 1 /\ IsUnder(e, m)
      BY <2>1, <2>3, <3>3
    <3>5. IsUnder(e, k) /\ e # k
      BY <1>1, <2>3, <3>1, <3>4, UnderTransitive
    <3> QED
      BY <1>1, <1>2, <1>6, <3>2, <3>4, <3>5
  <2>4. \A k, m \in Keys : t.nodes[k] # {} /\ t.nodes[m] # {} /\ IsUnder(m, k) /\ m # k =>
            Len(m) > t.level
    BY <1>1, <2>3, KeyLength
  <2> QED
    BY <1>1, <1>3, <1>4, <1>6, <2>2, <2>4, TreeChanges
<1> QED
  BY <1>1, <1>5, <1>6

-----------------------------------------------------------------------------
(* The chunks                                                               *)

\* A chunk that fits the budget is read and begun.
LEMMA BuildInMemoryKeeps ==
    ASSUME IInv, NEW c \in plan, BuildInMemory(c)
    PROVE  IInv'
<1> USE DEF fixed
<1> DEFINE t == Loaded(c, chunkFile[c])
           j == [at |-> "building", split |-> Len(c), made |-> {}]
<1>1. /\ TypeOK /\ SplitsBounded /\ c \in Keys /\ Len(c) \in Nat
      /\ tree \in [Keys -> Trees] /\ job \in [Keys -> Jobs]
      /\ chunkFile \in [Keys -> SUBSET Points]
      /\ job[c].at = "waiting" /\ phase = "building"
      /\ tree' = [tree EXCEPT ![c] = t] /\ job' = [job EXCEPT ![c] = j]
      /\ UNCHANGED <<fixed, chunkFile, spill, store, merge, task, phase, result>>
  BY Typed, PlanApart, KeyLength DEF IInv, BuildInMemory
<1>2. /\ tree'[c] = t /\ \A s \in Keys \ {c} : tree'[s] = tree[s]
      /\ job'[c] = j /\ \A d \in Keys \ {c} : job'[d] = job[d]
      /\ j \in Jobs
  BY <1>1 DEF Jobs
<1>3. \A p \in chunkFile[c] : LiesIn(p, c)
  <2>1. chunkFile[c] = Inside(Points, c)
    BY <1>1 DEF IInv, PointsInPlace
  <2> QED
    BY <2>1, InsideLies
<1>4. /\ t \in Trees /\ t.at \in {"built", "leaves"} /\ Len(c) <= t.level
      /\ \A k \in Keys : t.nodes[k] # {} => IsUnder(k, c) /\ t.at = "leaves"
      /\ \A k \in Keys : \A p \in t.nodes[k] : LiesIn(p, k)
      /\ \A k, m \in Keys : t.nodes[k] # {} /\ t.nodes[m] # {} /\ IsUnder(m, k) => m = k
  <2>1. /\ TypeOK /\ SplitsBounded /\ c \in Keys /\ IsUnder(c, c)
        /\ Len(c) <= Len(c) + SpillCap /\ chunkFile[c] \in SUBSET Points
    BY <1>1, UnderReflexive, OctreeBuildAssumption
  <2>2. /\ t \in Trees /\ t.at = (IF chunkFile[c] = {} THEN "built" ELSE "leaves")
        /\ t.level \in Nat /\ Len(c) <= t.level
        /\ \A k \in Keys : t.nodes[k] # {} => IsUnder(k, c) /\ t.at = "leaves"
        /\ \A k \in Keys : \A p \in t.nodes[k] : p \in chunkFile[c] /\ LiesIn(p, k)
        /\ \A k, m \in Keys : t.nodes[k] # {} /\ t.nodes[m] # {} /\ IsUnder(m, k)
                                => m = k
    BY <1>3, <2>1, LoadedFits
  <2> HIDE DEF t
  <2> QED
    BY <2>2
<1> HIDE DEF t
<1>5. \A k \in Keys : IsUnder(k, c) => store[k] = {}
  BY <1>1 DEF IInv, Unwritten
<1>6. /\ ~AllBuilt /\ ~AllBuilt' /\ \A o \in plan : MergesIn(o) <=> MergesIn(o)'
      /\ \A d \in plan : d # c => d \in Keys /\ ~IsUnder(c, d)
  BY <1>1, <1>2, PlanApart, UnderReflexive DEF AllBuilt, MergesIn
<1>7. TypeOK'
  <2>1. tree' \in [Keys -> Trees] /\ job' \in [Keys -> Jobs]
    BY <1>1, <1>2, <1>4
  <2> QED
    BY <1>1, <2>1 DEF TypeOK, Trees, Jobs
<1>8. PointsInPlace'
  BY <1>1, <1>2, <1>4, <1>6 DEF IInv, PointsInPlace, LiesIn, Inside
<1>9. SplitsBounded' /\ MadeOnly'
  BY <1>1, <1>2, <1>6, OctreeBuildAssumption DEF IInv, SplitsBounded, MadeOnly
<1>10. SpillsPlaced'
  BY <1>1, <1>2, <1>6 DEF IInv, SpillsPlaced
<1>11. TreesPlaced' /\ InMemoryBegun'
  BY <1>1, <1>2, <1>4, <1>6, UnderReflexive DEF IInv, TreesPlaced, InMemoryBegun
<1>12. TreesInside' /\ LeavesApart'
  <2>1. TreesInside'
    BY <1>1, <1>2, <1>4 DEF IInv, TreesInside
  <2>2. LeavesApart'
    BY <1>1, <1>2, <1>4 DEF IInv, LeavesApart
  <2> QED
    BY <2>1, <2>2
<1>13. Unwritten'
  <2>1. ASSUME NEW d \in plan, job'[d].at = "building"
        PROVE  /\ \A k \in Keys : IsUnder(k, d) /\ Len(k) < job'[d].split => store[k] = {}
               /\ \A s, k \in Keys :
                     /\ IsUnder(s, d) /\ Len(s) = job'[d].split /\ IsUnder(k, s)
                     /\ \/ tree'[s].at \in {"none", "leaves", "sampling"}
                        \/ tree'[s].nodes[k] # {}
                     => store[k] = {}
    <3>1. CASE d = c
      BY <1>5, <3>1, <1>1, UnderTransitive
    <3>2. CASE d # c
      BY <1>2, <1>6, <2>1, <3>2 DEF IInv, Unwritten
    <3> QED
      BY <3>1, <3>2
  <2>2. \A d \in plan : job'[d].at = "waiting" =>
           \A k \in Keys : IsUnder(k, d) => store[k] = {}
    BY <1>2, <1>6 DEF IInv, Unwritten
  <2> QED
    BY <1>1, <2>1, <2>2 DEF Unwritten
<1>14. TopsUnwritten'
  <2>1. \A o, k : Merged(o, k)' <=> Merged(o, k)
    BY <1>1 DEF Merged
  <2>2. \A d \in plan : job'[d].at = "merging" => job'[d] = job[d] /\ job[d].at = "merging"
    BY <1>1, <1>2, <1>6
  <2>3. \A d \in plan : job'[d].at = "merging" =>
           \A k \in Keys : IsUnder(k, d) /\ Len(k) < job'[d].split /\ store[k] # {} =>
              Merged(d, k)
    BY <2>2 DEF IInv, TopsUnwritten
  <2>4. \A k \in Keys : ~((\A d \in plan : ~IsUnder(k, d)) /\ store[k] # {})
    BY <1>6 DEF IInv, TopsUnwritten
  <2>5. plan' = plan /\ store' = store
    BY <1>1
  <2> QED
    BY <2>1, <2>3, <2>4, <2>5 DEF TopsUnwritten
<1>15. MergesPlaced'
  <2>1. /\ \A o \in Keys : MergesIn(o)' <=> MergesIn(o)
        /\ \A o \in plan : MergesIn(o) => job'[o] = job[o]
    BY <1>1, <1>2, <1>3, <1>6 DEF MergesIn
  <2>2. \A o \in Keys : ~MergesAll(o) /\ ~MergesAll(o)'
    BY <1>6 DEF MergesAll
  <2> QED
    BY <1>1, <2>1, <2>2 DEF IInv, MergesPlaced, MergesIn
<1>16. TasksPlaced' /\ TasksRead'
  BY <1>1 DEF IInv, TasksPlaced, TasksRead, Parents
<1> QED
  BY <1>7, <1>8, <1>9, <1>10, <1>11, <1>12, <1>13, <1>14, <1>15, <1>16 DEF IInv

\* A split level is below the chunk and within reach of its depth cap; every
\* sub-octant fits the budget unless it is the deepest level.
LEMMA SplitLevelIs ==
    ASSUME TypeOK, NEW c \in plan
    PROVE  /\ SplitLevel(c) \in Len(c) + 1 .. Len(c) + SpillCap
           /\ \/ SplitLevel(c) = Len(c) + SpillCap
              \/ \A k \in Keys : Len(k) = SplitLevel(c) =>
                    Cardinality(Inside(chunkFile[c], k)) <= Budget
<1> DEFINE candidates == Len(c) + 1 .. Len(c) + SpillCap
           Fits(l) == \A k \in Keys :
                         Len(k) = l => Cardinality(Inside(chunkFile[c], k)) <= Budget
           good == {l \in candidates : Fits(l) \/ l = Len(c) + SpillCap}
<1>1. Len(c) \in Nat /\ SpillCap \in Nat \ {0}
  BY PlanApart, KeyLength, OctreeBuildAssumption
<1> HIDE DEF Fits
<1>2. Len(c) + SpillCap \in good /\ good \subseteq Nat
  BY <1>1
<1>3. PICK l \in good : \A m \in good : l <= m
  BY <1>2, LeastNatural
<1>4. /\ l \in candidates /\ (Fits(l) \/ l = Len(c) + SpillCap)
      /\ \A m \in candidates : m < l => ~Fits(m)
  BY <1>1, <1>3
<1>5. SplitLevel(c) = CHOOSE n \in candidates :
                         /\ Fits(n) \/ n = Len(c) + SpillCap
                         /\ \A m \in candidates : m < n => ~Fits(m)
  BY DEF SplitLevel, Fits
<1> HIDE DEF candidates
<1>6. SplitLevel(c) \in candidates /\ (Fits(SplitLevel(c)) \/ SplitLevel(c) = Len(c) + SpillCap)
  BY <1>4, <1>5
<1> QED
  BY <1>6 DEF candidates, Fits

\* A chunk over the budget is divided into files.
LEMMA SpillChunkKeeps ==
    ASSUME IInv, NEW c \in plan, SpillChunk(c)
    PROVE  IInv'
<1> USE DEF fixed
<1> DEFINE split == SplitLevel(c)
           j == [at |-> "building", split |-> split, made |-> {}]
<1>1. /\ TypeOK /\ SplitsBounded /\ c \in Keys /\ Len(c) \in Nat
      /\ job \in [Keys -> Jobs] /\ spill \in [Keys -> SUBSET Points]
      /\ chunkFile \in [Keys -> SUBSET Points]
      /\ job[c].at = "waiting" /\ phase = "building"
      /\ job' = [job EXCEPT ![c] = j]
      /\ spill' = [k \in Keys |-> IF Len(k) = split /\ IsUnder(k, c)
                                  THEN Inside(chunkFile[c], k) ELSE spill[k]]
      /\ UNCHANGED <<fixed, chunkFile, tree, store, merge, task, phase, result>>
  BY Typed, PlanApart, KeyLength DEF IInv, SpillChunk
<1>2. split \in Nat /\ split > Len(c) /\ split \in Len(c) .. Len(c) + SpillCap
  BY <1>1, SplitLevelIs, OctreeBuildAssumption
<1> HIDE DEF split
<1>3. /\ job'[c] = j /\ \A d \in Keys \ {c} : job'[d] = job[d]
      /\ j \in Jobs
  BY <1>1, <1>2 DEF Jobs
<1>4. \A k \in Keys : \/ spill'[k] = spill[k]
                      \/ /\ Len(k) = split /\ IsUnder(k, c)
                         /\ spill'[k] \subseteq Points
                         /\ \A p \in spill'[k] : LiesIn(p, k)
  BY <1>1, InsideLies
<1>5. \A k \in Keys : IsUnder(k, c) => store[k] = {}
  BY <1>1 DEF IInv, Unwritten
<1>6. /\ ~AllBuilt /\ ~AllBuilt' /\ \A o \in plan : MergesIn(o) <=> MergesIn(o)'
      /\ \A d \in plan : d # c => d \in Keys /\ ~IsUnder(c, d)
  BY <1>1, <1>3, PlanApart, UnderReflexive DEF AllBuilt, MergesIn
<1>7. TypeOK'
  <2>1. spill' \in [Keys -> SUBSET Points] /\ job' \in [Keys -> Jobs]
    BY <1>1, <1>3 DEF Inside
  <2> QED
    BY <1>1, <2>1 DEF TypeOK, Jobs
<1>8. PointsInPlace'
  BY <1>1, <1>3, <1>4, <1>6 DEF IInv, PointsInPlace, LiesIn, Inside
<1>9. SplitsBounded' /\ MadeOnly'
  BY <1>1, <1>2, <1>3, <1>6 DEF IInv, SplitsBounded, MadeOnly
<1>10. SpillsPlaced'
  BY <1>1, <1>2, <1>3, <1>4, <1>6 DEF IInv, SpillsPlaced
<1>11. TreesPlaced'
  <2>1. ASSUME NEW r \in Keys, tree[r].at # "none"
        PROVE  \E d \in plan : /\ IsUnder(r, d) /\ job'[d].split = Len(r)
                               /\ job'[d].at # "waiting"
                               /\ job'[d].at # "building" => tree[r].at = "built"
                               /\ job'[d].at = "building" /\ r # d => spill'[r] # {}
    <3>1. PICK d \in plan : /\ IsUnder(r, d) /\ job[d].split = Len(r)
                            /\ job[d].at # "waiting"
                            /\ job[d].at # "building" => tree[r].at = "built"
                            /\ job[d].at = "building" /\ r # d => spill[r] # {}
      BY <2>1 DEF IInv, TreesPlaced
    <3>2. d # c /\ job'[d] = job[d] /\ ~IsUnder(r, c)
      BY <1>1, <1>3, <1>6, <3>1, PlanApart
    <3> QED
      BY <1>4, <3>1, <3>2
  <2> QED
    BY <1>1, <2>1 DEF TreesPlaced
<1>12. InMemoryBegun'
  BY <1>1, <1>2, <1>3, <1>6 DEF IInv, InMemoryBegun
<1>13. TreesInside' /\ LeavesApart'
  BY <1>1 DEF IInv, TreesInside, LeavesApart
<1>14. Unwritten'
  <2>1. ASSUME NEW d \in plan, job'[d].at = "building"
        PROVE  /\ \A k \in Keys : IsUnder(k, d) /\ Len(k) < job'[d].split => store[k] = {}
               /\ \A s, k \in Keys :
                     /\ IsUnder(s, d) /\ Len(s) = job'[d].split /\ IsUnder(k, s)
                     /\ \/ tree[s].at \in {"none", "leaves", "sampling"}
                        \/ tree[s].nodes[k] # {}
                     => store[k] = {}
    <3>1. CASE d = c
      BY <1>5, <3>1, <1>1, UnderTransitive
    <3>2. CASE d # c
      BY <1>3, <1>6, <2>1, <3>2 DEF IInv, Unwritten
    <3> QED
      BY <3>1, <3>2
  <2>2. \A d \in plan : job'[d].at = "waiting" =>
           \A k \in Keys : IsUnder(k, d) => store[k] = {}
    BY <1>3, <1>6 DEF IInv, Unwritten
  <2> QED
    BY <1>1, <2>1, <2>2 DEF Unwritten
<1>15. TopsUnwritten'
  <2>1. \A o, k : Merged(o, k)' <=> Merged(o, k)
    BY <1>1 DEF Merged
  <2>2. \A d \in plan : job'[d].at = "merging" => job'[d] = job[d] /\ job[d].at = "merging"
    BY <1>1, <1>3, <1>6
  <2>3. \A d \in plan : job'[d].at = "merging" =>
           \A k \in Keys : IsUnder(k, d) /\ Len(k) < job'[d].split /\ store[k] # {} =>
              Merged(d, k)
    BY <2>2 DEF IInv, TopsUnwritten
  <2>4. \A k \in Keys : ~((\A d \in plan : ~IsUnder(k, d)) /\ store[k] # {})
    BY <1>6 DEF IInv, TopsUnwritten
  <2>5. plan' = plan /\ store' = store
    BY <1>1
  <2> QED
    BY <2>1, <2>3, <2>4, <2>5 DEF TopsUnwritten
<1>16. MergesPlaced'
  <2>1. /\ \A o \in Keys : MergesIn(o)' <=> MergesIn(o)
        /\ \A o \in plan : MergesIn(o) => job'[o] = job[o]
    BY <1>1, <1>2, <1>3, <1>6 DEF MergesIn
  <2>2. \A o \in Keys : ~MergesAll(o) /\ ~MergesAll(o)'
    BY <1>6 DEF MergesAll
  <2> QED
    BY <1>1, <2>1, <2>2 DEF IInv, MergesPlaced, MergesIn
<1>17. TasksPlaced' /\ TasksRead'
  BY <1>1 DEF IInv, TasksPlaced, TasksRead, Parents
<1> QED
  BY <1>7, <1>8, <1>9, <1>10, <1>11, <1>12, <1>13, <1>14, <1>15, <1>16, <1>17 DEF IInv

\* Where the parents of a merge are: below the chunk it ends at, and above its
\* sub-octants; or, in the last merge, above the chunk roots.
LEMMA ParentsZone ==
    ASSUME TypeOK, MergesPlaced, NEW o \in Keys, merge[o].at # "none",
           merge[o].from > Len(o), NEW q \in Parents(o)
    PROVE  /\ q \in Keys /\ Len(q) + 1 = merge[o].from /\ Len(q) >= Len(o)
           /\ MergesIn(o) \/ MergesAll(o)
           /\ MergesIn(o) => IsUnder(q, o) /\ Len(q) < job[o].split
           /\ MergesAll(o) => \A d \in plan : ~IsUnder(q, d)
<1>1. /\ merge[o].from > Len(o) /\ Len(o) \in Nat /\ merge[o].from \in Nat
      /\ MergesIn(o) \/ MergesAll(o)
      /\ MergesIn(o) => \A k \in merge[o].keys : IsUnder(k, o) /\ Len(k) <= job[o].split
      /\ MergesAll(o) => \A k \in merge[o].keys : \E c \in plan : IsUnder(c, k)
      /\ merge[o].keys \subseteq Keys
  BY Typed, KeyLength DEF MergesPlaced, Merges
<1>2. PICK k \in merge[o].keys : Len(k) = merge[o].from /\ k # Root /\ q = Parent(k)
  BY DEF Parents
<1>3. k \in Keys /\ q \in Keys /\ Len(q) = Len(k) - 1 /\ IsUnder(k, q)
      /\ Len(k) \in Nat /\ Len(q) \in Nat
  BY <1>1, <1>2, ParentIsKey, KeyLength
<1>4. ASSUME MergesIn(o) PROVE IsUnder(q, o) /\ Len(q) < job[o].split
  <2>1. job[o].split \in Nat
    BY <1>4, Typed DEF Jobs, MergesIn
  <2>2. k # o /\ IsUnder(k, o) /\ Len(k) <= job[o].split
    BY <1>1, <1>2, <1>4
  <2> QED
    BY <1>2, <1>3, <2>1, <2>2, UnderParent
<1>5. ASSUME MergesAll(o), NEW d \in plan, IsUnder(q, d) PROVE FALSE
  <2>1. PICK c \in plan : IsUnder(c, k)
    BY <1>1, <1>2, <1>5
  <2>2. c \in Keys /\ d \in Keys
    BY PlanApart
  <2>3. IsUnder(c, d) /\ IsUnder(c, c)
    BY <1>3, <1>5, <2>1, <2>2, UnderTransitive, UnderReflexive
  <2>4. c = d
    BY <2>2, <2>3, PlanApart
  <2> QED
    BY <1>3, <1>5, <2>1, <2>2, <2>4, UnderLength, KeyLength
<1> QED
  BY <1>1, <1>2, <1>3, <1>4, <1>5

\* An open task works on its parent and the children of that.
LEMMA TaskZone ==
    ASSUME IInv, NEW q \in Keys, task[q].at # "none"
    PROVE  \E o \in Keys :
              /\ merge[o].at = "sampling" /\ q \in Parents(o)
              /\ Len(q) + 1 = merge[o].from /\ Len(q) >= Len(o)
              /\ MergesIn(o) \/ (MergesAll(o) /\ phase # "building")
              /\ MergesIn(o) => IsUnder(q, o) /\ Len(q) < job[o].split
              /\ MergesAll(o) => \A d \in plan : ~IsUnder(q, d)
<1>1. PICK o \in Keys : merge[o].at = "sampling" /\ q \in Parents(o)
  BY DEF IInv, TasksPlaced
<1>2. (MergesIn(o) \/ MergesAll(o)) /\ (phase = "building" => MergesIn(o))
  <2>1. MergesPlaced
    BY DEF IInv
  <2> QED
    BY <1>1, <2>1 DEF MergesPlaced
<1>3. /\ Len(q) + 1 = merge[o].from /\ Len(q) >= Len(o)
      /\ MergesIn(o) => IsUnder(q, o) /\ Len(q) < job[o].split
      /\ MergesAll(o) => \A d \in plan : ~IsUnder(q, d)
  <2>1. TypeOK /\ MergesPlaced /\ merge[o].from > Len(o)
    BY <1>1 DEF IInv, MergesPlaced
  <2> QED
    BY <1>1, <2>1, ParentsZone
<1> QED
  BY <1>1, <1>2, <1>3

\* A node of a subtree is written to the store.
LEMMA WriteNodeKeeps ==
    ASSUME IInv, NEW r \in Keys, NEW k \in WritesOf(r), WriteNode(r, k)
    PROVE  IInv'
<1> USE DEF fixed
<1>1. PICK c \in plan : IsUnder(r, c) /\ job[c].at = "building" /\ job[c].split = Len(r)
                        /\ (r # c => spill[r] # {})
  BY TreeHome DEF WritesOf
<1> DEFINE t == [at |-> "writing", level |-> tree[r].level,
                 nodes |-> [tree[r].nodes EXCEPT ![k] = {}]]
           j == [at |-> "building", split |-> job[c].split, made |-> job[c].made \cup {k}]
<1>2. /\ TypeOK /\ c \in Keys /\ k \in Keys
      /\ tree \in [Keys -> Trees] /\ job \in [Keys -> Jobs] /\ store \in [Keys -> SUBSET Points]
      /\ tree[r].at = "writing" /\ tree[r].nodes[k] # {} /\ phase = "building"
      /\ tree[r].nodes \in [Keys -> SUBSET Points]
      /\ IsUnder(k, r)
      /\ ChunkOf(r) = c
  BY <1>1, Typed, PlanApart, ChunkIs DEF IInv, WriteNode, WritesOf, Trees, TreesInside
<1>3. /\ tree' = [tree EXCEPT ![r] = t] /\ job' = [job EXCEPT ![c] = j]
      /\ store' = [store EXCEPT ![k] = tree[r].nodes[k]]
      /\ UNCHANGED <<fixed, chunkFile, spill, merge, task, phase, result>>
  BY <1>1, <1>2 DEF WriteNode
<1>4. /\ t \in Trees /\ j \in Jobs /\ t.at = "writing"
      /\ t.nodes[k] = {} /\ \A m \in Keys \ {k} : t.nodes[m] = tree[r].nodes[m]
      /\ j.at = "building" /\ j.split = job[c].split
      /\ j.made = job[c].made \cup {k}
  BY <1>2 DEF Trees, Jobs
<1>5. /\ tree'[r] = t /\ \A s \in Keys \ {r} : tree'[s] = tree[s]
      /\ job'[c] = j /\ \A d \in Keys \ {c} : job'[d] = job[d]
      /\ store'[k] = tree[r].nodes[k] /\ \A m \in Keys \ {k} : store'[m] = store[m]
  BY <1>2, <1>3
<1> HIDE DEF t, j
<1>6. /\ \A d \in plan : job'[d].at = job[d].at /\ job'[d].split = job[d].split
      /\ AllBuilt' = AllBuilt /\ \A o : MergesIn(o)' = MergesIn(o)
      /\ \A o, m : Merged(o, m)' = Merged(o, m)
  <2>1. \A d \in plan : job'[d].at = job[d].at /\ job'[d].split = job[d].split
    BY <1>1, <1>4, <1>5, PlanApart, <1>2
  <2> QED
    BY <1>3, <2>1 DEF AllBuilt, MergesIn, Merged
<1>7. IsUnder(k, c) /\ \A d \in plan : IsUnder(k, d) => d = c
  BY <1>1, <1>2, UnderTransitive, PlanApart
<1>8. /\ \A s, m \in Keys : tree'[s].nodes[m] # {} => tree'[s].nodes[m] = tree[s].nodes[m]
      /\ \A s \in Keys : tree'[s].at = tree[s].at
      /\ tree'[r].nodes[k] = {}
  BY <1>2, <1>4, <1>5
<1>9. TypeOK'
  <2>1. tree' \in [Keys -> Trees] /\ job' \in [Keys -> Jobs] /\ store' \in [Keys -> SUBSET Points]
    BY <1>2, <1>3, <1>4
  <2> QED
    BY <1>2, <1>3, <2>1 DEF TypeOK, Trees, Jobs
<1>10. PointsInPlace'
  <2>1. \A s, m \in Keys : \A p \in tree'[s].nodes[m] : LiesIn(p, m)
    BY <1>8 DEF IInv, PointsInPlace
  <2>2. \A m \in Keys : \A p \in store'[m] : LiesIn(p, m)
    BY <1>2, <1>5 DEF IInv, PointsInPlace
  <2> QED
    BY <1>3, <1>6, <2>1, <2>2 DEF IInv, PointsInPlace, LiesIn, Inside
<1>11. SplitsBounded' /\ SpillsPlaced'
  BY <1>3, <1>6 DEF IInv, SplitsBounded, SpillsPlaced
<1>12. TreesPlaced' /\ InMemoryBegun'
  <2>1. TreesPlaced'
    BY <1>3, <1>6, <1>8 DEF IInv, TreesPlaced
  <2>2. InMemoryBegun'
    BY <1>3, <1>6, <1>8, PlanApart, <1>2 DEF IInv, InMemoryBegun
  <2> QED
    BY <2>1, <2>2
<1>13. TreesInside'
  BY <1>8 DEF IInv, TreesInside
<1>14. LeavesApart'
  BY <1>4, <1>5 DEF IInv, LeavesApart
<1>15. Unwritten'
  <2>1. ASSUME NEW d \in plan, job[d].at = "waiting", NEW m \in Keys, IsUnder(m, d)
        PROVE  store'[m] = {}
    BY <1>1, <1>5, <1>7, <2>1 DEF IInv, Unwritten
  <2>2. ASSUME NEW d \in plan, job[d].at = "building", NEW m \in Keys, IsUnder(m, d),
               Len(m) < job[d].split
        PROVE  store'[m] = {}
    <3>1. m # k
      BY <1>1, <1>2, <1>7, <2>2, UnderLength, KeyLength
    <3> QED
      BY <1>5, <2>2, <3>1 DEF IInv, Unwritten
  <2>3. ASSUME NEW d \in plan, job[d].at = "building", NEW s \in Keys, NEW m \in Keys,
               IsUnder(s, d), Len(s) = job[d].split, IsUnder(m, s),
               tree'[s].at \in {"none", "leaves", "sampling"} \/ tree'[s].nodes[m] # {}
        PROVE  store'[m] = {}
    <3>1. m # k
      <4>1. ASSUME m = k PROVE FALSE
        <5>1. d \in Keys /\ IsUnder(k, d)
          BY <2>3, <4>1, PlanApart, <1>2, UnderTransitive
        <5>2. d = c /\ Len(s) = Len(r) /\ Len(r) \in Nat
          BY <1>1, <1>7, <2>3, <5>1, KeyLength
        <5>3. s = r
          BY <1>2, <2>3, <4>1, <5>2, UnderComparable, UnderLength
        <5> QED
          BY <1>4, <1>5, <2>3, <4>1, <5>3
      <4> QED
        BY <4>1
    <3>2. tree[s].at \in {"none", "leaves", "sampling"} \/ tree[s].nodes[m] # {}
      BY <1>8, <2>3
    <3> QED
      BY <1>5, <2>3, <3>1, <3>2 DEF IInv, Unwritten
  <2> QED
    BY <1>3, <1>6, <2>1, <2>2, <2>3 DEF Unwritten
<1>16. TopsUnwritten'
  <2>1. ASSUME NEW d \in plan, job[d].at = "merging", NEW m \in Keys, IsUnder(m, d),
               Len(m) < job[d].split, store'[m] # {}
        PROVE  Merged(d, m)
    BY <1>1, <1>5, <1>7, <2>1 DEF IInv, TopsUnwritten
  <2>2. ASSUME NEW m \in Keys, \A d \in plan : ~IsUnder(m, d), store'[m] # {}
        PROVE  AllBuilt /\ Merged(Root, m)
    BY <1>5, <1>7, <2>2 DEF IInv, TopsUnwritten
  <2> QED
    BY <1>3, <1>6, <2>1, <2>2 DEF TopsUnwritten
<1>17. MergesPlaced'
  BY <1>3, <1>6 DEF IInv, MergesPlaced, MergesAll, MergesIn
<1>18. TasksPlaced'
  BY <1>3 DEF IInv, TasksPlaced, Parents
<1>19. TasksRead'
  <2>1. ASSUME NEW q \in Keys, task[q].at = "open" PROVE k \notin task[q].unwritten
    <3>1. ASSUME k \in task[q].unwritten PROVE FALSE
      <4>1. k # Root /\ Parent(k) = q /\ IsUnder(k, q)
        BY <1>2, <2>1, <3>1, ParentIsKey DEF IInv, TasksRead
      <4>2. PICK o \in Keys : MergesIn(o) /\ IsUnder(q, o)
        BY <1>2, <2>1, TaskZone
      <4>3. IsUnder(k, o) /\ o \in plan /\ job[o].at = "merging"
        BY <1>2, <4>1, <4>2, UnderTransitive DEF MergesIn
      <4> QED
        BY <1>1, <1>7, <4>3
    <3> QED
      BY <3>1
  <2>2. \A q \in Keys : task[q].at = "open" =>
           \A m \in task[q].unwritten \ task[q].unread : task[q].got[m] = store'[m]
    <3>1. \A q \in Keys : task[q].unwritten \subseteq Keys
      BY <1>2, Typed DEF Tasks
    <3> QED
      BY <1>5, <2>1, <3>1 DEF IInv, TasksRead
  <2> QED
    BY <1>3, <2>2 DEF IInv, TasksRead
<1>20. MadeOnly'
  BY <1>2, <1>3, <1>4, <1>5, <1>7 DEF IInv, MadeOnly
<1> QED
  BY <1>9, <1>10, <1>11, <1>12, <1>13, <1>14, <1>15, <1>16, <1>17, <1>18, <1>19, <1>20 DEF IInv

-----------------------------------------------------------------------------
(* The merges                                                               *)

\* What changes only how far the build is keeps the invariant.
LEMMA PhaseChanges ==
    ASSUME IInv, UNCHANGED <<pos, plan, chunkFile, job, spill, tree, store, merge, task>>,
           phase' \in {"merging", "done", "failed"} \/ phase' = phase,
           result' \subseteq Keys \X Nat
    PROVE  IInv'
<1>1. TypeOK'
  BY DEF IInv, TypeOK
<1>2. PointsInPlace' /\ SplitsBounded' /\ SpillsPlaced' /\ TreesPlaced' /\ InMemoryBegun'
  BY DEF IInv, PointsInPlace, LiesIn, Inside, SplitsBounded, SpillsPlaced, TreesPlaced,
         InMemoryBegun
<1>3. TreesInside' /\ LeavesApart' /\ Unwritten' /\ TopsUnwritten'
  BY DEF IInv, TreesInside, LeavesApart, Unwritten, TopsUnwritten, Merged, AllBuilt
<1>4. MergesPlaced'
  BY DEF IInv, MergesPlaced, MergesIn, MergesAll, AllBuilt
<1>5. TasksPlaced' /\ TasksRead' /\ MadeOnly'
  BY DEF IInv, TasksPlaced, TasksRead, Parents, MadeOnly
<1> QED
  BY <1>1, <1>2, <1>3, <1>4, <1>5 DEF IInv

\* A merge under way in a chunk leaves the other chunks' merges alone, and so
\* does the last merge, which begins when they are over.
LEMMA ZonesApart ==
    ASSUME TypeOK, MergesPlaced, NEW o \in Keys, merge[o].at # "none",
           merge[o].from > Len(o), NEW q \in Parents(o)
    PROVE  /\ \A d \in plan : IsUnder(q, d) /\ job[d].at = "merging" => d = o
           /\ (\A d \in plan : ~IsUnder(q, d)) /\ AllBuilt => o = Root
<1>1. /\ q \in Keys
      /\ MergesIn(o) \/ MergesAll(o)
      /\ MergesIn(o) => IsUnder(q, o)
      /\ MergesAll(o) => \A d \in plan : ~IsUnder(q, d)
  BY ParentsZone
<1> QED
  BY <1>1, PlanApart DEF MergesIn, MergesAll

\* What a step of a merge keeps, when no chunk, file, subtree or node changes.
LEMMA MergeChanges ==
    ASSUME IInv,
           UNCHANGED <<fixed, chunkFile, job, spill, tree, store, phase, result>>,
           TypeOK',
           \A q, k \in Keys : \A p \in task'[q].got[k] : LiesIn(p, k),
           \A c \in plan : job[c].at = "merging" =>
              \A k \in Keys : IsUnder(k, c) /\ Merged(c, k) => Merged(c, k)',
           \A k \in Keys :
              (\A c \in plan : ~IsUnder(k, c)) /\ AllBuilt /\ Merged(Root, k)
                 => Merged(Root, k)',
           MergesPlaced', TasksPlaced', TasksRead'
    PROVE  IInv'
<1> USE DEF fixed
<1>1. PointsInPlace'
  BY DEF IInv, PointsInPlace, LiesIn, Inside
<1>2. SplitsBounded' /\ SpillsPlaced' /\ TreesPlaced' /\ InMemoryBegun'
  BY DEF IInv, SplitsBounded, SpillsPlaced, TreesPlaced, InMemoryBegun
<1>3. TreesInside' /\ LeavesApart' /\ Unwritten' /\ MadeOnly'
  BY DEF IInv, TreesInside, LeavesApart, Unwritten, MadeOnly
<1>4. TopsUnwritten'
  <2>1. ASSUME NEW c \in plan, job[c].at = "merging", NEW k \in Keys, IsUnder(k, c),
               Len(k) < job[c].split, store[k] # {}
        PROVE  Merged(c, k)'
    BY <2>1 DEF IInv, TopsUnwritten
  <2>2. ASSUME NEW k \in Keys, \A c \in plan : ~IsUnder(k, c), store[k] # {}
        PROVE  AllBuilt' /\ Merged(Root, k)'
    BY <2>2 DEF IInv, TopsUnwritten, AllBuilt
  <2> QED
    BY <2>1, <2>2 DEF TopsUnwritten
<1> QED
  BY <1>1, <1>2, <1>3, <1>4 DEF IInv

\* A merge takes up a level: its parents' tasks are free.
LEMMA StartLevelKeeps ==
    ASSUME IInv, NEW o \in Keys, StartLevel(o)
    PROVE  IInv'
<1> USE DEF fixed
<1>1. CASE phase' = "failed" /\ UNCHANGED <<merge, task>>
  <2>1. /\ UNCHANGED <<pos, plan, chunkFile, job, spill, tree, store, merge, task, result>>
        /\ phase' = "failed" /\ result \subseteq Keys \X Nat
    BY <1>1 DEF StartLevel, IInv, TypeOK
  <2> QED
    BY <2>1, PhaseChanges
<1>2. CASE /\ MergeGoes(o, "sampling", merge[o].from, {})
           /\ task' = OpenTasks(o)
           /\ UNCHANGED phase
  <2> DEFINE m == [at |-> "sampling", from |-> merge[o].from, stop |-> merge[o].stop,
                   keys |-> merge[o].keys \cup {}, made |-> merge[o].made \cup {}]
             Opened(q) == [at |-> "open", unread |-> ChildrenOf(o, q),
                           unwritten |-> ChildrenOf(o, q), got |-> NoPoints]
  <2>1. /\ TypeOK /\ MergesPlaced
        /\ merge \in [Keys -> Merges] /\ task \in [Keys -> Tasks]
        /\ merge[o].at = "grouping" /\ merge[o].from > merge[o].stop
        /\ merge[o].stop = Len(o)
        /\ merge' = [merge EXCEPT ![o] = m]
        /\ task' = [q \in Keys |-> IF q \in Parents(o) THEN Opened(q) ELSE task[q]]
        /\ UNCHANGED <<fixed, chunkFile, job, spill, tree, store, phase, result>>
    BY <1>2, Typed DEF StartLevel, MergeGoes, OpenTasks, IInv, MergesPlaced
  <2>2. /\ m \in Merges /\ m.at = "sampling" /\ m.from = merge[o].from
        /\ m.stop = merge[o].stop /\ m.keys = merge[o].keys /\ m.made = merge[o].made
    BY <2>1 DEF Merges
  <2>3. \A q : Opened(q) \in Tasks /\ Opened(q).at = "open"
               /\ Opened(q).unread = ChildrenOf(o, q) /\ Opened(q).unwritten = ChildrenOf(o, q)
               /\ Opened(q).got = NoPoints
    <3>1. \A q : ChildrenOf(o, q) \subseteq Keys
      BY <2>1 DEF ChildrenOf, Merges
    <3>2. NoPoints \in [Keys -> SUBSET Points]
      BY DEF NoPoints
    <3> QED
      BY <3>1, <3>2 DEF Tasks
  <2> HIDE DEF m, Opened
  <2>4. /\ merge'[o] = m /\ \A x \in Keys \ {o} : merge'[x] = merge[x]
        /\ \A q \in Keys : q \in Parents(o) => task'[q] = Opened(q)
        /\ \A q \in Keys : q \notin Parents(o) => task'[q] = task[q]
    BY <2>1
  <2>5. \A x \in Keys : Parents(x)' = Parents(x)
    BY <2>1, <2>2, <2>4 DEF Parents
  <2>6. TypeOK'
    <3>1. merge' \in [Keys -> Merges] /\ task' \in [Keys -> Tasks]
      BY <2>1, <2>2, <2>3
    <3> QED
      BY <2>1, <3>1 DEF TypeOK, Merges, Tasks
  <2>7. \A q, k \in Keys : \A p \in task'[q].got[k] : LiesIn(p, k)
    BY <2>3, <2>4 DEF IInv, PointsInPlace, NoPoints
  <2>8. \A q \in Parents(o) :
           /\ \A d \in plan : IsUnder(q, d) /\ job[d].at = "merging" => d = o
           /\ (\A d \in plan : ~IsUnder(q, d)) /\ AllBuilt => o = Root
    BY <2>1, ZonesApart
  <2>9. \A x \in Keys : \A k \in Keys :
           x = o \/ k \notin Parents(o) => (Merged(x, k) => Merged(x, k)')
    <3>1. \A k \in Keys : Merged(o, k) => Merged(o, k)'
      BY <2>1, <2>2, <2>4 DEF Merged
    <3>2. \A x \in Keys : \A k \in Keys :
             x # o /\ k \notin Parents(o) => (Merged(x, k) => Merged(x, k)')
      BY <2>4 DEF Merged
    <3> QED
      BY <3>1, <3>2
  <2>10. \A c \in plan : job[c].at = "merging" =>
            \A k \in Keys : IsUnder(k, c) /\ Merged(c, k) => Merged(c, k)'
    BY <2>1, <2>8, <2>9, PlanApart
  <2>11. \A k \in Keys :
            (\A c \in plan : ~IsUnder(k, c)) /\ AllBuilt /\ Merged(Root, k)
                => Merged(Root, k)'
    BY <2>8, <2>9, RootIsKey
  <2>12. MergesPlaced'
    BY <2>1, <2>2, <2>4 DEF MergesPlaced, MergesIn, MergesAll, AllBuilt
  <2>13. TasksPlaced'
    <3>1. ASSUME NEW q \in Keys, task'[q].at # "none"
          PROVE  \E x \in Keys : merge'[x].at = "sampling" /\ q \in Parents(x)
      BY <2>1, <2>2, <2>4, <3>1 DEF IInv, TasksPlaced
    <3> QED
      BY <2>5, <3>1 DEF TasksPlaced
  <2>14. TasksRead'
    <3>1. \A q \in Keys : q \in Parents(o) =>
             /\ task'[q].unread = task'[q].unwritten
             /\ \A k \in task'[q].unwritten : k # Root /\ Parent(k) = q
             /\ \A k \in Keys : task'[q].got[k] = {}
      <4>1. ASSUME NEW q \in Keys, q \in Parents(o)
            PROVE  /\ task'[q].unread = ChildrenOf(o, q)
                   /\ task'[q].unwritten = ChildrenOf(o, q) /\ task'[q].got = NoPoints
        BY <2>3, <2>4, <4>1
      <4>2. \A q \in Keys : \A k \in ChildrenOf(o, q) : k # Root /\ Parent(k) = q
        BY DEF ChildrenOf
      <4>3. \A k \in Keys : NoPoints[k] = {}
        BY DEF NoPoints
      <4> QED
        BY <4>1, <4>2, <4>3
    <3> QED
      BY <2>1, <2>4, <3>1 DEF IInv, TasksRead
  <2> QED
    BY <2>1, <2>6, <2>7, <2>10, <2>11, <2>12, <2>13, <2>14, MergeChanges
<1> QED
  BY <1>1, <1>2 DEF StartLevel

-----------------------------------------------------------------------------
(* The tasks                                                                *)

\* The tasks of a merge are all of one level, and merges lie apart: no task's
\* parent is a child of another's.
LEMMA TasksBeside ==
    ASSUME IInv, NEW q \in Keys, NEW s \in Keys, task[q].at # "none", task[s].at # "none",
           q # Root
    PROVE  Parent(q) # s
<1>1. TypeOK
  BY DEF IInv
<1>2. PICK o \in Keys :
         /\ Len(q) + 1 = merge[o].from
         /\ MergesIn(o) \/ MergesAll(o)
         /\ MergesIn(o) => IsUnder(q, o)
  BY TaskZone
<1>3. PICK x \in Keys :
         /\ Len(s) + 1 = merge[x].from
         /\ MergesIn(x) \/ MergesAll(x)
         /\ MergesIn(x) => IsUnder(s, x)
  BY TaskZone
<1>4. SUFFICES ASSUME Parent(q) = s PROVE FALSE
  OBVIOUS
<1>5. IsUnder(q, s) /\ Len(s) = Len(q) - 1 /\ Len(q) \in Nat /\ Len(s) \in Nat
  BY <1>4, ParentIsKey, KeyLength
<1>6. o = x
  <2>1. CASE MergesIn(o) /\ MergesIn(x)
    BY <1>1, <1>2, <1>3, <1>5, <2>1, UnderTransitive, PlanApart DEF MergesIn
  <2>2. CASE ~(MergesIn(o) /\ MergesIn(x))
    BY <1>2, <1>3, <2>2 DEF MergesIn, MergesAll, AllBuilt
  <2> QED
    BY <2>1, <2>2
<1> QED
  BY <1>2, <1>3, <1>5, <1>6

\* What a step of a task keeps, when it changes only the task.
LEMMA TaskChanges ==
    ASSUME IInv, NEW q \in Keys, NEW t \in Tasks, task[q].at = "open",
           task' = [task EXCEPT ![q] = t],
           UNCHANGED <<fixed, chunkFile, job, spill, tree, store, merge, phase, result>>,
           t.at \in {"open", "done"},
           \A k \in Keys : \A p \in t.got[k] : LiesIn(p, k),
           t.at = "open" =>
              /\ t.unread \subseteq t.unwritten
              /\ \A k \in t.unwritten : k # Root /\ Parent(k) = q
              /\ \A k \in Keys : t.got[k] # {} => k # Root /\ Parent(k) = q
              /\ \A k \in t.unwritten \ t.unread : t.got[k] = store[k]
              /\ t.unread # {} =>
                    \A k \in Keys : t.got[k] # {} => k \in t.unwritten \ t.unread
    PROVE  IInv'
<1> USE DEF fixed
<1>1. task \in [Keys -> Tasks] /\ TypeOK
  BY Typed DEF IInv
<1>2. /\ task' \in [Keys -> Tasks]
      /\ task'[q] = t /\ \A s \in Keys \ {q} : task'[s] = task[s]
  BY <1>1
<1>3. TypeOK'
  BY <1>1, <1>2 DEF TypeOK, Tasks
<1>4. \A s, k \in Keys : \A p \in task'[s].got[k] : LiesIn(p, k)
  BY <1>2 DEF IInv, PointsInPlace
<1>5. \A o : \A k \in Keys : Merged(o, k) => Merged(o, k)'
  BY <1>2 DEF Merged
<1>6. MergesPlaced'
  BY DEF IInv, MergesPlaced, MergesIn, MergesAll, AllBuilt
<1>7. TasksPlaced'
  <2>1. \A s \in Keys : task'[s].at # "none" => task[s].at # "none"
    BY <1>2
  <2> QED
    BY <2>1 DEF IInv, TasksPlaced, Parents
<1>8. TasksRead'
  BY <1>2 DEF IInv, TasksRead
<1> QED
  BY <1>3, <1>4, <1>5, <1>6, <1>7, <1>8, MergeChanges

\* A merge task reads a child from the store.
LEMMA ReadChildKeeps ==
    ASSUME IInv, NEW q \in Keys, NEW k \in task[q].unread, ReadChild(q, k)
    PROVE  IInv'
<1> DEFINE old == task[q]
           t == [at |-> "open", unread |-> old.unread \ {k}, unwritten |-> old.unwritten,
                 got |-> [old.got EXCEPT ![k] = store[k]]]
<1>1. /\ old \in Tasks /\ store \in [Keys -> SUBSET Points] /\ old.at = "open"
      /\ task' = [task EXCEPT ![q] = t]
      /\ UNCHANGED <<fixed, chunkFile, job, spill, tree, store, merge, phase, result>>
      /\ \A m \in Keys : \A p \in old.got[m] : LiesIn(p, m)
      /\ \A m \in Keys : \A p \in store[m] : LiesIn(p, m)
      /\ old.unread \subseteq old.unwritten
      /\ \A m \in old.unwritten : m # Root /\ Parent(m) = q
      /\ \A m \in Keys : old.got[m] # {} => m # Root /\ Parent(m) = q
      /\ \A m \in old.unwritten \ old.unread : old.got[m] = store[m]
      /\ old.unread # {} =>
            \A m \in Keys : old.got[m] # {} => m \in old.unwritten \ old.unread
  BY Typed DEF IInv, ReadChild, Working, PointsInPlace, TasksRead
<1>2. /\ old.unread \subseteq Keys /\ old.unwritten \subseteq Keys
      /\ old.got \in [Keys -> SUBSET Points] /\ k \in Keys
  BY <1>1 DEF Tasks
<1>3. /\ t \in Tasks /\ t.at = "open"
      /\ t.unread = old.unread \ {k} /\ t.unwritten = old.unwritten
      /\ t.got[k] = store[k] /\ \A m \in Keys \ {k} : t.got[m] = old.got[m]
  BY <1>1, <1>2 DEF Tasks
<1> HIDE DEF t, old
<1>4. \A m \in Keys : \A p \in t.got[m] : LiesIn(p, m)
  BY <1>1, <1>2, <1>3
<1>5. k \in old.unread
  BY DEF old
<1>6. /\ t.unread \subseteq t.unwritten
      /\ \A m \in t.unwritten : m # Root /\ Parent(m) = q
      /\ \A m \in Keys : t.got[m] # {} => m # Root /\ Parent(m) = q
      /\ \A m \in t.unwritten \ t.unread : t.got[m] = store[m]
      /\ t.unread # {} =>
            \A m \in Keys : t.got[m] # {} => m \in t.unwritten \ t.unread
  BY <1>1, <1>2, <1>3, <1>5
<1> QED
  BY <1>1, <1>3, <1>4, <1>6, TaskChanges DEF old

\* A task whose children are all empty has nothing to do.
LEMMA NothingToMergeKeeps ==
    ASSUME IInv, NEW q \in Keys, NothingToMerge(q)
    PROVE  IInv'
<1>1. /\ task[q].at = "open" /\ task' = [task EXCEPT ![q] = DoneTask]
      /\ UNCHANGED <<fixed, chunkFile, job, spill, tree, store, merge, phase, result>>
  BY DEF NothingToMerge, AllRead, Working
<1>2. DoneTask \in Tasks /\ DoneTask.at = "done" /\ \A k \in Keys : DoneTask.got[k] = {}
  BY DEF DoneTask, Tasks, NoPoints
<1> QED
  BY <1>1, <1>2, TaskChanges

\* What a step of a task keeps that writes a node: a child it gets back less
\* than it gave, or the parent, with which the task is done.
LEMMA TaskStores ==
    ASSUME IInv, NEW q \in Keys, NEW t \in Tasks, task[q].at = "open",
           NEW n \in Keys, NEW v \in SUBSET Points,
           task' = [task EXCEPT ![q] = t], store' = [store EXCEPT ![n] = v],
           UNCHANGED <<fixed, chunkFile, job, spill, tree, merge, phase, result>>,
           \A p \in v : LiesIn(p, n),
           \/ n # Root /\ Parent(n) = q /\ v \subseteq store[n]
           \/ n = q /\ t.at = "done",
           t.at \in {"open", "done"},
           \A k \in Keys : \A p \in t.got[k] : LiesIn(p, k),
           t.at = "open" =>
              /\ t.unread \subseteq t.unwritten
              /\ \A k \in t.unwritten : k # Root /\ Parent(k) = q
              /\ \A k \in Keys : t.got[k] # {} => k # Root /\ Parent(k) = q
              /\ \A k \in t.unwritten \ t.unread : t.got[k] = store'[k]
              /\ t.unread # {} =>
                    \A k \in Keys : t.got[k] # {} => k \in t.unwritten \ t.unread
    PROVE  IInv'
<1> USE DEF fixed
<1>1. task \in [Keys -> Tasks] /\ store \in [Keys -> SUBSET Points] /\ TypeOK
  BY Typed DEF IInv
<1>2. /\ task' \in [Keys -> Tasks] /\ store' \in [Keys -> SUBSET Points]
      /\ task'[q] = t /\ \A s \in Keys \ {q} : task'[s] = task[s]
      /\ store'[n] = v /\ \A k \in Keys \ {n} : store'[k] = store[k]
  BY <1>1
<1>3. PICK o \in Keys :
              /\ Len(q) + 1 = merge[o].from /\ merge[o].at = "sampling"
              /\ MergesIn(o) \/ MergesAll(o)
              /\ MergesIn(o) => IsUnder(q, o)
              /\ MergesAll(o) => \A d \in plan : ~IsUnder(q, d)
  BY TaskZone
<1>4. \A k \in Keys : store'[k] # {} => store[k] # {} \/ (k = q /\ t.at = "done")
  BY <1>2
<1>5. TypeOK'
  BY <1>1, <1>2 DEF TypeOK, Tasks
<1>6. PointsInPlace'
  <2>1. \A s, k \in Keys : \A p \in task'[s].got[k] : LiesIn(p, k)
    BY <1>2 DEF IInv, PointsInPlace
  <2>2. \A k \in Keys : \A p \in store'[k] : LiesIn(p, k)
    BY <1>2 DEF IInv, PointsInPlace
  <2>3. \A d \in plan' : job'[d].at # "built" => chunkFile'[d] = Inside(Points, d)'
    BY DEF IInv, PointsInPlace, Inside
  <2>4. \A r, k \in Keys : \A p \in tree'[r].nodes[k] : LiesIn(p, k)'
    BY DEF IInv, PointsInPlace, LiesIn
  <2>5. \A k \in Keys : \A p \in spill'[k] : LiesIn(p, k)'
    BY DEF IInv, PointsInPlace, LiesIn
  <2>6. \A p, k : LiesIn(p, k)' <=> LiesIn(p, k)
    BY DEF LiesIn
  <2> QED
    BY <2>1, <2>2, <2>3, <2>4, <2>5, <2>6 DEF PointsInPlace
<1>7. SplitsBounded' /\ SpillsPlaced' /\ TreesPlaced' /\ InMemoryBegun'
  BY DEF IInv, SplitsBounded, SpillsPlaced, TreesPlaced, InMemoryBegun
<1>8. TreesInside' /\ LeavesApart' /\ MadeOnly'
  BY DEF IInv, TreesInside, LeavesApart, MadeOnly
<1>9. \A d \in plan : IsUnder(q, d) => job[d].at = "merging" /\ d = o
  BY <1>1, <1>3, PlanApart DEF MergesIn, MergesAll
<1>10. Unwritten'
  <2>1. ASSUME NEW d \in plan, job[d].at = "waiting", NEW k \in Keys, IsUnder(k, d)
        PROVE  store'[k] = {}
    BY <1>4, <1>9, <2>1 DEF IInv, Unwritten
  <2>2. ASSUME NEW d \in plan, job[d].at = "building", NEW k \in Keys, IsUnder(k, d),
               Len(k) < job[d].split
        PROVE  store'[k] = {}
    BY <1>4, <1>9, <2>2 DEF IInv, Unwritten
  <2>3. ASSUME NEW d \in plan, job[d].at = "building", NEW s \in Keys, NEW k \in Keys,
               IsUnder(s, d), Len(s) = job[d].split, IsUnder(k, s),
               tree[s].at \in {"none", "leaves", "sampling"} \/ tree[s].nodes[k] # {}
        PROVE  store'[k] = {}
    <3>1. IsUnder(k, d)
      BY <1>1, <2>3, PlanApart, UnderTransitive
    <3> QED
      BY <1>4, <1>9, <2>3, <3>1 DEF IInv, Unwritten
  <2> QED
    BY <2>1, <2>2, <2>3 DEF Unwritten
<1>11. TopsUnwritten'
  <2>1. \A x, k \in Keys : Merged(x, k) => Merged(x, k)'
    BY <1>2 DEF Merged
  <2>2. t.at = "done" => Merged(o, q)'
    BY <1>2, <1>3 DEF Merged
  <2>3. ASSUME NEW d \in plan, job[d].at = "merging", NEW k \in Keys, IsUnder(k, d),
               Len(k) < job[d].split, store'[k] # {}
        PROVE  Merged(d, k)'
    <3>1. CASE store[k] # {}
      BY <1>1, <2>1, <2>3, <3>1, PlanApart DEF IInv, TopsUnwritten
    <3>2. CASE k = q /\ t.at = "done"
      BY <1>9, <2>2, <2>3, <3>2
    <3> QED
      BY <1>4, <2>3, <3>1, <3>2
  <2>4. ASSUME NEW k \in Keys, \A d \in plan : ~IsUnder(k, d), store'[k] # {}
        PROVE  AllBuilt' /\ Merged(Root, k)'
    <3>1. AllBuilt' = AllBuilt
      BY DEF AllBuilt
    <3>2. CASE store[k] # {}
      BY <2>1, <2>4, <3>1, <3>2, RootIsKey DEF IInv, TopsUnwritten
    <3>3. CASE k = q /\ t.at = "done"
      BY <1>3, <2>2, <2>4, <3>1, <3>3 DEF MergesIn, MergesAll
    <3> QED
      BY <1>4, <2>4, <3>2, <3>3
  <2> QED
    BY <2>3, <2>4 DEF TopsUnwritten
<1>12. MergesPlaced'
  BY DEF IInv, MergesPlaced, MergesIn, MergesAll, AllBuilt
<1>13. TasksPlaced'
  <2>1. \A s \in Keys : task'[s].at # "none" => task[s].at # "none"
    BY <1>2
  <2> QED
    BY <2>1 DEF IInv, TasksPlaced, Parents
<1>14. TasksRead'
  <2>1. ASSUME NEW s \in Keys, s # q, task[s].at = "open" PROVE n \notin task[s].unwritten
    BY <2>1, TasksBeside DEF IInv, TasksRead
  <2>2. \A s \in Keys : task[s].unwritten \subseteq Keys
    BY <1>1 DEF Tasks
  <2>3. \A s \in Keys : s # q /\ task[s].at = "open" =>
           \A k \in task[s].unwritten \ task[s].unread : task[s].got[k] = store'[k]
    BY <1>2, <2>1, <2>2 DEF IInv, TasksRead
  <2> QED
    BY <1>2, <2>3 DEF IInv, TasksRead
<1> QED
  BY <1>5, <1>6, <1>7, <1>8, <1>10, <1>11, <1>12, <1>13, <1>14 DEF IInv

\* What a task samples is what it read from its children.
LEMMA TaskSamples ==
    ASSUME NEW q, NEW got \in [Keys -> SUBSET Points]
    PROVE  /\ \A p \in Sampled(q, pos, got) : \E k \in Keys : p \in got[k]
           /\ \A k \in Keys : /\ Remaining(q, pos, got, k) \subseteq got[k]
                              /\ Remaining(q, pos, got, k) \cap Sampled(q, pos, got) = {}
           /\ \A k \in Keys : \A p \in got[k] :
                 \/ p \in Sampled(q, pos, got)
                 \/ \E m \in Keys : p \in Remaining(q, pos, got, m)
<1>1. DOMAIN got = Keys
  OBVIOUS
<1>2. Gathered(got) = Sampled(q, pos, got)
            \cup UNION {Remaining(q, pos, got, k) : k \in DOMAIN got}
  BY SamplingPartitions
<1>3. \A k \in DOMAIN got : /\ Remaining(q, pos, got, k) \subseteq got[k]
                            /\ Remaining(q, pos, got, k) \cap Sampled(q, pos, got) = {}
  BY SamplingPartitions
<1>4. Gathered(got) = UNION {got[k] : k \in DOMAIN got}
  BY DEF Gathered
<1>5. ASSUME NEW p \in Sampled(q, pos, got) PROVE \E k \in Keys : p \in got[k]
  <2>1. p \in Gathered(got)
    BY <1>2
  <2> QED
    BY <1>1, <1>4, <2>1
<1>6. ASSUME NEW k \in Keys, NEW p \in got[k]
      PROVE  \/ p \in Sampled(q, pos, got)
             \/ \E m \in Keys : p \in Remaining(q, pos, got, m)
  <2>1. p \in Gathered(got)
    BY <1>1, <1>4
  <2> QED
    BY <1>1, <1>2, <2>1
<1> QED
  BY <1>1, <1>3, <1>5, <1>6

\* A merge task writes back what is left of a child.
LEMMA RewriteChildKeeps ==
    ASSUME IInv, NEW q \in Keys, NEW k \in task[q].unwritten, RewriteChild(q, k)
    PROVE  IInv'
<1> DEFINE old == task[q]
           v == Remaining(q, pos, old.got, k)
           t == [at |-> "open", unread |-> {}, unwritten |-> old.unwritten \ {k},
                 got |-> old.got]
<1>1. /\ old \in Tasks /\ store \in [Keys -> SUBSET Points] /\ old.at = "open"
      /\ old.unread = {}
      /\ task' = [task EXCEPT ![q] = t] /\ store' = [store EXCEPT ![k] = v]
      /\ UNCHANGED <<fixed, chunkFile, job, spill, tree, merge, phase, result>>
      /\ \A m \in Keys : \A p \in old.got[m] : LiesIn(p, m)
      /\ \A m \in old.unwritten : m # Root /\ Parent(m) = q
      /\ \A m \in Keys : old.got[m] # {} => m # Root /\ Parent(m) = q
      /\ \A m \in old.unwritten \ old.unread : old.got[m] = store[m]
  BY Typed DEF IInv, RewriteChild, ChildRewritten, AllRead, Working, PointsInPlace, TasksRead
<1>2. /\ old.unwritten \subseteq Keys /\ old.got \in [Keys -> SUBSET Points] /\ k \in Keys
  BY <1>1 DEF Tasks
<1>3. /\ t \in Tasks /\ t.at = "open" /\ t.unread = {}
      /\ t.unwritten = old.unwritten \ {k} /\ t.got = old.got
  BY <1>1, <1>2 DEF Tasks
<1>4. k \in old.unwritten
  OBVIOUS
<1>5. v \subseteq old.got[k] /\ old.got[k] = store[k]
  BY <1>1, <1>2, <1>4, TaskSamples
<1> HIDE DEF t, old, v
<1>6. v \in SUBSET Points /\ \A p \in v : LiesIn(p, k)
  BY <1>1, <1>2, <1>5
<1>7. \A m \in t.unwritten \ t.unread : t.got[m] = store'[m]
  BY <1>1, <1>2, <1>3
<1>8. /\ t.unread \subseteq t.unwritten
      /\ \A m \in t.unwritten : m # Root /\ Parent(m) = q
      /\ \A m \in Keys : t.got[m] # {} => m # Root /\ Parent(m) = q
      /\ \A m \in Keys : \A p \in t.got[m] : LiesIn(p, m)
      /\ k # Root /\ Parent(k) = q /\ v \subseteq store[k]
  BY <1>1, <1>3, <1>4, <1>5
<1>9. /\ t.unread # {} => \A m \in Keys : t.got[m] # {} => m \in t.unwritten \ t.unread
      /\ t \in Tasks /\ t.at \in {"open", "done"} /\ k \in Keys /\ task[q].at = "open"
  BY <1>1, <1>2, <1>3 DEF old
<1>10. /\ task' = [task EXCEPT ![q] = t] /\ store' = [store EXCEPT ![k] = v]
       /\ UNCHANGED <<fixed, chunkFile, job, spill, tree, merge, phase, result>>
  BY <1>1
<1>11. t.at = "open" =>
              /\ t.unread \subseteq t.unwritten
              /\ \A m \in t.unwritten : m # Root /\ Parent(m) = q
              /\ \A m \in Keys : t.got[m] # {} => m # Root /\ Parent(m) = q
              /\ \A m \in t.unwritten \ t.unread : t.got[m] = store'[m]
              /\ t.unread # {} =>
                    \A m \in Keys : t.got[m] # {} => m \in t.unwritten \ t.unread
  BY <1>7, <1>8, <1>9
<1>12. /\ \/ k # Root /\ Parent(k) = q /\ v \subseteq store[k]
          \/ k = q /\ t.at = "done"
       /\ \A m \in Keys : \A p \in t.got[m] : LiesIn(p, m)
  BY <1>8
<1> QED
  BY <1>6, <1>9, <1>10, <1>11, <1>12, TaskStores

\* A merge task writes the node it sampled.
LEMMA WriteParentKeeps ==
    ASSUME IInv, NEW q \in Keys, WriteParent(q)
    PROVE  IInv'
<1> DEFINE old == task[q]
           v == Sampled(q, pos, old.got)
<1>1. /\ old \in Tasks /\ store \in [Keys -> SUBSET Points] /\ old.at = "open" /\ TypeOK
      /\ task' = [task EXCEPT ![q] = DoneTask]
      /\ store' = IF v = {} THEN store ELSE [store EXCEPT ![q] = v]
      /\ UNCHANGED <<fixed, chunkFile, job, spill, tree, merge, phase, result>>
      /\ \A m \in Keys : \A p \in old.got[m] : LiesIn(p, m)
      /\ \A m \in Keys : old.got[m] # {} => m # Root /\ Parent(m) = q
  BY Typed DEF IInv, WriteParent, AllRead, Working, PointsInPlace, TasksRead
<1>2. old.got \in [Keys -> SUBSET Points]
  BY <1>1 DEF Tasks
<1>3. DoneTask \in Tasks /\ DoneTask.at = "done" /\ \A k \in Keys : DoneTask.got[k] = {}
  BY DEF DoneTask, Tasks, NoPoints
<1>4. ASSUME NEW p \in v PROVE p \in Points /\ LiesIn(p, q)
  <2>1. PICK m \in Keys : p \in old.got[m]
    BY <1>2, <1>4, TaskSamples
  <2>2. p \in Points /\ LiesIn(p, m) /\ IsUnder(m, q)
    BY <1>1, <1>2, <2>1, ParentIsKey
  <2> QED
    BY <1>1, <2>2, LiesAbove
<1> HIDE DEF old, v
<1>5. CASE v = {}
  BY <1>1, <1>3, <1>5, TaskChanges DEF old
<1>6. CASE v # {}
  <2>1. v \in SUBSET Points /\ \A p \in v : LiesIn(p, q)
    BY <1>4
  <2> QED
    BY <1>1, <1>3, <1>6, <2>1, TaskStores DEF old
<1> QED
  BY <1>5, <1>6

\* A merge has done a level and goes up to the next.
LEMMA EndLevelKeeps ==
    ASSUME IInv, NEW o \in Keys, EndLevel(o)
    PROVE  IInv'
<1> USE DEF fixed
<1> DEFINE m == [at |-> "grouping", from |-> merge[o].from - 1, stop |-> merge[o].stop,
                 keys |-> merge[o].keys \cup Parents(o),
                 made |-> merge[o].made \cup Parents(o)]
<1>1. /\ TypeOK /\ MergesPlaced
      /\ merge \in [Keys -> Merges] /\ task \in [Keys -> Tasks]
      /\ merge[o].at = "sampling" /\ merge[o].from > Len(o) /\ merge[o].stop = Len(o)
      /\ merge[o].from \in Nat /\ Len(o) \in Nat
      /\ merge' = [merge EXCEPT ![o] = m]
      /\ task' = [q \in Keys |-> IF q \in Parents(o) THEN NoTask ELSE task[q]]
      /\ UNCHANGED <<fixed, chunkFile, job, spill, tree, store, phase, result>>
  BY Typed, KeyLength DEF EndLevel, MergeGoes, IInv, MergesPlaced, Merges
<1>2. \A q \in Parents(o) :
         /\ q \in Keys /\ Len(q) + 1 = merge[o].from
         /\ MergesIn(o) => IsUnder(q, o) /\ Len(q) < job[o].split
         /\ \A d \in plan : IsUnder(q, d) /\ job[d].at = "merging" => d = o
         /\ (\A d \in plan : ~IsUnder(q, d)) /\ AllBuilt => o = Root
  BY <1>1, ParentsZone, ZonesApart
<1>3. /\ m \in Merges /\ m.at = "grouping" /\ m.from = merge[o].from - 1
      /\ m.stop = merge[o].stop /\ m.keys = merge[o].keys \cup Parents(o)
      /\ m.made = merge[o].made \cup Parents(o)
  BY <1>1, <1>2 DEF Merges
<1>4. NoTask \in Tasks /\ NoTask.at = "none" /\ \A k \in Keys : NoTask.got[k] = {}
  BY DEF NoTask, Tasks, NoPoints
<1> HIDE DEF m
<1>5. /\ merge'[o] = m /\ \A x \in Keys \ {o} : merge'[x] = merge[x]
      /\ \A q \in Keys : q \in Parents(o) => task'[q] = NoTask
      /\ \A q \in Keys : q \notin Parents(o) => task'[q] = task[q]
  BY <1>1
<1>6. TypeOK'
  <2>1. merge' \in [Keys -> Merges] /\ task' \in [Keys -> Tasks]
    BY <1>1, <1>3, <1>4
  <2> QED
    BY <1>1, <2>1 DEF TypeOK, Merges, Tasks
<1>7. \A q, k \in Keys : \A p \in task'[q].got[k] : LiesIn(p, k)
  BY <1>4, <1>5 DEF IInv, PointsInPlace
<1>8. \A x \in Keys : \A k \in Keys :
         x = o \/ k \notin Parents(o) => (Merged(x, k) => Merged(x, k)')
  <2>1. ASSUME NEW k \in Keys, Merged(o, k) PROVE Merged(o, k)'
    <3>1. Len(k) \in Nat /\ Len(k) >= merge[o].from - 1
      BY <1>1, <2>1, KeyLength DEF Merged
    <3> QED
      BY <1>3, <1>5, <3>1 DEF Merged
  <2>2. \A x \in Keys : \A k \in Keys :
           x # o /\ k \notin Parents(o) => (Merged(x, k) => Merged(x, k)')
    BY <1>5 DEF Merged
  <2> QED
    BY <2>1, <2>2
<1>9. \A c \in plan : job[c].at = "merging" =>
         \A k \in Keys : IsUnder(k, c) /\ Merged(c, k) => Merged(c, k)'
  BY <1>1, <1>2, <1>8, PlanApart
<1>10. \A k \in Keys :
          (\A c \in plan : ~IsUnder(k, c)) /\ AllBuilt /\ Merged(Root, k)
              => Merged(Root, k)'
  BY <1>2, <1>8, RootIsKey
<1>11. MergesPlaced'
  <2>1. MergesIn(o) => \A k \in m.keys : IsUnder(k, o) /\ Len(k) <= job[o].split
    <3>1. ASSUME MergesIn(o), NEW k \in Parents(o)
          PROVE  IsUnder(k, o) /\ Len(k) <= job[o].split
      BY <1>1, <1>2, <3>1, Typed, KeyLength DEF MergesIn, Jobs
    <3> QED
      BY <1>1, <1>3, <3>1 DEF MergesPlaced
  <2>2. MergesAll(o) => \A k \in m.keys : \E c \in plan : IsUnder(c, k)
    <3>1. ASSUME MergesAll(o), NEW q \in Parents(o)
          PROVE  \E c \in plan : IsUnder(c, q)
      <4>1. PICK k \in merge[o].keys : k # Root /\ q = Parent(k)
        BY DEF Parents
      <4>2. k \in Keys
        BY <1>1 DEF Merges
      <4>3. q \in Keys /\ IsUnder(k, q)
        BY <4>1, <4>2, ParentIsKey
      <4>4. PICK c \in plan : IsUnder(c, k)
        BY <1>1, <3>1, <4>1 DEF MergesPlaced
      <4>5. c \in Keys
        BY <1>1, PlanApart
      <4> QED
        BY <4>2, <4>3, <4>4, <4>5, UnderTransitive
    <3> QED
      BY <1>1, <1>3, <3>1 DEF MergesPlaced
  <2>3. MergesIn(o) \/ MergesAll(o)
    BY <1>1 DEF MergesPlaced
  <2>4. /\ \A x : MergesIn(x)' = MergesIn(x)
        /\ \A x : MergesAll(x)' = MergesAll(x)
    BY <1>1 DEF MergesIn, MergesAll, AllBuilt
  <2>5. /\ m.stop = Len(o) /\ m.from >= Len(o) /\ m.made \subseteq m.keys
        /\ phase = "building" => MergesIn(o)
    BY <1>1, <1>3 DEF MergesPlaced
  <2>6. ASSUME NEW x \in Keys, merge'[x].at # "none"
        PROVE  /\ MergesIn(x) \/ MergesAll(x)
               /\ phase = "building" => MergesIn(x)
               /\ merge'[x].stop = Len(x) /\ merge'[x].from >= Len(x)
               /\ merge'[x].made \subseteq merge'[x].keys
               /\ merge'[x].at = "sampling" => merge'[x].from > Len(x)
               /\ MergesIn(x) =>
                     \A k \in merge'[x].keys : IsUnder(k, x) /\ Len(k) <= job[x].split
               /\ MergesAll(x) => \A k \in merge'[x].keys : \E c \in plan : IsUnder(c, k)
    <3>1. CASE x = o
      BY <1>3, <1>5, <2>1, <2>2, <2>3, <2>5, <3>1
    <3>2. CASE x # o
      BY <1>1, <1>5, <2>6, <3>2 DEF MergesPlaced
    <3> QED
      BY <3>1, <3>2
  <2> QED
    BY <1>1, <2>4, <2>6 DEF MergesPlaced
<1>12. TasksPlaced'
  <2>1. ASSUME NEW q \in Keys, task'[q].at # "none"
        PROVE  \E x \in Keys : merge'[x].at = "sampling" /\ q \in Parents(x)'
    <3>1. q \notin Parents(o) /\ task[q].at # "none"
      BY <1>4, <1>5, <2>1
    <3>2. PICK x \in Keys : merge[x].at = "sampling" /\ q \in Parents(x)
      BY <3>1 DEF IInv, TasksPlaced
    <3> QED
      BY <1>5, <3>1, <3>2 DEF Parents
  <2> QED
    BY <2>1 DEF TasksPlaced
<1>13. TasksRead'
  BY <1>1, <1>4, <1>5 DEF IInv, TasksRead
<1> QED
  BY <1>1, <1>6, <1>7, <1>9, <1>10, <1>11, <1>12, <1>13, MergeChanges

\* A merge has come to its top.
LEMMA EndMergeKeeps ==
    ASSUME IInv, NEW o \in Keys, EndMerge(o)
    PROVE  IInv'
<1> USE DEF fixed
<1> DEFINE m == [at |-> "done", from |-> merge[o].from, stop |-> merge[o].stop,
                 keys |-> merge[o].keys \cup {}, made |-> merge[o].made \cup {}]
<1>1. /\ TypeOK /\ MergesPlaced /\ merge \in [Keys -> Merges] /\ merge[o].at = "grouping"
      /\ merge' = [merge EXCEPT ![o] = m]
      /\ UNCHANGED <<fixed, chunkFile, job, spill, tree, store, task, phase, result>>
  BY Typed DEF EndMerge, MergeGoes, IInv
<1>2. /\ m \in Merges /\ m.at = "done" /\ m.from = merge[o].from
      /\ m.stop = merge[o].stop /\ m.keys = merge[o].keys /\ m.made = merge[o].made
  BY <1>1 DEF Merges
<1> HIDE DEF m
<1>3. merge'[o] = m /\ \A x \in Keys \ {o} : merge'[x] = merge[x]
  BY <1>1
<1>4. TypeOK'
  <2>1. merge' \in [Keys -> Merges]
    BY <1>1, <1>2
  <2> QED
    BY <1>1, <2>1 DEF TypeOK, Merges
<1>5. \A x, k \in Keys : Merged(x, k) => Merged(x, k)'
  BY <1>1, <1>2, <1>3 DEF Merged
<1>6. MergesPlaced'
  BY <1>1, <1>2, <1>3 DEF MergesPlaced, MergesIn, MergesAll, AllBuilt
<1>7. TasksPlaced'
  BY <1>1, <1>2, <1>3 DEF IInv, TasksPlaced, Parents
<1>8. TasksRead' /\ \A q, k \in Keys : \A p \in task'[q].got[k] : LiesIn(p, k)
  BY <1>1 DEF IInv, TasksRead, PointsInPlace
<1> QED
  BY <1>1, <1>4, <1>5, <1>6, <1>7, <1>8, MergeChanges, PlanApart, RootIsKey

-----------------------------------------------------------------------------
(* The end of a chunk, and of the build                                     *)

\* What the steps keep that end the work of a chunk, or begin its local merge.
LEMMA ChunkGoesOn ==
    ASSUME IInv, phase = "building", NEW c \in plan,
           UNCHANGED <<fixed, tree, store, task, phase, result>>,
           job[c].at \in {"building", "merging"}, merge[c].at # "sampling",
           job' \in [Keys -> Jobs], \A d \in Keys \ {c} : job'[d] = job[d],
           job'[c].at \in {"merging", "built"}, job'[c].split = job[c].split,
           job'[c].at = "merging" => job[c].at = "building" /\ job[c].split > Len(c),
           \A k \in job'[c].made : IsUnder(k, c),
           chunkFile' \in [Keys -> SUBSET Points],
           \A d \in Keys \ {c} : chunkFile'[d] = chunkFile[d],
           job'[c].at = "merging" => chunkFile'[c] = chunkFile[c],
           spill' \in [Keys -> SUBSET Points],
           \A k \in Keys : ~IsUnder(k, c) => spill'[k] = spill[k],
           \A k \in Keys : IsUnder(k, c) => spill'[k] = {},
           merge' \in [Keys -> Merges], \A o \in Keys \ {c} : merge'[o] = merge[o],
           merge'[c].at # "none" =>
              /\ job'[c].at = "merging" /\ merge'[c].at = "grouping"
              /\ merge'[c].stop = Len(c) /\ merge'[c].from >= Len(c)
              /\ merge'[c].made \subseteq merge'[c].keys
              /\ \A k \in merge'[c].keys : IsUnder(k, c) /\ Len(k) <= job[c].split,
           \A r \in Keys : IsUnder(r, c) /\ Len(r) = job[c].split /\ tree[r].at # "none"
                              => tree[r].at = "built"
    PROVE  IInv'
<1> USE DEF fixed
<1>1. /\ TypeOK /\ c \in Keys /\ plan' = plan /\ plan \subseteq Keys
      /\ store' = store /\ tree' = tree /\ task' = task /\ pos' = pos /\ phase' = phase
      /\ \A k \in Keys : \A d \in plan : IsUnder(k, c) /\ IsUnder(k, d) => d = c
      /\ ~AllBuilt
      /\ \A x \in plan : x # c => (MergesIn(x)' <=> MergesIn(x))
  <2>1. TypeOK /\ c \in Keys /\ plan' = plan /\ plan \subseteq Keys
    BY PlanApart DEF IInv
  <2>2. ~AllBuilt
    BY DEF AllBuilt
  <2>3. \A x \in plan : x # c => (MergesIn(x)' <=> MergesIn(x))
    BY <2>1 DEF MergesIn
  <2>4. \A k \in Keys : \A d \in plan : IsUnder(k, c) /\ IsUnder(k, d) => d = c
    BY <2>1, PlanApart
  <2>5. /\ store' = store /\ tree' = tree /\ task' = task
        /\ pos' = pos /\ phase' = phase
    OBVIOUS
  <2> QED
    BY <2>1, <2>2, <2>3, <2>4, <2>5
<1>2. TypeOK'
  BY <1>1 DEF TypeOK, Jobs, Merges
<1>3. PointsInPlace'
  <2>1. \A d \in plan : job'[d].at # "built" => chunkFile'[d] = Inside(Points, d)
    BY <1>1 DEF IInv, PointsInPlace
  <2>2. \A k \in Keys : \A p \in spill'[k] : LiesIn(p, k)
    BY DEF IInv, PointsInPlace
  <2> QED
    BY <1>1, <2>1, <2>2 DEF IInv, PointsInPlace, LiesIn, Inside
<1>4. SplitsBounded' /\ MadeOnly'
  BY <1>1 DEF IInv, SplitsBounded, MadeOnly
<1>5. SpillsPlaced'
  <2>1. ASSUME NEW k \in Keys, spill'[k] # {}
        PROVE  \E d \in plan : /\ IsUnder(k, d) /\ job'[d].at = "building"
                               /\ job'[d].split = Len(k) /\ Len(k) > Len(d)
    <3>1. ~IsUnder(k, c) /\ spill[k] # {}
      BY <2>1
    <3>2. PICK d \in plan : /\ IsUnder(k, d) /\ job[d].at = "building"
                            /\ job[d].split = Len(k) /\ Len(k) > Len(d)
      BY <3>1 DEF IInv, SpillsPlaced
    <3> QED
      BY <1>1, <3>1, <3>2
  <2> QED
    BY <1>1, <2>1 DEF SpillsPlaced
<1>6. TreesPlaced'
  <2>1. ASSUME NEW r \in Keys, tree[r].at # "none"
        PROVE  \E d \in plan : /\ IsUnder(r, d) /\ job'[d].split = Len(r)
                               /\ job'[d].at # "waiting"
                               /\ job'[d].at # "building" => tree[r].at = "built"
                               /\ job'[d].at = "building" /\ r # d => spill'[r] # {}
    <3>1. PICK d \in plan : /\ IsUnder(r, d) /\ job[d].split = Len(r)
                            /\ job[d].at # "waiting"
                            /\ job[d].at # "building" => tree[r].at = "built"
                            /\ job[d].at = "building" /\ r # d => spill[r] # {}
      BY <2>1 DEF IInv, TreesPlaced
    <3>2. CASE d = c
      BY <2>1, <3>1, <3>2
    <3>3. CASE d # c
      <4>1. ~IsUnder(r, c) /\ job'[d] = job[d]
        BY <1>1, <3>1, <3>3
      <4> QED
        BY <3>1, <4>1
    <3> QED
      BY <3>2, <3>3
  <2> QED
    BY <1>1, <2>1 DEF TreesPlaced
<1>7. InMemoryBegun'
  BY <1>1 DEF IInv, InMemoryBegun
<1>8. TreesInside' /\ LeavesApart'
  BY <1>1 DEF IInv, TreesInside, LeavesApart
<1>9. \A d \in plan : /\ job'[d].at = "building" => job'[d] = job[d]
                      /\ job'[d].at = "waiting" => job'[d] = job[d]
  BY <1>1
<1>10. Unwritten'
  <2>1. \A d \in plan : job'[d].at = "waiting" =>
           \A k \in Keys : IsUnder(k, d) => store[k] = {}
    BY <1>9 DEF IInv, Unwritten
  <2>2. \A d \in plan : job'[d].at = "building" =>
           \A k \in Keys : IsUnder(k, d) /\ Len(k) < job'[d].split => store[k] = {}
    BY <1>9 DEF IInv, Unwritten
  <2>3. ASSUME NEW d \in plan, job'[d].at = "building", NEW s \in Keys, NEW k \in Keys,
               IsUnder(s, d), Len(s) = job'[d].split, IsUnder(k, s),
               tree[s].at \in {"none", "leaves", "sampling"} \/ tree[s].nodes[k] # {}
        PROVE  store[k] = {}
    BY <1>9, <2>3 DEF IInv, Unwritten
  <2> QED
    BY <1>1, <2>1, <2>2, <2>3 DEF Unwritten
<1>11. TopsUnwritten'
  <2>1. ASSUME NEW d \in plan, job'[d].at = "merging", NEW k \in Keys, IsUnder(k, d),
               Len(k) < job'[d].split, store[k] # {}
        PROVE  Merged(d, k)'
    <3>1. CASE d = c
      BY <2>1, <3>1 DEF IInv, Unwritten
    <3>2. CASE d # c
      <4>1. Merged(d, k) /\ merge'[d] = merge[d]
        BY <1>1, <2>1, <3>2 DEF IInv, TopsUnwritten
      <4> QED
        BY <1>1, <4>1 DEF Merged
    <3> QED
      BY <3>1, <3>2
  <2>2. \A k \in Keys : (\A d \in plan : ~IsUnder(k, d)) => store[k] = {}
    BY <1>1 DEF IInv, TopsUnwritten
  <2> QED
    BY <1>1, <2>1, <2>2 DEF TopsUnwritten
<1>12. MergesPlaced'
  <2>1. ASSUME NEW x \in Keys, merge'[x].at # "none"
        PROVE  /\ MergesIn(x)' /\ ~MergesAll(x)'
               /\ merge'[x].stop = Len(x) /\ merge'[x].from >= Len(x)
               /\ merge'[x].made \subseteq merge'[x].keys
               /\ merge'[x].at = "sampling" => merge'[x].from > Len(x)
               /\ \A k \in merge'[x].keys : IsUnder(k, x) /\ Len(k) <= job'[x].split
    <3>1. CASE x = c
      BY <1>1, <2>1, <3>1 DEF MergesIn, MergesAll, AllBuilt
    <3>2. CASE x # c
      <4>1. /\ MergesIn(x)
            /\ merge[x].stop = Len(x) /\ merge[x].from >= Len(x)
            /\ merge[x].made \subseteq merge[x].keys
            /\ merge[x].at = "sampling" => merge[x].from > Len(x)
            /\ \A k \in merge[x].keys : IsUnder(k, x) /\ Len(k) <= job[x].split
        BY <2>1, <3>2 DEF IInv, MergesPlaced
      <4>2. MergesIn(x)' /\ ~AllBuilt' /\ job'[x] = job[x] /\ merge'[x] = merge[x]
        BY <1>1, <3>2, <4>1 DEF MergesIn, AllBuilt
      <4> QED
        BY <4>1, <4>2 DEF MergesAll
    <3> QED
      BY <3>1, <3>2
  <2> QED
    BY <2>1 DEF MergesPlaced
<1>13. TasksPlaced'
  <2>1. \A x \in Keys : merge[x].at = "sampling" => merge'[x] = merge[x]
    BY <1>1
  <2> QED
    BY <1>1, <2>1 DEF IInv, TasksPlaced, Parents
<1>14. TasksRead'
  BY <1>1 DEF IInv, TasksRead
<1> QED
  BY <1>2, <1>3, <1>4, <1>5, <1>6, <1>7, <1>8, <1>10, <1>11, <1>12, <1>13, <1>14 DEF IInv

\* While the chunks are built, no merge ends at one that is not merging.
LEMMA NoMergeYet ==
    ASSUME IInv, phase = "building", NEW c \in plan, job[c].at # "merging"
    PROVE  c \in Keys /\ merge[c].at = "none"
BY PlanApart DEF IInv, MergesPlaced, MergesIn

\* The one subtree of a chunk is built, and so is the chunk.
LEMMA FinishInMemoryKeeps ==
    ASSUME IInv, NEW c \in plan, FinishInMemory(c)
    PROVE  IInv'
<1> DEFINE j == [at |-> "built", split |-> job[c].split, made |-> job[c].made \cup {}]
<1>1. /\ TypeOK /\ job \in [Keys -> Jobs] /\ chunkFile \in [Keys -> SUBSET Points]
      /\ spill \in [Keys -> SUBSET Points] /\ merge \in [Keys -> Merges]
      /\ phase = "building" /\ job[c].at = "building" /\ job[c].split = Len(c)
      /\ tree[c].at = "built"
      /\ job' = [job EXCEPT ![c] = j] /\ chunkFile' = [chunkFile EXCEPT ![c] = {}]
      /\ UNCHANGED <<fixed, spill, tree, store, merge, task, phase, result>>
  BY Typed DEF IInv, FinishInMemory, ChunkBuilt
<1>2. c \in Keys /\ merge[c].at = "none" /\ Len(c) \in Nat
  BY <1>1, NoMergeYet, KeyLength
<1>3. j \in Jobs /\ j.at = "built" /\ j.split = job[c].split /\ j.made = job[c].made
  BY <1>1, <1>2 DEF Jobs
<1> HIDE DEF j
<1>4. /\ job' \in [Keys -> Jobs] /\ job'[c] = j /\ \A d \in Keys \ {c} : job'[d] = job[d]
      /\ chunkFile' \in [Keys -> SUBSET Points]
      /\ \A d \in Keys \ {c} : chunkFile'[d] = chunkFile[d]
      /\ spill' = spill /\ merge' = merge
  BY <1>1, <1>2, <1>3
<1>5. \A k \in Keys : IsUnder(k, c) => spill[k] = {}
  BY <1>1, <1>2, PlanApart, KeyLength DEF IInv, SpillsPlaced
<1>6. \A r \in Keys : IsUnder(r, c) /\ Len(r) = job[c].split => r = c
  BY <1>1, <1>2, UnderLength
<1>7. \A k \in j.made : IsUnder(k, c)
  BY <1>3 DEF IInv, MadeOnly
<1> QED
  BY <1>1, <1>2, <1>3, <1>4, <1>5, <1>6, <1>7, ChunkGoesOn

\* The level a merge starts from is that of the deepest root.
LEMMA MergeFromIs ==
    ASSUME NEW roots \in SUBSET Keys, NEW stop \in Nat
    PROVE  LET m == MergeFrom(roots, stop)
           IN  /\ m \in Merges /\ m.at = "grouping" /\ m.stop = stop
               /\ m.keys = roots /\ m.made = {} /\ m.from \in Nat
               /\ (\A k \in roots : stop <= Len(k)) => stop <= m.from
               /\ \A k \in roots : Len(k) <= m.from
               /\ roots # {} => \E k \in roots : m.from = Len(k)
<1> DEFINE lengths == {Len(k) : k \in roots}
           top == CHOOSE l \in lengths : \A k \in roots : Len(k) <= l
           from == IF roots = {} THEN stop ELSE top
<1>1. MergeFrom(roots, stop) = [at |-> "grouping", stop |-> stop, keys |-> roots,
                                made |-> {}, from |-> from]
  BY DEF MergeFrom
<1>2. ASSUME roots # {} PROVE top \in lengths /\ \A k \in roots : Len(k) <= top
  <2>1. lengths \subseteq 0 .. Depth /\ lengths # {}
    <3>1. \A k \in roots : Len(k) \in 0 .. Depth
      BY KeyHasPath
    <3> QED
      BY <1>2, <3>1
  <2>2. IsFiniteSet(0 .. Depth) /\ 0 .. Depth \subseteq Nat
    BY FS_Interval, VoxelTreeAssumption
  <2>3. PICK l \in lengths : \A n \in lengths : n <= l
    <3> HIDE DEF lengths
    <3>1. IsFiniteSet(lengths) /\ lengths \subseteq Nat
      BY <2>1, <2>2, FS_Subset
    <3> QED
      BY <2>1, <3>1, GreatestNatural
  <2>4. \A k \in roots : Len(k) <= l
    BY <2>3
  <2> HIDE DEF lengths
  <2> QED
    BY <2>3, <2>4
<1>3. /\ from \in Nat
      /\ (\A k \in roots : stop <= Len(k)) => stop <= from
      /\ \A k \in roots : Len(k) <= from
      /\ roots # {} => \E k \in roots : from = Len(k)
  <2>1. CASE roots = {}
    BY <2>1
  <2>2. CASE roots # {}
    <3>1. PICK k \in roots : top = Len(k)
      BY <1>2, <2>2
    <3>2. from = top
      BY <2>2
    <3> HIDE DEF top
    <3> QED
      BY <1>2, <2>2, <3>1, <3>2, KeyLength
  <2> QED
    BY <2>1, <2>2
<1> HIDE DEF from
<1> QED
  BY <1>1, <1>3 DEF Merges

\* The octants of a spilled chunk are built; its local merge begins.
LEMMA FinishSubOctantsKeeps ==
    ASSUME IInv, NEW c \in plan, FinishSubOctants(c)
    PROVE  IInv'
<1> DEFINE roots == {k \in job[c].made : Len(k) = job[c].split}
           built == [at |-> "built", split |-> job[c].split, made |-> job[c].made \cup {}]
           merging == [at |-> "merging", split |-> job[c].split, made |-> job[c].made]
           m == MergeFrom(roots, Len(c))
<1>1. /\ TypeOK /\ job \in [Keys -> Jobs] /\ chunkFile \in [Keys -> SUBSET Points]
      /\ spill \in [Keys -> SUBSET Points] /\ merge \in [Keys -> Merges]
      /\ phase = "building" /\ job[c].at = "building" /\ job[c].split > Len(c)
      /\ \A r \in SubRoots(c) : tree[r].at = "built"
      /\ spill' = [r \in Keys |-> IF IsUnder(r, c) THEN {} ELSE spill[r]]
      /\ \/ /\ roots = {} /\ job' = [job EXCEPT ![c] = built]
            /\ chunkFile' = [chunkFile EXCEPT ![c] = {}] /\ merge' = merge
         \/ /\ roots # {} /\ job' = [job EXCEPT ![c] = merging]
            /\ merge' = [merge EXCEPT ![c] = m] /\ chunkFile' = chunkFile
      /\ UNCHANGED <<fixed, tree, store, task, phase, result>>
  BY Typed DEF IInv, FinishSubOctants, Spilled, ChunkBuilt, LocalMerge
<1>2. c \in Keys /\ merge[c].at = "none" /\ Len(c) \in Nat
  BY <1>1, NoMergeYet, KeyLength
<1>3. /\ built \in Jobs /\ built.at = "built" /\ built.split = job[c].split
      /\ built.made = job[c].made
      /\ merging \in Jobs /\ merging.at = "merging" /\ merging.split = job[c].split
      /\ merging.made = job[c].made
  BY <1>1, <1>2 DEF Jobs
<1>4. /\ m \in Merges /\ m.at = "grouping" /\ m.stop = Len(c) /\ m.from >= Len(c)
      /\ m.made \subseteq m.keys
      /\ \A k \in m.keys : IsUnder(k, c) /\ Len(k) <= job[c].split
  <2>1. roots \subseteq Keys /\ \A k \in roots : IsUnder(k, c) /\ Len(k) = job[c].split
    BY <1>1, <1>2 DEF IInv, MadeOnly, Jobs
  <2>2. job[c].split \in Nat
    BY <1>1, <1>2 DEF Jobs
  <2>3. \A k \in roots : Len(c) <= Len(k) /\ Len(k) <= job[c].split
    BY <1>1, <1>2, <2>1, <2>2
  <2> HIDE DEF roots
  <2>4. roots \in SUBSET Keys /\ (\A k \in roots : Len(c) <= Len(k)) /\ Len(c) \in Nat
    BY <1>2, <2>1, <2>3
  <2>5. m.at = "grouping" /\ m.stop = Len(c)
    BY DEF MergeFrom
  <2>6. m \in Merges
    BY <2>4, MergeFromIs
  <2>7. Len(c) <= m.from
    BY <2>4, MergeFromIs
  <2>8. m.keys = roots
    BY <2>4, MergeFromIs
  <2>9. m.made = {}
    BY <2>4, MergeFromIs
  <2> HIDE DEF m
  <2> QED
    BY <1>2, <2>1, <2>3, <2>5, <2>6, <2>7, <2>8, <2>9
<1>5. \A k \in job[c].made : IsUnder(k, c)
  BY DEF IInv, MadeOnly
<1>6. /\ spill' \in [Keys -> SUBSET Points]
      /\ \A k \in Keys : ~IsUnder(k, c) => spill'[k] = spill[k]
      /\ \A k \in Keys : IsUnder(k, c) => spill'[k] = {}
  BY <1>1
<1>7. \A r \in Keys : IsUnder(r, c) /\ Len(r) = job[c].split /\ tree[r].at # "none"
                         => tree[r].at = "built"
  <2>1. ASSUME NEW r \in Keys, IsUnder(r, c), Len(r) = job[c].split, tree[r].at # "none"
        PROVE  r \in SubRoots(c)
    <3>1. PICK d \in plan : IsUnder(r, d) /\ (job[d].at = "building" /\ r # d => spill[r] # {})
      BY <2>1 DEF IInv, TreesPlaced
    <3>2. d = c /\ r # c
      BY <1>1, <1>2, <2>1, <3>1, PlanApart
    <3> QED
      BY <1>1, <2>1, <3>1, <3>2 DEF SubRoots
  <2> QED
    BY <1>1, <2>1
<1>8. CASE /\ roots = {} /\ job' = [job EXCEPT ![c] = built]
           /\ chunkFile' = [chunkFile EXCEPT ![c] = {}] /\ merge' = merge
  <2> HIDE DEF built, roots
  <2>1. /\ job' \in [Keys -> Jobs] /\ job'[c] = built
        /\ \A d \in Keys \ {c} : job'[d] = job[d]
        /\ chunkFile' \in [Keys -> SUBSET Points]
        /\ \A d \in Keys \ {c} : chunkFile'[d] = chunkFile[d]
        /\ merge' \in [Keys -> Merges] /\ merge'[c].at = "none"
        /\ \A o \in Keys \ {c} : merge'[o] = merge[o]
    BY <1>1, <1>2, <1>3, <1>8
  <2> QED
    BY <1>1, <1>2, <1>3, <1>5, <1>6, <1>7, <2>1, ChunkGoesOn
<1>9. CASE /\ roots # {} /\ job' = [job EXCEPT ![c] = merging]
           /\ merge' = [merge EXCEPT ![c] = m] /\ chunkFile' = chunkFile
  <2> HIDE DEF merging, roots, m
  <2>1. /\ job' \in [Keys -> Jobs] /\ job'[c] = merging
        /\ \A d \in Keys \ {c} : job'[d] = job[d]
        /\ chunkFile' \in [Keys -> SUBSET Points]
        /\ \A d \in Keys : chunkFile'[d] = chunkFile[d]
        /\ merge' \in [Keys -> Merges] /\ merge'[c] = m
        /\ \A o \in Keys \ {c} : merge'[o] = merge[o]
    BY <1>1, <1>2, <1>3, <1>4, <1>9
  <2> QED
    BY <1>1, <1>2, <1>3, <1>4, <1>5, <1>6, <1>7, <2>1, ChunkGoesOn
<1> QED
  BY <1>1, <1>8, <1>9

\* The local merge of a chunk has come to its top; the chunk is built.
LEMMA FinishLocalMergeKeeps ==
    ASSUME IInv, NEW c \in plan, FinishLocalMerge(c)
    PROVE  IInv'
<1> DEFINE j == [at |-> "built", split |-> job[c].split,
                 made |-> job[c].made \cup merge[c].made]
<1>1. /\ TypeOK /\ job \in [Keys -> Jobs] /\ chunkFile \in [Keys -> SUBSET Points]
      /\ spill \in [Keys -> SUBSET Points] /\ merge \in [Keys -> Merges]
      /\ phase = "building" /\ job[c].at = "merging" /\ merge[c].at = "done"
      /\ job' = [job EXCEPT ![c] = j] /\ chunkFile' = [chunkFile EXCEPT ![c] = {}]
      /\ merge' = [merge EXCEPT ![c] = NoMerge]
      /\ UNCHANGED <<fixed, spill, tree, store, task, phase, result>>
  BY Typed DEF IInv, FinishLocalMerge, ChunkBuilt
<1>2. c \in Keys /\ Len(c) \in Nat
  BY <1>1, PlanApart, KeyLength
<1>3. j \in Jobs /\ j.at = "built" /\ j.split = job[c].split
      /\ j.made = job[c].made \cup merge[c].made
  BY <1>1, <1>2 DEF Jobs, Merges
<1>4. NoMerge \in Merges /\ NoMerge.at = "none"
  BY DEF NoMerge, Merges
<1> HIDE DEF j
<1>5. /\ job' \in [Keys -> Jobs] /\ job'[c] = j /\ \A d \in Keys \ {c} : job'[d] = job[d]
      /\ chunkFile' \in [Keys -> SUBSET Points]
      /\ \A d \in Keys \ {c} : chunkFile'[d] = chunkFile[d]
      /\ merge' \in [Keys -> Merges] /\ merge'[c] = NoMerge
      /\ \A o \in Keys \ {c} : merge'[o] = merge[o]
      /\ spill' = spill
  BY <1>1, <1>2, <1>3, <1>4
<1>6. \A k \in Keys : IsUnder(k, c) => spill[k] = {}
  BY <1>1, <1>2, PlanApart DEF IInv, SpillsPlaced
<1>7. \A r \in Keys : IsUnder(r, c) /\ tree[r].at # "none" => tree[r].at = "built"
  BY <1>1, <1>2, PlanApart DEF IInv, TreesPlaced
<1>8. \A k \in j.made : IsUnder(k, c)
  <2>1. \A k \in merge[c].made : IsUnder(k, c)
    BY <1>1, <1>2 DEF IInv, MergesPlaced, MergesIn
  <2> QED
    BY <1>3, <2>1 DEF IInv, MadeOnly
<1>9. /\ job[c].at \in {"building", "merging"} /\ merge[c].at # "sampling"
      /\ job'[c].at \in {"merging", "built"} /\ job'[c].split = job[c].split
      /\ job'[c].at # "merging" /\ \A k \in job'[c].made : IsUnder(k, c)
      /\ merge'[c].at = "none"
      /\ spill' \in [Keys -> SUBSET Points]
      /\ \A k \in Keys : ~IsUnder(k, c) => spill'[k] = spill[k]
      /\ \A k \in Keys : IsUnder(k, c) => spill'[k] = {}
  BY <1>1, <1>3, <1>4, <1>5, <1>6, <1>8
<1> QED
  BY <1>1, <1>5, <1>7, <1>9, ChunkGoesOn

\* All chunks are built; the merge of their tops begins.
LEMMA StartMergeKeeps ==
    ASSUME IInv, StartMerge
    PROVE  IInv'
<1> USE DEF fixed
<1> DEFINE roots == UNION {{k \in job[c].made : Len(k) = Len(c)} : c \in plan}
           m == MergeFrom(roots, 0)
<1>1. /\ TypeOK /\ job \in [Keys -> Jobs] /\ merge \in [Keys -> Merges]
      /\ phase = "building" /\ phase' = "merging" /\ AllBuilt
      /\ merge' = [merge EXCEPT ![Root] = m]
      /\ UNCHANGED <<fixed, chunkFile, job, spill, tree, store, task, result>>
  BY Typed DEF IInv, StartMerge, AllBuilt
<1>2. /\ \A o \in Keys : merge[o].at = "none"
      /\ \A q \in Keys : task[q].at = "none"
  BY <1>1 DEF IInv, MergesPlaced, MergesIn, AllBuilt, TasksPlaced
<1>3. roots \subseteq Keys /\ \A k \in roots : k \in plan
  <2>1. ASSUME NEW c \in plan, NEW k \in job[c].made, Len(k) = Len(c)
        PROVE  k \in Keys /\ k = c
    <3>1. c \in Keys /\ k \in Keys /\ IsUnder(k, c)
      BY <1>1, PlanApart DEF IInv, MadeOnly, Jobs
    <3> QED
      BY <2>1, <3>1, UnderLength
  <2> QED
    BY <2>1
<1> HIDE DEF roots
<1>4. /\ m \in Merges /\ m.at = "grouping" /\ m.stop = 0 /\ m.from \in Nat
      /\ m.keys = roots /\ m.made = {}
  <2>1. roots \in SUBSET Keys /\ 0 \in Nat
    BY <1>3
  <2>2. m \in Merges /\ m.at = "grouping" /\ m.stop = 0 /\ m.from \in Nat
    BY <2>1, MergeFromIs
  <2>3. m.keys = roots
    BY <2>1, MergeFromIs
  <2>4. m.made = {}
    BY <2>1, MergeFromIs
  <2> QED
    BY <2>2, <2>3, <2>4
<1> HIDE DEF m
<1>5. /\ Root \in Keys /\ Len(Root) = 0
      /\ merge'[Root] = m /\ \A o \in Keys \ {Root} : merge'[o].at = "none"
  BY <1>1, <1>2, RootIsKey
<1>6. TypeOK'
  <2>1. merge' \in [Keys -> Merges]
    BY <1>1, <1>4
  <2> QED
    BY <1>1, <2>1 DEF TypeOK, Merges
<1>7. PointsInPlace' /\ SplitsBounded' /\ SpillsPlaced' /\ TreesPlaced' /\ InMemoryBegun'
  BY <1>1 DEF IInv, PointsInPlace, LiesIn, Inside, SplitsBounded, SpillsPlaced, TreesPlaced,
              InMemoryBegun
<1>8. TreesInside' /\ LeavesApart' /\ Unwritten' /\ MadeOnly'
  BY <1>1 DEF IInv, TreesInside, LeavesApart, Unwritten, MadeOnly
<1>9. TopsUnwritten'
  <2>1. \A k \in Keys : (\A c \in plan : ~IsUnder(k, c)) => store[k] = {}
    BY <1>2, RootIsKey DEF IInv, TopsUnwritten, Merged
  <2>2. \A c \in plan : job[c].at # "merging"
    BY <1>1 DEF AllBuilt
  <2> QED
    BY <1>1, <2>1, <2>2 DEF TopsUnwritten
<1>10. MergesPlaced'
  <2>1. /\ MergesAll(Root)' /\ \A o : ~MergesIn(o)'
    BY <1>1 DEF MergesAll, MergesIn, AllBuilt
  <2>2. \A k \in roots : \E c \in plan : IsUnder(c, k)
    BY <1>3, UnderReflexive
  <2>3. plan' = plan /\ phase' # "building"
    BY <1>1
  <2> QED
    BY <1>4, <1>5, <2>1, <2>2, <2>3 DEF MergesPlaced
<1>11. TasksPlaced' /\ TasksRead'
  BY <1>1, <1>2 DEF TasksPlaced, TasksRead
<1> QED
  BY <1>6, <1>7, <1>8, <1>9, <1>10, <1>11 DEF IInv

\* The list of the nodes is made.
LEMMA AssembleKeeps ==
    ASSUME IInv, Assemble
    PROVE  IInv'
<1> DEFINE made == (UNION {job[c].made : c \in plan}) \cup merge[Root].made
           kept == {k \in made : store[k] # {}}
           ancestors == UNION {{Prefix(k, n) : n \in 0 .. Len(k) - 1} : k \in kept}
           listed == {<<k, Cardinality(store[k])>> : k \in kept}
                     \cup {<<a, 0>> : a \in ancestors \ kept}
<1>1. /\ job \in [Keys -> Jobs] /\ merge \in [Keys -> Merges] /\ plan \subseteq Keys
      /\ store \in [Keys -> SUBSET Points]
  BY Typed, PlanApart DEF IInv
<1>2. /\ result' = listed /\ phase' = "done"
      /\ UNCHANGED <<pos, plan, chunkFile, job, spill, tree, store, merge, task>>
  <2>1. result' = listed
    BY Zenon DEF Assemble
  <2>2. phase' = "done" /\ UNCHANGED <<fixed, chunkFile, job, spill, tree, store, merge, task>>
    BY Zenon DEF Assemble
  <2> QED
    BY <2>1, <2>2 DEF fixed
<1>3. made \subseteq Keys
  <2>1. \A c \in plan : job[c].made \subseteq Keys
    BY <1>1 DEF Jobs
  <2>2. merge[Root].made \subseteq Keys
    BY <1>1, RootIsKey DEF Merges
  <2> QED
    BY <2>1, <2>2
<1>4. \A k \in Keys : Cardinality(store[k]) \in Nat
  BY <1>1, VoxelTreeAssumption, FS_Subset, FS_CardinalityType
<1>5. \A k \in Keys : \A n \in 0 .. Len(k) - 1 : Prefix(k, n) \in Keys
  BY PrefixIsKey, KeyLength
<1>6. kept \subseteq Keys /\ ancestors \subseteq Keys
  <2> HIDE DEF made
  <2> QED
    BY <1>3, <1>5
<1>7. listed \subseteq Keys \X Nat
  <2> HIDE DEF kept, ancestors
  <2> QED
    BY <1>4, <1>6
<1> HIDE DEF listed
<1> QED
  BY <1>2, <1>7, PhaseChanges

\* The invariant holds at first ...
LEMMA InitHolds ==
    ASSUME Init
    PROVE  IInv
<1>1. /\ plan \in Plans /\ plan \subseteq Keys /\ pos \in [Points -> Positions]
      /\ \A c \in plan : c \in Keys /\ job[c] = NoJob /\ chunkFile[c] = Inside(Points, c)
      /\ spill = NoPoints /\ store = NoPoints /\ phase = "building" /\ result = {}
      /\ tree = [r \in Keys |-> NoTree] /\ merge = [o \in Keys |-> NoMerge]
      /\ task = [t \in Keys |-> NoTask] /\ job = [c \in Keys |-> NoJob]
      /\ chunkFile = [k \in Keys |-> IF k \in plan THEN Inside(Points, k) ELSE {}]
  BY OctreeBuildAssumption DEF Init
<1>2. NoPoints \in [Keys -> SUBSET Points] /\ \A k \in Keys : NoPoints[k] = {}
  BY DEF NoPoints
<1>3. /\ NoJob \in Jobs /\ NoJob.at = "waiting" /\ NoJob.made = {}
      /\ NoTree \in Trees /\ NoTree.at = "none" /\ NoTree.nodes = NoPoints
      /\ NoMerge \in Merges /\ NoMerge.at = "none"
      /\ NoTask \in Tasks /\ NoTask.at = "none" /\ NoTask.got = NoPoints
  BY <1>2 DEF NoJob, NoTree, NoMerge, NoTask, Jobs, Trees, Merges, Tasks
<1>4. \A k \in Keys : /\ job[k] = NoJob /\ tree[k] = NoTree /\ merge[k] = NoMerge
                      /\ task[k] = NoTask /\ store[k] = {} /\ spill[k] = {}
  BY <1>1, <1>2
<1>5. TypeOK
  <2>1. chunkFile \in [Keys -> SUBSET Points]
    BY <1>1 DEF Inside
  <2>2. /\ job \in [Keys -> Jobs] /\ tree \in [Keys -> Trees]
        /\ merge \in [Keys -> Merges] /\ task \in [Keys -> Tasks]
    BY <1>1, <1>3
  <2> QED
    BY <1>1, <1>2, <2>1, <2>2, Typed
<1>6. PointsInPlace
  BY <1>1, <1>2, <1>3, <1>4 DEF PointsInPlace
<1>7. /\ SplitsBounded /\ SpillsPlaced /\ TreesPlaced /\ InMemoryBegun
      /\ TreesInside /\ LeavesApart /\ MadeOnly
  BY <1>1, <1>2, <1>3, <1>4
     DEF SplitsBounded, SpillsPlaced, TreesPlaced, InMemoryBegun, TreesInside, LeavesApart,
         MadeOnly
<1>8. Unwritten /\ TopsUnwritten
  BY <1>1, <1>3, <1>4 DEF Unwritten, TopsUnwritten
<1>9. MergesPlaced /\ TasksPlaced /\ TasksRead
  BY <1>3, <1>4 DEF MergesPlaced, TasksPlaced, TasksRead
<1> QED
  BY <1>5, <1>6, <1>7, <1>8, <1>9 DEF IInv

-----------------------------------------------------------------------------
(* The theorems                                                             *)

\* ... and every step keeps it.
LEMMA IInvIsInductive ==
    ASSUME IInv, [Next]_vars
    PROVE  IInv'
<1>1. CASE UNCHANGED vars
  <2>1. /\ UNCHANGED <<pos, plan, chunkFile, job, spill, tree, store, merge, task>>
        /\ phase' = phase /\ result' \subseteq Keys \X Nat
    BY <1>1 DEF vars, IInv, TypeOK
  <2> QED
    BY <2>1, PhaseChanges
<1>2. ASSUME NEW c \in plan, ChunkStep(c) PROVE IInv'
  BY <1>2, BuildInMemoryKeeps, SpillChunkKeeps, BuildSubOctantKeeps, FinishInMemoryKeeps,
     FinishSubOctantsKeeps, FinishLocalMergeKeeps DEF ChunkStep
<1>3. ASSUME NEW r \in Keys, SubtreeStep(r) PROVE IInv'
  BY <1>3, SubdivideKeeps, SampleLevelKeeps, TreeBuiltKeeps, WriteNodeKeeps DEF SubtreeStep
<1>4. ASSUME NEW q \in Keys, TaskStep(q) PROVE IInv'
  BY <1>4, ReadChildKeeps, RewriteChildKeeps, NothingToMergeKeeps, WriteParentKeeps
     DEF TaskStep
<1>5. ASSUME NEW o \in Keys, MergeStep(o) PROVE IInv'
  BY <1>5, StartLevelKeeps, EndLevelKeeps, EndMergeKeeps DEF MergeStep
<1>6. CASE StartMerge \/ Assemble
  BY <1>6, StartMergeKeeps, AssembleKeeps
<1>7. CASE Fail
  <2>1. /\ UNCHANGED <<pos, plan, chunkFile, job, spill, tree, store, merge, task>>
        /\ phase' = "failed" /\ result' \subseteq Keys \X Nat
    BY <1>7 DEF Fail, IInv, TypeOK, fixed
  <2> QED
    BY <2>1, PhaseChanges
<1>8. CASE Returned
  BY <1>1, <1>8 DEF Returned
<1> QED
  BY <1>1, <1>2, <1>3, <1>4, <1>5, <1>6, <1>7, <1>8 DEF Next, Step

\* The inductive invariant of the build, for every set of points, plan, budget,
\* depth and order of the threads' steps.
THEOREM BuildInvariant == Spec => []IInv
<1>1. Init => IInv
  BY InitHolds
<1>2. IInv /\ [Next]_vars => IInv'
  BY IInvIsInductive
<1> QED
  BY <1>1, <1>2, PTL DEF Spec

\* A point lies in one chunk.
LEMMA OneChunk ==
    ASSUME TypeOK, NEW p \in Points, NEW c \in plan, NEW d \in plan,
           LiesIn(p, c), LiesIn(p, d)
    PROVE  c = d
<1>1. c \in Keys /\ d \in Keys /\ Len(c) \in Nat /\ Len(d) \in Nat
  BY PlanApart, KeyLength
<1>2. IsUnder(c, d) \/ IsUnder(d, c)
  BY <1>1, LiesInBoth
<1> QED
  BY <1>1, <1>2, PlanApart, UnderReflexive

\* The parents of a level that is about to start have no task yet.
LEMMA FreshParents ==
    ASSUME IInv, NEW o \in Keys, merge[o].at = "grouping", merge[o].from > merge[o].stop,
           NEW q \in Parents(o)
    PROVE  q \in Keys /\ task[q].at = "none"
<1>1. /\ TypeOK /\ MergesPlaced /\ merge[o].stop = Len(o)
  BY DEF IInv, MergesPlaced
<1>2. q \in Keys
  BY <1>1, ParentsZone
<1>3. ASSUME task[q].at # "none" PROVE FALSE
  <2>1. PICK x \in Keys :
          /\ merge[x].at = "sampling"
          /\ MergesIn(x) \/ (MergesAll(x) /\ phase # "building")
          /\ MergesIn(x) => IsUnder(q, x) /\ Len(q) < job[x].split
          /\ MergesAll(x) => \A d \in plan : ~IsUnder(q, d)
    BY <1>2, <1>3, TaskZone
  <2>2. x = o
    BY <1>1, <2>1, ZonesApart DEF MergesIn, MergesAll
  <2> QED
    BY <2>1, <2>2
<1> QED
  BY <1>2, <1>3

\* The keys a task works on are its own and those of children.
LEMMA TaskKeysAre ==
    ASSUME IInv, NEW q \in Keys, NEW k \in TaskKeys(q)
    PROVE  /\ task[q].at = "open" /\ k \in Keys /\ IsUnder(k, q)
           /\ k = q \/ (k # Root /\ Parent(k) = q)
<1>1. task[q].at = "open" /\ k \in {q} \cup task[q].unread \cup task[q].unwritten
  BY DEF TaskKeys
<1>2. task[q].unread \subseteq task[q].unwritten /\ task[q].unwritten \subseteq Keys
  BY <1>1, Typed DEF IInv, TasksRead, Tasks
<1>3. k \in Keys /\ (k = q \/ (k # Root /\ Parent(k) = q))
  BY <1>1, <1>2 DEF IInv, TasksRead
<1> QED
  BY <1>1, <1>3, UnderReflexive, ParentIsKey

\* A subtree that is written lies under a chunk that is still built, a task at
\* a chunk that is merging or above all of them.
LEMMA TreesBesideTasks ==
    ASSUME IInv, NEW r \in Keys, NEW q \in Keys
    PROVE  WritesOf(r) \cap TaskKeys(q) = {}
<1>1. SUFFICES ASSUME NEW k \in WritesOf(r), k \in TaskKeys(q) PROVE FALSE
  OBVIOUS
<1>2. /\ TypeOK /\ tree[r].at = "writing" /\ k \in Keys /\ IsUnder(k, r)
  BY DEF IInv, WritesOf, TreesInside
<1>3. PICK c \in plan : IsUnder(r, c) /\ job[c].at = "building"
  BY <1>2, TreeHome
<1>4. task[q].at = "open" /\ IsUnder(k, q)
  BY <1>1, TaskKeysAre
<1>5. PICK o \in Keys : /\ MergesIn(o) \/ (MergesAll(o) /\ phase # "building")
                        /\ MergesIn(o) => IsUnder(q, o)
  BY <1>4, TaskZone
<1>6. o \in plan /\ job[o].at = "merging" /\ IsUnder(q, o)
  BY <1>3, <1>5 DEF MergesIn, MergesAll, AllBuilt
<1> QED
  BY <1>2, <1>3, <1>4, <1>6, PlanApart, UnderTransitive

\* No node is of two subtrees.
LEMMA TreesApart ==
    ASSUME IInv, NEW r \in Keys, NEW s \in Keys, NEW k \in Keys,
           tree[r].nodes[k] # {}, tree[s].nodes[k] # {}
    PROVE  r = s
<1>1. /\ TypeOK /\ IsUnder(k, r) /\ IsUnder(k, s)
      /\ tree[r].at \in {"leaves", "sampling", "writing"}
      /\ tree[s].at \in {"leaves", "sampling", "writing"}
  BY DEF IInv, TreesInside
<1>2. PICK c \in plan : IsUnder(r, c) /\ job[c].split = Len(r)
  BY <1>1, TreeHome
<1>3. PICK d \in plan : IsUnder(s, d) /\ job[d].split = Len(s)
  BY <1>1, TreeHome
<1>4. c = d /\ Len(r) = Len(s) /\ Len(r) \in Nat
  BY <1>1, <1>2, <1>3, PlanApart, UnderTransitive, KeyLength
<1> QED
  BY <1>1, <1>4, UnderComparable, UnderLength

\* No node is of two merge tasks.
LEMMA TasksApart ==
    ASSUME IInv, NEW q \in Keys, NEW s \in Keys, q # s
    PROVE  TaskKeys(q) \cap TaskKeys(s) = {}
<1>1. SUFFICES ASSUME NEW k \in TaskKeys(q), k \in TaskKeys(s) PROVE FALSE
  OBVIOUS
<1>2. /\ task[q].at = "open" /\ (k = q \/ (k # Root /\ Parent(k) = q))
      /\ task[s].at = "open" /\ (k = s \/ (k # Root /\ Parent(k) = s))
  BY <1>1, TaskKeysAre
<1> QED
  BY <1>2, TasksBeside

\* Subtrees and merge tasks never share a node.
LEMMA OneTaskHolds ==
    IInv => OneTaskPerNode
<1> SUFFICES ASSUME IInv PROVE OneTaskPerNode
  OBVIOUS
<1>1. \A a, b \in Keys : a # b => WritesOf(a) \cap WritesOf(b) = {}
  BY TreesApart DEF WritesOf
<1>2. TypeOK
  BY DEF IInv
<1> QED
  BY <1>1, <1>2, TasksApart, TreesBesideTasks DEF OneTaskPerNode

\* Files, spills and subtrees belong to chunks that are not merged yet.
LEMMA DeletedHolds ==
    IInv => DeletedOnlyWhenStored
<1> SUFFICES ASSUME IInv, NEW c \in plan, job[c].at \in {"merging", "built"},
                    NEW p \in Inside(Points, c), NEW h \in Homes(p)
             PROVE  h[1] \in {"store", "task"}
  BY DEF DeletedOnlyWhenStored
<1>1. TypeOK /\ p \in Points /\ LiesIn(p, c) /\ c \in Keys
  BY PlanApart, InsideLies DEF IInv
<1>2. InFiles(p) = {}
  <2>1. SUFFICES ASSUME NEW d \in plan, job[d].at = "waiting", p \in chunkFile[d]
                 PROVE  FALSE
    BY DEF InFiles
  <2>2. LiesIn(p, d)
    BY <2>1, InsideLies DEF IInv, PointsInPlace
  <2> QED
    BY <1>1, <2>1, <2>2, OneChunk
<1>3. InSpills(p) = {}
  <2>1. SUFFICES ASSUME NEW r \in Keys, p \in spill[r] PROVE FALSE
    BY DEF InSpills
  <2>2. LiesIn(p, r)
    BY <2>1 DEF IInv, PointsInPlace
  <2>3. PICK d \in plan : IsUnder(r, d) /\ job[d].at = "building"
    BY <2>1 DEF IInv, SpillsPlaced
  <2>4. LiesIn(p, d)
    BY <1>1, <2>2, <2>3, PlanApart, LiesAbove
  <2> QED
    BY <1>1, <2>3, <2>4, OneChunk
<1>4. InTrees(p) = {}
  <2>1. SUFFICES ASSUME NEW r \in Keys, NEW k \in Keys, p \in tree[r].nodes[k]
                 PROVE  FALSE
    BY DEF InTrees
  <2>2. LiesIn(p, k)
    BY <2>1 DEF IInv, PointsInPlace
  <2>3. IsUnder(k, r) /\ tree[r].at \in {"leaves", "sampling", "writing"}
    BY <2>1 DEF IInv, TreesInside
  <2>4. PICK d \in plan : IsUnder(r, d) /\ job[d].at = "building"
    BY <2>3, TreeHome
  <2>5. LiesIn(p, d)
    BY <1>1, <2>2, <2>3, <2>4, PlanApart, LiesAbove
  <2> QED
    BY <1>1, <2>4, <2>5, OneChunk
<1>5. h \in ({"store"} \X InStore(p)) \cup ({"task"} \X InTasks(p))
  BY <1>2, <1>3, <1>4 DEF Homes
<1> QED
  BY <1>5

\* No step stores a point in a node whose voxel it does not lie in: dividing a
\* leaf, sampling it and merging the tops of chunks all go by the same keys.
THEOREM PointsLieInTheirNodes == Spec => []NodesContainTheirPoints
<1>1. IInv => NodesContainTheirPoints
  BY DEF IInv, PointsInPlace, NodesContainTheirPoints, LiesIn
<1> QED
  BY <1>1, BuildInvariant, PTL

\* No two threads have work on one node of the store: the subtrees that write
\* and the merge tasks that read and rewrite are of different voxels, although
\* the store itself would let them overwrite each other.
THEOREM NodesHaveOneTask == Spec => []OneTaskPerNode
BY OneTaskHolds, BuildInvariant, PTL

\* A chunk's file, and an octant's, is deleted only when every point of it is
\* in the store or held by the merge task that is to write it.
THEOREM FilesOutliveTheirPoints == Spec => []DeletedOnlyWhenStored
BY DeletedHolds, BuildInvariant, PTL
=============================================================================
