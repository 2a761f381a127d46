-------------------------- MODULE OctreePoints_proofs --------------------------
(***************************************************************************)
(* Every point is in exactly one place at every moment of the build: in    *)
(* its chunk's file, in the file of an octant, in a subtree, in a node of  *)
(* the store that no task has taken points of, or with the task that is to *)
(* write it.  For every kind of place at most one place of the kind has    *)
(* the point, and exactly one kind has any; a step moves points from one   *)
(* place to another and leaves all others where they are.  That a task's   *)
(* children are no other's, and that the node it is to write has no points *)
(* yet, come from the invariant of the build.                              *)
(***************************************************************************)
EXTENDS OctreeBuild_proofs

InFile(p, c)    == job[c].at = "waiting" /\ p \in chunkFile[c]
InSpill(p, r)   == tree[r].at = "none" /\ p \in spill[r]
InTree(p, r, k) == p \in tree[r].nodes[k]
InNode(p, k)    == p \in store[k] /\ \A q \in Keys : k \notin Pending(q)
InTask(p, q, k) == k \in Pending(q) /\ p \in PendingPoints(q, k)

NoFile(p)  == \A c \in plan : ~InFile(p, c)
NoSpill(p) == \A r \in Keys : ~InSpill(p, r)
NoTreeOf(p) == \A r, k \in Keys : ~InTree(p, r, k)
NoNode(p)  == \A k \in Keys : ~InNode(p, k)
NoTaskOf(p) == \A q, k \in Keys : ~InTask(p, q, k)

OneFile(p)  == \E c \in plan : InFile(p, c) /\ \A d \in plan : InFile(p, d) => d = c
OneSpill(p) == \E r \in Keys : InSpill(p, r) /\ \A s \in Keys : InSpill(p, s) => s = r
OneTree(p)  == \E r, k \in Keys : /\ InTree(p, r, k)
                                  /\ \A s, m \in Keys : InTree(p, s, m) => s = r /\ m = k
OneNode(p)  == \E k \in Keys : InNode(p, k) /\ \A m \in Keys : InNode(p, m) => m = k
OneTask(p)  == \E q, k \in Keys : /\ InTask(p, q, k)
                                  /\ \A s, m \in Keys : InTask(p, s, m) => s = q /\ m = k

\* The point p is in one place.
Once(p) ==
    \/ OneFile(p) /\ NoSpill(p) /\ NoTreeOf(p) /\ NoNode(p) /\ NoTaskOf(p)
    \/ NoFile(p) /\ OneSpill(p) /\ NoTreeOf(p) /\ NoNode(p) /\ NoTaskOf(p)
    \/ NoFile(p) /\ NoSpill(p) /\ OneTree(p) /\ NoNode(p) /\ NoTaskOf(p)
    \/ NoFile(p) /\ NoSpill(p) /\ NoTreeOf(p) /\ OneNode(p) /\ NoTaskOf(p)
    \/ NoFile(p) /\ NoSpill(p) /\ NoTreeOf(p) /\ NoNode(p) /\ OneTask(p)

PointsOnce == \A p \in Points : Once(p)

-----------------------------------------------------------------------------
(* What a place tells of the others, and what is in place stays in place    *)

\* A point that is in one place and in this one is in no other.
LEMMA InOnePlace ==
    ASSUME NEW p, Once(p)
    PROVE  /\ \A c \in plan : InFile(p, c) =>
                 OneFile(p) /\ NoSpill(p) /\ NoTreeOf(p) /\ NoNode(p) /\ NoTaskOf(p)
           /\ \A r \in Keys : InSpill(p, r) =>
                 NoFile(p) /\ OneSpill(p) /\ NoTreeOf(p) /\ NoNode(p) /\ NoTaskOf(p)
           /\ \A r, k \in Keys : InTree(p, r, k) =>
                 NoFile(p) /\ NoSpill(p) /\ OneTree(p) /\ NoNode(p) /\ NoTaskOf(p)
           /\ \A k \in Keys : InNode(p, k) =>
                 NoFile(p) /\ NoSpill(p) /\ NoTreeOf(p) /\ OneNode(p) /\ NoTaskOf(p)
           /\ \A q, k \in Keys : InTask(p, q, k) =>
                 NoFile(p) /\ NoSpill(p) /\ NoTreeOf(p) /\ NoNode(p) /\ OneTask(p)
BY DEF Once, NoFile, NoSpill, NoTreeOf, NoNode, NoTaskOf

\* A step that moves no point keeps each in its one place.
LEMMA StaysOnce ==
    ASSUME NEW p, Once(p), plan' = plan,
           \A c \in plan : InFile(p, c)' <=> InFile(p, c),
           \A r \in Keys : InSpill(p, r)' <=> InSpill(p, r),
           \A r, k \in Keys : InTree(p, r, k)' <=> InTree(p, r, k),
           \A k \in Keys : InNode(p, k)' <=> InNode(p, k),
           \A q, k \in Keys : InTask(p, q, k)' <=> InTask(p, q, k)
    PROVE  Once(p)'
<1>1. (NoFile(p)' <=> NoFile(p)) /\ (OneFile(p)' <=> OneFile(p))
  BY DEF NoFile, OneFile
<1>2. (NoSpill(p)' <=> NoSpill(p)) /\ (OneSpill(p)' <=> OneSpill(p))
  BY DEF NoSpill, OneSpill
<1>3. (NoTreeOf(p)' <=> NoTreeOf(p)) /\ (OneTree(p)' <=> OneTree(p))
  BY DEF NoTreeOf, OneTree
<1>4. (NoNode(p)' <=> NoNode(p)) /\ (OneNode(p)' <=> OneNode(p))
  BY DEF NoNode, OneNode
<1>5. (NoTaskOf(p)' <=> NoTaskOf(p)) /\ (OneTask(p)' <=> OneTask(p))
  BY DEF NoTaskOf, OneTask
<1> QED
  BY <1>1, <1>2, <1>3, <1>4, <1>5 DEF Once

\* Exactly the points that are in one place have one home.
LEMMA OnceIsOneHome ==
    ASSUME TypeOK, NEW p \in Points, Once(p)
    PROVE  Cardinality(Homes(p)) = 1
<1>1. /\ InFiles(p) = {c \in plan : InFile(p, c)}
      /\ InSpills(p) = {r \in Keys : InSpill(p, r)}
      /\ InStore(p) = {k \in Keys : InNode(p, k)}
  <2>1. InStore(p) = {k \in Keys : InNode(p, k)}
    BY DEF InStore, InNode
  <2> QED
    BY <2>1 DEF InFiles, InFile, InSpills, InSpill
<1>2. InTrees(p) = {h \in Keys \X Keys : InTree(p, h[1], h[2])}
  <2>1. \A r, k \in Keys : InTree(p, r, k) => tree[r].nodes # NoPoints
    BY DEF InTree, NoPoints
  <2> QED
    BY <2>1 DEF InTrees, InTree
<1>3. InTasks(p) = {h \in Keys \X Keys : InTask(p, h[1], h[2])}
  BY DEF InTasks, InTask
<1>4. PICK h : Homes(p) = {h}
  <2>1. CASE OneFile(p) /\ NoSpill(p) /\ NoTreeOf(p) /\ NoNode(p) /\ NoTaskOf(p)
    <3>1. PICK c \in plan : InFile(p, c) /\ \A d \in plan : InFile(p, d) => d = c
      BY <2>1 DEF OneFile
    <3>2. InFiles(p) = {c}
      BY <1>1, <3>1
    <3>3. InSpills(p) = {} /\ InTrees(p) = {} /\ InStore(p) = {} /\ InTasks(p) = {}
      BY <1>1, <1>2, <1>3, <2>1 DEF NoSpill, NoTreeOf, NoNode, NoTaskOf
    <3>4. Homes(p) = {<<"file", c>>}
      BY <3>2, <3>3 DEF Homes
    <3> QED
      BY <3>4
  <2>2. CASE NoFile(p) /\ OneSpill(p) /\ NoTreeOf(p) /\ NoNode(p) /\ NoTaskOf(p)
    <3>1. PICK r \in Keys : InSpill(p, r) /\ \A s \in Keys : InSpill(p, s) => s = r
      BY <2>2 DEF OneSpill
    <3>2. InSpills(p) = {r}
      BY <1>1, <3>1
    <3>3. InFiles(p) = {} /\ InTrees(p) = {} /\ InStore(p) = {} /\ InTasks(p) = {}
      BY <1>1, <1>2, <1>3, <2>2 DEF NoFile, NoTreeOf, NoNode, NoTaskOf
    <3>4. Homes(p) = {<<"spill", r>>}
      BY <3>2, <3>3 DEF Homes
    <3> QED
      BY <3>4
  <2>3. CASE NoFile(p) /\ NoSpill(p) /\ OneTree(p) /\ NoNode(p) /\ NoTaskOf(p)
    <3>1. PICK r \in Keys, k \in Keys :
             InTree(p, r, k) /\ \A s, m \in Keys : InTree(p, s, m) => s = r /\ m = k
      BY <2>3 DEF OneTree
    <3>2. InTrees(p) = {<<r, k>>}
      BY <1>2, <3>1
    <3>3. InFiles(p) = {} /\ InSpills(p) = {} /\ InStore(p) = {} /\ InTasks(p) = {}
      BY <1>1, <1>2, <1>3, <2>3 DEF NoFile, NoSpill, NoNode, NoTaskOf
    <3>4. Homes(p) = {<<"tree", <<r, k>>>>}
      BY <3>2, <3>3 DEF Homes
    <3> QED
      BY <3>4
  <2>4. CASE NoFile(p) /\ NoSpill(p) /\ NoTreeOf(p) /\ OneNode(p) /\ NoTaskOf(p)
    <3>1. PICK k \in Keys : InNode(p, k) /\ \A m \in Keys : InNode(p, m) => m = k
      BY <2>4 DEF OneNode
    <3>2. InStore(p) = {k}
      BY <1>1, <3>1
    <3>3. InFiles(p) = {} /\ InSpills(p) = {} /\ InTrees(p) = {} /\ InTasks(p) = {}
      BY <1>1, <1>2, <1>3, <2>4 DEF NoFile, NoSpill, NoTreeOf, NoTaskOf
    <3>4. Homes(p) = {<<"store", k>>}
      BY <3>2, <3>3 DEF Homes
    <3> QED
      BY <3>4
  <2>5. CASE NoFile(p) /\ NoSpill(p) /\ NoTreeOf(p) /\ NoNode(p) /\ OneTask(p)
    <3>1. PICK q \in Keys, k \in Keys :
             InTask(p, q, k) /\ \A s, m \in Keys : InTask(p, s, m) => s = q /\ m = k
      BY <2>5 DEF OneTask
    <3>2. InTasks(p) = {<<q, k>>}
      BY <1>3, <3>1
    <3>3. InFiles(p) = {} /\ InSpills(p) = {} /\ InTrees(p) = {} /\ InStore(p) = {}
      BY <1>1, <1>2, <1>3, <2>5 DEF NoFile, NoSpill, NoTreeOf, NoNode
    <3>4. Homes(p) = {<<"task", <<q, k>>>>}
      BY <3>2, <3>3 DEF Homes
    <3> QED
      BY <3>4
  <2> QED
    BY <2>1, <2>2, <2>3, <2>4, <2>5 DEF Once
<1> QED
  BY <1>4, FS_Singleton

\* While no task changes, neither does what tasks hold.
LEMMA PendingSame ==
    ASSUME task' = task, pos' = pos
    PROVE  /\ \A q : Pending(q)' = Pending(q)
           /\ \A p, q, k : InTask(p, q, k)' <=> InTask(p, q, k)
           /\ store' = store => \A p, k : InNode(p, k)' <=> InNode(p, k)
<1>1. \A q : Pending(q)' = Pending(q)
  BY DEF Pending
<1>2. \A q, k : PendingPoints(q, k)' = PendingPoints(q, k)
  BY DEF PendingPoints
<1> QED
  BY <1>1, <1>2 DEF InTask, InNode

\* The steps that move no point: only what no longer counts is dropped.
LEMMA NothingMoves ==
    ASSUME PointsOnce, UNCHANGED <<pos, plan, store, task>>,
           \A p, c : c \in plan => (InFile(p, c)' <=> InFile(p, c)),
           \A p, r : r \in Keys => (InSpill(p, r)' <=> InSpill(p, r)),
           \A p, r, k : InTree(p, r, k)' <=> InTree(p, r, k)
    PROVE  PointsOnce'
BY PendingSame, StaysOnce DEF PointsOnce

\* A finished subtree holds no point.
LEMMA TreeBuiltMoves ==
    ASSUME IInv, PointsOnce, NEW r \in Keys, TreeBuilt(r)
    PROVE  PointsOnce'
<1>1. /\ tree[r] \in Trees /\ tree \in [Keys -> Trees] /\ tree[r].at = "writing"
      /\ tree' = [tree EXCEPT ![r] =
                   [at |-> "built", level |-> tree[r].level, nodes |-> tree[r].nodes]]
      /\ UNCHANGED <<pos, plan, chunkFile, job, spill, store, task>>
  BY Typed DEF IInv, TreeBuilt, fixed
<1>2. \A s : tree'[s].nodes = tree[s].nodes /\ (tree'[s].at = "none" <=> tree[s].at = "none")
  BY <1>1
<1> QED
  BY <1>1, <1>2, NothingMoves DEF InFile, InSpill, InTree

\* A chunk's file stops counting when the subtree or the spill takes it up, the
\* spill's when the subtree does: removing them loses nothing.
LEMMA ChunkEndMoves ==
    ASSUME IInv, PointsOnce, NEW c \in plan,
           FinishInMemory(c) \/ FinishSubOctants(c) \/ FinishLocalMerge(c)
    PROVE  PointsOnce'
<1>1. /\ TypeOK /\ c \in Keys /\ job \in [Keys -> Jobs] /\ spill \in [Keys -> SUBSET Points]
      /\ chunkFile \in [Keys -> SUBSET Points]
  BY Typed, PlanApart DEF IInv
<1>2. /\ UNCHANGED <<pos, plan, tree, store, task>>
      /\ \A d \in Keys \ {c} : job'[d] = job[d] /\ chunkFile'[d] = chunkFile[d]
      /\ job[c].at # "waiting" /\ job'[c].at # "waiting"
  <2>1. CASE FinishInMemory(c)
    BY <1>1, <2>1 DEF FinishInMemory, ChunkBuilt, fixed
  <2>2. CASE FinishSubOctants(c)
    <3>1. /\ ChunkBuilt(c, {}) \/ (LocalMerge(c) /\ chunkFile' = chunkFile)
          /\ UNCHANGED <<pos, plan, tree, store, task>> /\ job[c].at = "building"
      BY <2>2 DEF FinishSubOctants, fixed, Spilled
    <3> QED
      BY <1>1, <3>1 DEF ChunkBuilt, LocalMerge
  <2>3. CASE FinishLocalMerge(c)
    BY <1>1, <2>3 DEF FinishLocalMerge, ChunkBuilt, fixed
  <2> QED
    BY <2>1, <2>2, <2>3
<1>3. \A r \in Keys : tree[r].at = "none" => spill'[r] = spill[r]
  <2>1. CASE FinishSubOctants(c)
    <3>1. /\ spill' = [r \in Keys |-> IF IsUnder(r, c) THEN {} ELSE spill[r]]
          /\ \A r \in SubRoots(c) : tree[r].at = "built"
      BY <2>1 DEF FinishSubOctants
    <3> QED
      BY <3>1 DEF SubRoots
  <2>2. CASE FinishInMemory(c) \/ FinishLocalMerge(c)
    BY <2>2 DEF FinishInMemory, FinishLocalMerge
  <2> QED
    BY <2>1, <2>2
<1>4. \A p, d : d \in plan => (InFile(p, d)' <=> InFile(p, d))
  BY <1>1, <1>2, PlanApart DEF InFile
<1>5. \A p, r : r \in Keys => (InSpill(p, r)' <=> InSpill(p, r))
  BY <1>2, <1>3 DEF InSpill
<1>6. \A p, r, k : InTree(p, r, k)' <=> InTree(p, r, k)
  BY <1>2 DEF InTree
<1> QED
  BY <1>2, <1>4, <1>5, <1>6, NothingMoves

\* Steps between the phases move no point.
LEMMA PhaseMoves ==
    ASSUME PointsOnce,
           UNCHANGED vars \/ Fail \/ StartMerge \/ Assemble
             \/ \E o \in Keys : EndMerge(o)
    PROVE  PointsOnce'
<1>1. UNCHANGED <<pos, plan, chunkFile, job, spill, tree, store, task>>
  BY DEF vars, Fail, StartMerge, Assemble, EndMerge, fixed
<1> QED
  BY <1>1, NothingMoves DEF InFile, InSpill, InTree

-----------------------------------------------------------------------------
(* Chunks and spills                                                        *)

\* A subtree begun takes each of its points into one leaf.
LEMMA LoadedOnce ==
    ASSUME TypeOK, SplitsBounded, NEW c \in plan, NEW r \in Keys,
           IsUnder(r, c), Len(r) <= Len(c) + SpillCap,
           NEW pts \in SUBSET Points, \A p \in pts : LiesIn(p, r),
           NEW p \in pts
    PROVE  \E k \in Keys : /\ p \in Loaded(r, pts).nodes[k]
                           /\ \A m \in Keys : p \in Loaded(r, pts).nodes[m] => m = k
<1> DEFINE t == Loaded(r, pts)
<1>1. /\ \A k \in Keys : \A x \in t.nodes[k] : x \in pts /\ LiesIn(x, k)
      /\ \A k, m \in Keys : t.nodes[k] # {} /\ t.nodes[m] # {} /\ IsUnder(m, k) => m = k
      /\ \A x \in pts : \E k \in Keys : x \in t.nodes[k]
  BY LoadedFits
<1> HIDE DEF t
<1>2. PICK k \in Keys : p \in t.nodes[k]
  BY <1>1
<1>3. ASSUME NEW m \in Keys, p \in t.nodes[m] PROVE m = k
  <2>1. LiesIn(p, m) /\ LiesIn(p, k) /\ Len(m) \in Nat /\ Len(k) \in Nat /\ p \in Points
    BY <1>1, <1>2, <1>3, KeyLength
  <2>2. IsUnder(m, k) \/ IsUnder(k, m)
    BY <2>1, LiesInBoth
  <2> QED
    BY <1>1, <1>2, <1>3, <2>2
<1> QED
  BY <1>2, <1>3 DEF t

\* No subtree is begun, nor a spill written, under a chunk that waits.
LEMMA WaitingUntouched ==
    ASSUME IInv, NEW c \in plan, job[c].at = "waiting", NEW r \in Keys, IsUnder(r, c)
    PROVE  tree[r].at = "none" /\ spill[r] = {} /\ \A k \in Keys : tree[r].nodes[k] = {}
<1>1. TypeOK
  BY DEF IInv
<1>2. \A d \in plan : IsUnder(r, d) => d = c
  BY <1>1, PlanApart
<1>3. tree[r].at = "none"
  BY <1>2 DEF IInv, TreesPlaced
<1>4. spill[r] = {}
  BY <1>2 DEF IInv, SpillsPlaced
<1>5. \A k \in Keys : tree[r].nodes[k] = {}
  BY <1>3 DEF IInv, TreesInside
<1> QED
  BY <1>3, <1>4, <1>5

\* From the chunk's file into its subtree.
LEMMA BuildInMemoryMoves ==
    ASSUME IInv, PointsOnce, NEW c \in plan, BuildInMemory(c)
    PROVE  PointsOnce'
<1> DEFINE t == Loaded(c, chunkFile[c])
<1>1. /\ TypeOK /\ SplitsBounded /\ c \in Keys /\ plan \subseteq Keys
      /\ tree \in [Keys -> Trees] /\ job \in [Keys -> Jobs]
      /\ chunkFile[c] \in SUBSET Points
      /\ job[c].at = "waiting"
      /\ tree' = [tree EXCEPT ![c] = t]
      /\ job' = [job EXCEPT ![c] = [at |-> "building", split |-> Len(c), made |-> {}]]
      /\ UNCHANGED <<pos, plan, chunkFile, spill, store, task>>
  BY Typed, PlanApart DEF IInv, BuildInMemory, fixed
<1>2. IsUnder(c, c) /\ Len(c) <= Len(c) + SpillCap
  BY <1>1, UnderReflexive, KeyLength, OctreeBuildAssumption
<1>3. \A p \in chunkFile[c] : LiesIn(p, c)
  BY <1>1, InsideLies DEF IInv, PointsInPlace
<1>4. /\ t.at \in {"built", "leaves"}
      /\ \A k \in Keys : \A p \in t.nodes[k] : p \in chunkFile[c]
  <2>1. /\ t.at = (IF chunkFile[c] = {} THEN "built" ELSE "leaves")
        /\ \A k \in Keys : \A p \in t.nodes[k] : p \in chunkFile[c] /\ LiesIn(p, k)
    BY <1>1, <1>2, <1>3, LoadedFits
  <2> HIDE DEF t
  <2> QED
    BY <2>1
<1>5. \A p \in chunkFile[c] :
         \E k \in Keys : p \in t.nodes[k] /\ \A m \in Keys : p \in t.nodes[m] => m = k
  BY <1>1, <1>2, <1>3, LoadedOnce
<1> HIDE DEF t
<1>6. /\ tree'[c] = t /\ \A s \in Keys \ {c} : tree'[s] = tree[s]
      /\ job'[c].at = "building" /\ \A d \in Keys \ {c} : job'[d] = job[d]
  BY <1>1
<1>7. tree[c].at = "none" /\ spill[c] = {} /\ \A k \in Keys : tree[c].nodes[k] = {}
  BY <1>1, <1>2, WaitingUntouched
<1>8. \A p : \A r \in Keys : InSpill(p, r)' <=> InSpill(p, r)
  BY <1>1, <1>4, <1>6, <1>7 DEF InSpill
<1>9. /\ \A p, q, k : InTask(p, q, k)' <=> InTask(p, q, k)
      /\ \A p, k : InNode(p, k)' <=> InNode(p, k)
  BY <1>1, PendingSame
<1>10. ASSUME NEW p \in Points, p \notin chunkFile[c] PROVE Once(p)'
  <2>1. \A d \in plan : InFile(p, d)' <=> InFile(p, d)
    BY <1>1, <1>6, <1>10 DEF InFile
  <2>2. \A r, k \in Keys : InTree(p, r, k)' <=> InTree(p, r, k)
    BY <1>4, <1>6, <1>7, <1>10 DEF InTree
  <2> QED
    BY <1>1, <1>8, <1>9, <2>1, <2>2, StaysOnce DEF PointsOnce
<1>11. ASSUME NEW p \in Points, p \in chunkFile[c] PROVE Once(p)'
  <2>1. OneFile(p) /\ NoSpill(p) /\ NoTreeOf(p) /\ NoNode(p) /\ NoTaskOf(p)
    <3>1. InFile(p, c)
      BY <1>1, <1>11 DEF InFile
    <3> QED
      BY <3>1, InOnePlace DEF PointsOnce
  <2>2. NoFile(p)'
    <3>1. \A d \in plan : InFile(p, d) => d = c
      BY <1>1, <1>11, <2>1 DEF OneFile, InFile
    <3> QED
      BY <1>1, <1>6, <3>1 DEF NoFile, InFile
  <2>3. NoSpill(p)' /\ NoNode(p)' /\ NoTaskOf(p)'
    BY <1>8, <1>9, <2>1 DEF NoSpill, NoNode, NoTaskOf
  <2>4. OneTree(p)'
    <3>1. PICK k \in Keys : p \in t.nodes[k] /\ \A m \in Keys : p \in t.nodes[m] => m = k
      BY <1>5, <1>11
    <3>2. InTree(p, c, k)'
      BY <1>6, <3>1 DEF InTree
    <3>3. ASSUME NEW s \in Keys, NEW m \in Keys, InTree(p, s, m)' PROVE s = c /\ m = k
      BY <1>6, <2>1, <3>1, <3>3 DEF InTree, NoTreeOf
    <3> QED
      BY <1>1, <3>2, <3>3 DEF OneTree
  <2> QED
    BY <2>2, <2>3, <2>4 DEF Once
<1> QED
  BY <1>10, <1>11 DEF PointsOnce

\* From the chunk's file into those of its octants.
LEMMA SpillChunkMoves ==
    ASSUME IInv, PointsOnce, NEW c \in plan, SpillChunk(c)
    PROVE  PointsOnce'
<1> DEFINE split == SplitLevel(c)
<1>1. /\ TypeOK /\ c \in Keys /\ plan \subseteq Keys /\ Len(c) \in Nat
      /\ job \in [Keys -> Jobs] /\ job[c].at = "waiting"
      /\ job' = [job EXCEPT ![c] = [at |-> "building", split |-> split, made |-> {}]]
      /\ spill' = [k \in Keys |-> IF Len(k) = split /\ IsUnder(k, c)
                                  THEN Inside(chunkFile[c], k) ELSE spill[k]]
      /\ UNCHANGED <<pos, plan, chunkFile, tree, store, task>>
  BY Typed, PlanApart, KeyLength DEF IInv, SpillChunk, fixed
<1>2. split \in 0 .. Depth /\ Len(c) <= split
  <2>1. split \in Len(c) + 1 .. Len(c) + SpillCap
    BY <1>1, SplitLevelIs
  <2>2. Len(c) + SpillCap <= Depth
    <3>1. /\ SplitsBounded /\ IsUnder(c, c) /\ Len(c) <= Len(c) + SpillCap
          /\ plan \in Plans
      BY <1>1, UnderReflexive, OctreeBuildAssumption, Typed DEF IInv
    <3>2. Cardinality({}) = 0 /\ Cardinality(Points) \in Nat
      BY FS_EmptySet, VoxelTreeAssumption, FS_CardinalityType
    <3>3. 0 \in 0 .. Cardinality(Points)
      BY <3>2
    <3>4. Len(c) + SpillCap + ExtraLevels(0) <= Depth
      BY <3>1, <3>3, OctreeBuildAssumption
    <3>5. ExtraLevels(0) \in Nat
      <4>1. ExtraLevels(0) \in 0 .. 13
        BY ExtraLevelsLeast
      <4> QED
        BY <4>1
    <3>6. Len(c) \in Nat /\ SpillCap \in Nat /\ Depth \in Nat
      BY <1>1, OctreeBuildAssumption, VoxelTreeAssumption
    <3> HIDE DEF split
    <3> QED
      BY <3>4, <3>5, <3>6
  <2> QED
    BY <1>1, <2>1, <2>2, OctreeBuildAssumption, VoxelTreeAssumption
<1> HIDE DEF split
<1>3. job'[c].at = "building" /\ \A d \in Keys \ {c} : job'[d] = job[d]
  BY <1>1
<1>4. \A r \in Keys : IsUnder(r, c) => tree[r].at = "none" /\ spill[r] = {}
  BY <1>1, WaitingUntouched
<1>5. /\ \A p, q, k : InTask(p, q, k)' <=> InTask(p, q, k)
      /\ \A p, k : InNode(p, k)' <=> InNode(p, k)
      /\ \A p, r, k : InTree(p, r, k)' <=> InTree(p, r, k)
  BY <1>1, PendingSame DEF InTree
<1>6. ASSUME NEW p \in Points, p \notin chunkFile[c] PROVE Once(p)'
  <2>1. \A d \in plan : InFile(p, d)' <=> InFile(p, d)
    BY <1>1, <1>3, <1>6 DEF InFile
  <2>2. \A r \in Keys : InSpill(p, r)' <=> InSpill(p, r)
    BY <1>1, <1>4, <1>6 DEF InSpill, Inside
  <2> QED
    BY <1>1, <1>5, <2>1, <2>2, StaysOnce DEF PointsOnce
<1>7. ASSUME NEW p \in Points, p \in chunkFile[c] PROVE Once(p)'
  <2>1. OneFile(p) /\ NoSpill(p) /\ NoTreeOf(p) /\ NoNode(p) /\ NoTaskOf(p)
    <3>1. InFile(p, c)
      BY <1>1, <1>7 DEF InFile
    <3> QED
      BY <3>1, InOnePlace DEF PointsOnce
  <2>2. NoFile(p)'
    <3>1. \A d \in plan : InFile(p, d) => d = c
      BY <1>1, <1>7, <2>1 DEF OneFile, InFile
    <3> QED
      BY <1>1, <1>3, <3>1 DEF NoFile, InFile
  <2>3. NoTreeOf(p)' /\ NoNode(p)' /\ NoTaskOf(p)'
    BY <1>5, <2>1 DEF NoTreeOf, NoNode, NoTaskOf
  <2>4. OneSpill(p)'
    <3>1. LiesIn(p, c)
      BY <1>1, <1>7, InsideLies DEF IInv, PointsInPlace
    <3>2. PICK k \in Keys : Len(k) = split /\ LiesIn(p, k) /\ IsUnder(k, c)
      BY <1>1, <1>2, <3>1, LiesBelow
    <3>3. InSpill(p, k)'
      BY <1>1, <1>4, <1>7, <3>2, InsideLies DEF InSpill
    <3>4. ASSUME NEW m \in Keys, InSpill(p, m)' PROVE m = k
      <4>1. Len(m) = split /\ LiesIn(p, m)
        BY <1>1, <2>1, <3>4, InsideLies DEF InSpill, NoSpill
      <4> QED
        BY <1>1, <1>2, <3>2, <4>1, LiesInBoth
    <3> QED
      BY <3>3, <3>4 DEF OneSpill
  <2> QED
    BY <2>2, <2>3, <2>4 DEF Once
<1> QED
  BY <1>6, <1>7 DEF PointsOnce

\* From an octant's file into its subtree.
LEMMA BuildSubOctantMoves ==
    ASSUME IInv, PointsOnce, NEW c \in plan, NEW r \in SubRoots(c), BuildSubOctant(c, r)
    PROVE  PointsOnce'
<1> DEFINE t == Loaded(r, spill[r])
<1>1. /\ TypeOK /\ SplitsBounded /\ r \in Keys /\ IsUnder(r, c) /\ plan \subseteq Keys
      /\ tree \in [Keys -> Trees] /\ spill[r] \in SUBSET Points /\ spill[r] # {}
      /\ tree[r].at = "none"
      /\ tree' = [tree EXCEPT ![r] = t]
      /\ UNCHANGED <<pos, plan, chunkFile, job, spill, store, task>>
  BY Typed, PlanApart DEF IInv, BuildSubOctant, SubRoots, fixed
<1>2. Len(r) <= Len(c) + SpillCap
  <2>1. PICK d \in plan : IsUnder(r, d) /\ job[d].at = "building" /\ job[d].split = Len(r)
    BY <1>1 DEF IInv, SpillsPlaced
  <2>2. d = c /\ job[c].split \in Len(c) .. Len(c) + SpillCap
    BY <1>1, <2>1, PlanApart DEF SplitsBounded
  <2> QED
    BY <1>1, <2>1, <2>2, KeyLength, OctreeBuildAssumption
<1>3. \A p \in spill[r] : LiesIn(p, r)
  BY <1>1 DEF IInv, PointsInPlace
<1>4. /\ t.at = "leaves"
      /\ \A k \in Keys : \A p \in t.nodes[k] : p \in spill[r]
  <2>1. /\ t.at = (IF spill[r] = {} THEN "built" ELSE "leaves")
        /\ \A k \in Keys : \A p \in t.nodes[k] : p \in spill[r] /\ LiesIn(p, k)
    BY <1>1, <1>2, <1>3, LoadedFits
  <2> HIDE DEF t
  <2> QED
    BY <1>1, <2>1
<1>5. \A p \in spill[r] :
         \E k \in Keys : p \in t.nodes[k] /\ \A m \in Keys : p \in t.nodes[m] => m = k
  BY <1>1, <1>2, <1>3, LoadedOnce
<1> HIDE DEF t
<1>6. tree'[r] = t /\ \A s \in Keys \ {r} : tree'[s] = tree[s]
  BY <1>1
<1>7. \A k \in Keys : tree[r].nodes[k] = {}
  BY <1>1 DEF IInv, TreesInside
<1>8. /\ \A p, q, k : InTask(p, q, k)' <=> InTask(p, q, k)
      /\ \A p, k : InNode(p, k)' <=> InNode(p, k)
      /\ \A p, d : InFile(p, d)' <=> InFile(p, d)
  BY <1>1, PendingSame DEF InFile
<1>9. ASSUME NEW p \in Points, p \notin spill[r] PROVE Once(p)'
  <2>1. \A s \in Keys : InSpill(p, s)' <=> InSpill(p, s)
    BY <1>1, <1>4, <1>6, <1>9 DEF InSpill
  <2>2. \A s, k \in Keys : InTree(p, s, k)' <=> InTree(p, s, k)
    BY <1>4, <1>6, <1>7, <1>9 DEF InTree
  <2> QED
    BY <1>1, <1>8, <2>1, <2>2, StaysOnce DEF PointsOnce
<1>10. ASSUME NEW p \in Points, p \in spill[r] PROVE Once(p)'
  <2>1. NoFile(p) /\ OneSpill(p) /\ NoTreeOf(p) /\ NoNode(p) /\ NoTaskOf(p)
    <3>1. InSpill(p, r)
      BY <1>1, <1>10 DEF InSpill
    <3> QED
      BY <1>1, <3>1, InOnePlace DEF PointsOnce
  <2>2. NoSpill(p)'
    <3>1. \A s \in Keys : InSpill(p, s) => s = r
      BY <1>1, <1>10, <2>1 DEF OneSpill, InSpill
    <3> QED
      BY <1>1, <1>4, <1>6, <3>1 DEF NoSpill, InSpill
  <2>3. NoFile(p)' /\ NoNode(p)' /\ NoTaskOf(p)'
    BY <1>1, <1>8, <2>1 DEF NoFile, NoNode, NoTaskOf
  <2>4. OneTree(p)'
    <3>1. PICK k \in Keys : p \in t.nodes[k] /\ \A m \in Keys : p \in t.nodes[m] => m = k
      BY <1>5, <1>10
    <3>2. InTree(p, r, k)'
      BY <1>6, <3>1 DEF InTree
    <3>3. ASSUME NEW s \in Keys, NEW m \in Keys, InTree(p, s, m)' PROVE s = r /\ m = k
      BY <1>6, <2>1, <3>1, <3>3 DEF InTree, NoTreeOf
    <3> QED
      BY <1>1, <3>2, <3>3 DEF OneTree
  <2> QED
    BY <2>2, <2>3, <2>4 DEF Once
<1> QED
  BY <1>9, <1>10 DEF PointsOnce

-----------------------------------------------------------------------------
(* Within one subtree                                                       *)

\* A step of one subtree that moves points within it.
LEMMA WithinTree ==
    ASSUME IInv, PointsOnce, NEW r \in Keys, NEW t,
           tree' = [tree EXCEPT ![r] = t], tree[r].at # "none", t.at # "none",
           UNCHANGED <<pos, plan, chunkFile, job, spill, store, task>>,
           \A k \in Keys : \A p \in tree[r].nodes[k] :
              (\A m \in Keys : p \in tree[r].nodes[m] => m = k) =>
                 \E m \in Keys : /\ p \in t.nodes[m]
                                 /\ \A x \in Keys : p \in t.nodes[x] => x = m,
           \A m \in Keys : \A p \in t.nodes[m] : \E k \in Keys : p \in tree[r].nodes[k]
    PROVE  PointsOnce'
<1>1. tree'[r] = t /\ \A s \in Keys \ {r} : tree'[s] = tree[s]
  BY Typed DEF IInv
<1>2. /\ \A p, q, k : InTask(p, q, k)' <=> InTask(p, q, k)
      /\ \A p, k : InNode(p, k)' <=> InNode(p, k)
      /\ \A p, d : InFile(p, d)' <=> InFile(p, d)
      /\ \A p : \A s \in Keys : InSpill(p, s)' <=> InSpill(p, s)
  BY <1>1, PendingSame DEF InFile, InSpill
<1>3. ASSUME NEW p \in Points, \A k \in Keys : p \notin tree[r].nodes[k] PROVE Once(p)'
  <2>1. \A s, k \in Keys : InTree(p, s, k)' <=> InTree(p, s, k)
    BY <1>1, <1>3 DEF InTree
  <2> QED
    BY <1>2, <2>1, StaysOnce DEF PointsOnce
<1>4. ASSUME NEW p \in Points, NEW k \in Keys, p \in tree[r].nodes[k] PROVE Once(p)'
  <2>1. NoFile(p) /\ NoSpill(p) /\ OneTree(p) /\ NoNode(p) /\ NoTaskOf(p)
    <3>1. InTree(p, r, k)
      BY <1>4 DEF InTree
    <3> QED
      BY <3>1, InOnePlace DEF PointsOnce
  <2>2. \A s, m \in Keys : p \in tree[s].nodes[m] => s = r /\ m = k
    BY <1>4, <2>1 DEF OneTree, InTree
  <2>3. PICK m \in Keys : p \in t.nodes[m] /\ \A x \in Keys : p \in t.nodes[x] => x = m
    BY <1>4, <2>2
  <2>4. InTree(p, r, m)' /\ \A s, x \in Keys : InTree(p, s, x)' => s = r /\ x = m
    BY <1>1, <2>2, <2>3 DEF InTree
  <2>5. OneTree(p)'
    BY <2>4 DEF OneTree
  <2>6. NoFile(p)' /\ NoSpill(p)' /\ NoNode(p)' /\ NoTaskOf(p)'
    BY <1>2, <2>1 DEF NoFile, NoSpill, NoNode, NoTaskOf
  <2> QED
    BY <2>5, <2>6 DEF Once
<1> QED
  BY <1>3, <1>4 DEF PointsOnce

\* From an oversized leaf into the leaves below it.
LEMMA SubdivideMoves ==
    ASSUME IInv, PointsOnce, NEW r \in Keys, Subdivide(r)
    PROVE  PointsOnce'
<1> DEFINE nodes == tree[r].nodes
           over  == Oversized(nodes)
           t     == tree'[r]
<1>1. /\ tree' = [tree EXCEPT ![r] = t]
      /\ UNCHANGED <<fixed, chunkFile, job, spill, store, merge, task, phase, result>>
      /\ t \in Trees /\ Len(r) <= t.level
      /\ \A k \in over : k \in Keys /\ nodes[k] # {}
      /\ \/ /\ t.at = "sampling" /\ t.nodes = nodes /\ t.level = tree[r].level
            /\ over = {} \/ \E k \in over : Len(k) >= DepthCap
         \/ /\ t.at = "leaves"
            /\ over # {} /\ \A k \in over : Len(k) + 1 \in 0 .. Depth
            /\ \A k \in over : Len(k) < DepthCap
            /\ \A k \in over : Len(k) + 1 <= t.level
            /\ t.level = tree[r].level \/ \E k \in over : t.level = Len(k) + 1
            /\ \A k \in Keys :
                  t.nodes[k] =
                    IF k \in over THEN {}
                    ELSE IF k # Root /\ Parent(k) \in over
                         THEN Inside(nodes[Parent(k)], k) ELSE nodes[k]
  BY SubdivideNodes
<1>2. /\ TypeOK /\ tree[r].at = "leaves" /\ tree[r].at # "none" /\ t.at # "none"
      /\ nodes \in [Keys -> SUBSET Points]
      /\ UNCHANGED <<pos, plan, chunkFile, job, spill, store, task>>
  BY <1>1, Typed DEF IInv, Subdivide, Trees, fixed
<1>3. /\ \A k \in Keys : \A p \in nodes[k] : LiesIn(p, k)
      /\ \A k, m \in Keys : nodes[k] # {} /\ nodes[m] # {} /\ IsUnder(m, k) => m = k
  BY <1>2 DEF IInv, PointsInPlace, LeavesApart
<1>4. CASE t.nodes = nodes
  <2>1. \A k \in Keys : \A p \in tree[r].nodes[k] :
           (\A m \in Keys : p \in tree[r].nodes[m] => m = k) =>
              \E m \in Keys : /\ p \in t.nodes[m]
                              /\ \A x \in Keys : p \in t.nodes[x] => x = m
    BY <1>4
  <2>2. \A m \in Keys : \A p \in t.nodes[m] : \E k \in Keys : p \in tree[r].nodes[k]
    BY <1>4
  <2> HIDE DEF t
  <2> QED
    BY <1>1, <1>2, <2>1, <2>2, WithinTree
<1>5. CASE /\ \A k \in over : Len(k) + 1 \in 0 .. Depth
           /\ \A k \in Keys :
                  t.nodes[k] =
                    IF k \in over THEN {}
                    ELSE IF k # Root /\ Parent(k) \in over
                         THEN Inside(nodes[Parent(k)], k) ELSE nodes[k]
  <2> HIDE DEF t, over
  <2>1. \A x \in over : x \in Keys /\ Len(x) + 1 \in 0 .. Depth /\ t.nodes[x] = {}
    BY <1>1, <1>5
  <2>2. ASSUME NEW x \in Keys, NEW p \in t.nodes[x]
        PROVE  /\ x \notin over
               /\ \/ x # Root /\ Parent(x) \in over /\ p \in nodes[Parent(x)] /\ LiesIn(p, x)
                  \/ ~(x # Root /\ Parent(x) \in over) /\ p \in nodes[x]
    <3>1. x \notin over
      BY <2>1, <2>2
    <3>2. t.nodes[x] = IF x # Root /\ Parent(x) \in over
                       THEN Inside(nodes[Parent(x)], x) ELSE nodes[x]
      <4>1. t.nodes[x] = IF x \in over THEN {}
                         ELSE IF x # Root /\ Parent(x) \in over
                              THEN Inside(nodes[Parent(x)], x) ELSE nodes[x]
        BY <1>5
      <4> QED
        BY <3>1, <4>1
    <3>3. CASE x # Root /\ Parent(x) \in over
      <4>1. p \in Inside(nodes[Parent(x)], x)
        BY <2>2, <3>2, <3>3
      <4> QED
        BY <3>1, <3>3, <4>1, InsideLies
    <3>4. CASE ~(x # Root /\ Parent(x) \in over)
      BY <2>2, <3>1, <3>2, <3>4
    <3> QED
      BY <3>3, <3>4
  <2>3. \A x \in Keys : \A p \in t.nodes[x] : \E k \in Keys : p \in nodes[k]
    BY <2>1, <2>2
  <2>4. ASSUME NEW k \in Keys, NEW p \in nodes[k], \A m \in Keys : p \in nodes[m] => m = k
        PROVE  \E m \in Keys : /\ p \in t.nodes[m]
                               /\ \A x \in Keys : p \in t.nodes[x] => x = m
    <3>1. CASE k \in over
      <4>1. p \in Points /\ LiesIn(p, k) /\ Len(k) + 1 \in 0 .. Depth /\ Len(k) \in Nat
        BY <1>2, <1>3, <2>1, <3>1, <2>4, KeyLength
      <4>2. PICK m \in Keys : /\ Len(m) = Len(k) + 1 /\ LiesIn(p, m) /\ IsUnder(m, k)
                              /\ m # Root /\ Parent(m) = k
        <5>1. Len(k) <= Len(k) + 1
          BY <4>1
        <5> QED
          BY <1>2, <4>1, <5>1, LiesBelow
      <4>3. m # k
        BY <4>1, <4>2
      <4>4. m \notin over
        BY <1>1, <1>3, <2>4, <4>2, <4>3
      <4>5. t.nodes[m] = Inside(nodes[k], m)
        BY <1>5, <3>1, <4>2, <4>4
      <4>6. p \in t.nodes[m]
        BY <2>4, <4>2, <4>5, InsideLies
      <4>7. ASSUME NEW x \in Keys, p \in t.nodes[x] PROVE x = m
        <5>1. x \notin over /\ x # Root /\ Parent(x) \in over /\ p \in nodes[Parent(x)]
              /\ LiesIn(p, x)
          BY <2>2, <2>4, <3>1, <4>7
        <5>2. Parent(x) = k
          BY <2>1, <2>4, <5>1
        <5>3. Len(x) = Len(m)
          BY <4>1, <4>2, <5>1, <5>2, ParentIsKey, KeyLength
        <5> QED
          BY <1>2, <4>1, <4>2, <5>1, <5>3, LiesInBoth, KeyLength
      <4> QED
        BY <4>6, <4>7
    <3>2. CASE k \notin over
      <4>1. ~(k # Root /\ Parent(k) \in over)
        <5>1. ASSUME k # Root, Parent(k) \in over PROVE FALSE
          <6>1. Parent(k) \in Keys /\ nodes[Parent(k)] # {} /\ IsUnder(k, Parent(k))
                /\ Parent(k) # k
            BY <1>1, <5>1, ParentIsKey, KeyLength
          <6> QED
            BY <1>3, <2>4, <6>1
        <5> QED
          BY <5>1
      <4>2. t.nodes[k] = nodes[k]
        <5>1. t.nodes[k] = IF k \in over THEN {}
                           ELSE IF k # Root /\ Parent(k) \in over
                                THEN Inside(nodes[Parent(k)], k) ELSE nodes[k]
          BY <1>5
        <5> QED
          BY <3>2, <4>1, <5>1
      <4>3. ASSUME NEW x \in Keys, p \in t.nodes[x] PROVE x = k
        BY <2>1, <2>2, <2>4, <3>2, <4>3
      <4> QED
        BY <2>4, <4>2, <4>3
    <3> QED
      BY <3>1, <3>2
  <2> QED
    BY <1>1, <1>2, <2>3, <2>4, WithinTree
<1> QED
  BY <1>1, <1>4, <1>5

\* From the children into the parent sampled from them.
LEMMA SampleLevelMovesPoints ==
    ASSUME IInv, PointsOnce, NEW r \in Keys, SampleLevel(r)
    PROVE  PointsOnce'
<1> DEFINE nodes == tree[r].nodes
           t     == tree'[r]
           Got(q) == ChildrenIn(nodes, q)
<1>1. /\ tree' = [tree EXCEPT ![r] = t]
      /\ UNCHANGED <<fixed, chunkFile, job, spill, store, merge, task, phase, result>>
      /\ t \in Trees /\ Len(r) <= t.level
      /\ \/ t.at = "writing" /\ t.nodes = nodes
         \/ /\ t.at = "sampling" /\ tree[r].level = t.level + 1
            /\ \A k \in Keys : Len(k) = tree[r].level /\ nodes[k] # {} =>
                  t.nodes[k] = Remaining(Parent(k), pos, Got(Parent(k)), k)
            /\ \A k \in Keys : Len(k) = t.level /\ Sampled(k, pos, Got(k)) # {} =>
                  t.nodes[k] = Sampled(k, pos, Got(k))
            /\ \A k \in Keys :
                  \/ t.nodes[k] = nodes[k]
                  \/ Len(k) = tree[r].level /\ nodes[k] # {}
                  \/ Len(k) = t.level /\ Sampled(k, pos, Got(k)) # {}
  BY SampleLevelNodes
<1>2. /\ TypeOK /\ tree[r].at = "sampling" /\ tree[r].at # "none" /\ t.at # "none"
      /\ nodes \in [Keys -> SUBSET Points] /\ t.level \in Nat
      /\ UNCHANGED <<pos, plan, chunkFile, job, spill, store, task>>
  BY <1>1, Typed DEF IInv, SampleLevel, Trees, fixed
<1>3. CASE t.nodes = nodes
  <2>1. \A k \in Keys : \A p \in tree[r].nodes[k] :
           (\A m \in Keys : p \in tree[r].nodes[m] => m = k) =>
              \E m \in Keys : /\ p \in t.nodes[m]
                              /\ \A x \in Keys : p \in t.nodes[x] => x = m
    BY <1>3
  <2>2. \A m \in Keys : \A p \in t.nodes[m] : \E k \in Keys : p \in tree[r].nodes[k]
    BY <1>3
  <2> HIDE DEF t
  <2> QED
    BY <1>1, <1>2, <2>1, <2>2, WithinTree
<1>4. CASE /\ t.at = "sampling" /\ tree[r].level = t.level + 1
           /\ \A k \in Keys : Len(k) = tree[r].level /\ nodes[k] # {} =>
                 t.nodes[k] = Remaining(Parent(k), pos, Got(Parent(k)), k)
           /\ \A k \in Keys : Len(k) = t.level /\ Sampled(k, pos, Got(k)) # {} =>
                 t.nodes[k] = Sampled(k, pos, Got(k))
           /\ \A k \in Keys :
                 \/ t.nodes[k] = nodes[k]
                 \/ Len(k) = tree[r].level /\ nodes[k] # {}
                 \/ Len(k) = t.level /\ Sampled(k, pos, Got(k)) # {}
  <2> DEFINE Taken(q) == Sampled(q, pos, Got(q))
             Left(k)  == Remaining(Parent(k), pos, Got(Parent(k)), k)
  <2>1. /\ \A q : \A p \in Taken(q) :
               \E c \in Keys : c # Root /\ Parent(c) = q /\ p \in nodes[c]
        /\ \A c \in Keys : c # Root /\ nodes[c] # {} =>
               Left(c) \subseteq nodes[c] /\ Left(c) \cap Taken(Parent(c)) = {}
        /\ \A c \in Keys : c # Root => \A p \in nodes[c] :
               \/ p \in Taken(Parent(c))
               \/ \E e \in Keys : e # Root /\ nodes[e] # {} /\ p \in Left(e)
                                  /\ Parent(e) = Parent(c)
    <3>1. ASSUME NEW q
          PROVE  /\ \A p \in Taken(q) :
                       \E c \in Keys : c # Root /\ Parent(c) = q /\ p \in nodes[c]
                 /\ \A c \in Keys : c # Root /\ Parent(c) = q /\ nodes[c] # {} =>
                       /\ Remaining(q, pos, Got(q), c) \subseteq nodes[c]
                       /\ Remaining(q, pos, Got(q), c) \cap Taken(q) = {}
                 /\ \A c \in Keys : c # Root /\ Parent(c) = q =>
                       \A p \in nodes[c] :
                          \/ p \in Taken(q)
                          \/ \E e \in Keys : /\ e # Root /\ Parent(e) = q /\ nodes[e] # {}
                                            /\ p \in Remaining(q, pos, Got(q), e)
      BY <1>2, SampledFromChildren
    <3> QED
      BY <3>1
  <2>2. \A k \in Keys : Len(k) = tree[r].level /\ nodes[k] # {} => t.nodes[k] = Left(k)
    BY <1>4
  <2>3. \A k \in Keys : Len(k) = t.level /\ Taken(k) # {} => t.nodes[k] = Taken(k)
    BY <1>4
  <2>4. \A k \in Keys : \/ t.nodes[k] = nodes[k]
                        \/ Len(k) = tree[r].level /\ nodes[k] # {}
                        \/ Len(k) = t.level /\ Taken(k) # {}
    BY <1>4
  <2>5. tree[r].level = t.level + 1 /\ t.level \in Nat
    BY <1>2, <1>4
  <2>6. \A k \in Keys : Len(k) = tree[r].level =>
           k # Root /\ Parent(k) \in Keys /\ Len(Parent(k)) = t.level
    BY <2>5, RootIsKey, ParentIsKey, KeyLength
  <2>7. \A k, m \in Keys : nodes[k] # {} /\ nodes[m] # {} /\ IsUnder(m, k) /\ m # k
           => Len(m) > tree[r].level
    BY <1>2 DEF IInv, LeavesApart
  <2> HIDE DEF t, Taken, Left, nodes
  \* What a node of the new level took came from one level down; a node that
  \* took points had none of its own.
  <2>8. ASSUME NEW k \in Keys, NEW p \in Taken(k), Len(k) = t.level
        PROVE  \E c \in Keys : /\ c # Root /\ Parent(c) = k /\ p \in nodes[c]
                               /\ Len(c) = tree[r].level /\ IsUnder(c, k) /\ c # k
                               /\ nodes[k] = {}
    <3>1. PICK c \in Keys : c # Root /\ Parent(c) = k /\ p \in nodes[c]
      BY <2>1
    <3>2. Len(c) = tree[r].level /\ IsUnder(c, k) /\ c # k
      BY <2>5, <2>8, <3>1, ParentIsKey, KeyLength
    <3>3. nodes[k] = {}
      BY <2>5, <2>7, <3>1, <3>2
    <3> QED
      BY <3>1, <3>2, <3>3
  <2>9. ASSUME NEW x \in Keys, NEW p \in t.nodes[x]
        PROVE  \/ p \in nodes[x] /\ Len(x) # tree[r].level
               \/ Len(x) = tree[r].level /\ p \in Left(x) /\ p \in nodes[x]
               \/ Len(x) = t.level /\ p \in Taken(x)
    <3>1. CASE Len(x) = tree[r].level /\ nodes[x] # {}
      BY <2>1, <2>2, <2>6, <2>9, <3>1
    <3>2. CASE Len(x) = t.level /\ Taken(x) # {}
      BY <2>3, <2>9, <3>2
    <3>3. CASE t.nodes[x] = nodes[x] /\ ~(Len(x) = tree[r].level /\ nodes[x] # {})
      BY <2>9, <3>3
    <3> QED
      BY <2>4, <3>1, <3>2, <3>3
  <2>10. \A m \in Keys : \A p \in t.nodes[m] : \E k \in Keys : p \in nodes[k]
    BY <2>8, <2>9
  <2>11. ASSUME NEW k \in Keys, NEW p \in nodes[k], \A m \in Keys : p \in nodes[m] => m = k
         PROVE  \E m \in Keys : /\ p \in t.nodes[m]
                                /\ \A x \in Keys : p \in t.nodes[x] => x = m
    <3>1. CASE Len(k) = tree[r].level /\ p \in Taken(Parent(k))
      <4>1. p \in t.nodes[Parent(k)] /\ Parent(k) \in Keys /\ k # Root
        BY <2>3, <2>6, <3>1
      <4>2. ASSUME NEW x \in Keys, p \in t.nodes[x] PROVE x = Parent(k)
        <5>1. CASE p \in nodes[x]
          <6>1. x = k /\ p \in Left(k)
            BY <2>5, <2>8, <2>9, <2>11, <3>1, <4>2, <5>1
          <6> QED
            BY <2>1, <2>11, <3>1, <4>1, <6>1
        <5>2. CASE Len(x) = t.level /\ p \in Taken(x)
          BY <2>8, <2>11, <5>2
        <5> QED
          BY <2>9, <4>2, <5>1, <5>2
      <4> QED
        BY <4>1, <4>2
    <3>2. CASE Len(k) = tree[r].level /\ p \notin Taken(Parent(k))
      <4>1. k # Root
        BY <2>6, <3>2
      <4>2. PICK e \in Keys : e # Root /\ nodes[e] # {} /\ p \in Left(e)
        BY <2>1, <2>11, <3>2, <4>1
      <4>3. e = k /\ p \in Left(k)
        BY <2>1, <2>11, <4>2
      <4>4. p \in t.nodes[k]
        BY <2>2, <2>11, <3>2, <4>3
      <4>5. ASSUME NEW x \in Keys, p \in t.nodes[x] PROVE x = k
        <5>1. CASE Len(x) = t.level /\ p \in Taken(x)
          <6>1. x = Parent(k)
            BY <2>8, <2>11, <5>1
          <6> QED
            BY <3>2, <5>1, <6>1
        <5>2. CASE p \in nodes[x]
          BY <2>11, <5>2
        <5> QED
          BY <2>9, <4>5, <5>1, <5>2
      <4> QED
        BY <4>4, <4>5
    <3>3. CASE Len(k) # tree[r].level
      <4>1. ~(Len(k) = t.level /\ Taken(k) # {})
        BY <2>8, <2>11
      <4>2. t.nodes[k] = nodes[k]
        BY <2>4, <3>3, <4>1
      <4>3. ASSUME NEW x \in Keys, p \in t.nodes[x] PROVE x = k
        <5>1. CASE Len(x) = t.level /\ p \in Taken(x)
          BY <2>8, <2>11, <3>3, <5>1
        <5>2. CASE p \in nodes[x]
          BY <2>11, <5>2
        <5> QED
          BY <2>9, <4>3, <5>1, <5>2
      <4> QED
        BY <2>11, <4>2, <4>3
    <3> QED
      BY <3>1, <3>2, <3>3
  <2>12. /\ \A k \in Keys : \A p \in tree[r].nodes[k] :
              (\A m \in Keys : p \in tree[r].nodes[m] => m = k) =>
                 \E m \in Keys : /\ p \in t.nodes[m]
                                 /\ \A x \in Keys : p \in t.nodes[x] => x = m
         /\ \A m \in Keys : \A p \in t.nodes[m] : \E k \in Keys : p \in tree[r].nodes[k]
    BY <2>10, <2>11 DEF nodes
  <2> QED
    BY <1>1, <1>2, <2>12, WithinTree
<1> QED
  BY <1>1, <1>3, <1>4

-----------------------------------------------------------------------------
(* Into the store                                                           *)

\* What a task has yet to write is its own.
LEMMA PendingIsTasks ==
    ASSUME NEW q
    PROVE  Pending(q) \subseteq TaskKeys(q)
BY DEF Pending, TaskKeys

\* From a subtree into the store.
LEMMA WriteNodeMoves ==
    ASSUME IInv, PointsOnce, NEW r \in Keys, NEW k \in WritesOf(r), WriteNode(r, k)
    PROVE  PointsOnce'
<1> DEFINE t == [at |-> "writing", level |-> tree[r].level,
                 nodes |-> [tree[r].nodes EXCEPT ![k] = {}]]
<1>1. /\ TypeOK /\ k \in Keys /\ tree[r].at = "writing" /\ tree[r].nodes[k] # {}
      /\ tree \in [Keys -> Trees] /\ job \in [Keys -> Jobs] /\ store \in [Keys -> SUBSET Points]
      /\ tree[r].nodes \in [Keys -> SUBSET Points] /\ IsUnder(k, r)
      /\ tree' = [tree EXCEPT ![r] = t]
      /\ store' = [store EXCEPT ![k] = tree[r].nodes[k]]
      /\ UNCHANGED <<pos, plan, chunkFile, spill, task>>
  BY Typed DEF IInv, WriteNode, WritesOf, Trees, TreesInside, fixed
<1>2. /\ tree'[r].at = "writing" /\ tree'[r].nodes[k] = {}
      /\ \A m \in Keys \ {k} : tree'[r].nodes[m] = tree[r].nodes[m]
      /\ \A s \in Keys \ {r} : tree'[s] = tree[s]
      /\ store'[k] = tree[r].nodes[k] /\ \A m \in Keys \ {k} : store'[m] = store[m]
  BY <1>1
<1>3. PICK c \in plan : IsUnder(r, c) /\ job[c].at = "building" /\ job[c].split = Len(r)
  BY <1>1, TreeHome
<1>4. store[k] = {}
  BY <1>1, <1>3 DEF IInv, Unwritten
<1>5. \A q \in Keys : k \notin Pending(q)
  BY TreesBesideTasks, PendingIsTasks
<1>6. \A d \in plan : job'[d].at = job[d].at
  <2>1. ChunkOf(r) = c /\ plan \subseteq Keys
    BY <1>1, <1>3, ChunkIs, PlanApart
  <2>2. job' = [job EXCEPT ![c] = [at |-> job[c].at, split |-> job[c].split,
                                   made |-> job[c].made \cup {k}]]
    BY <2>1 DEF WriteNode
  <2> QED
    BY <1>1, <2>1, <2>2
<1>7. /\ \A q : Pending(q)' = Pending(q)
      /\ \A p, q, m : InTask(p, q, m)' <=> InTask(p, q, m)
  BY <1>1, PendingSame
<1>8. /\ \A p : \A d \in plan : InFile(p, d)' <=> InFile(p, d)
      /\ \A p : \A s \in Keys : InSpill(p, s)' <=> InSpill(p, s)
      /\ \A p : \A m \in Keys \ {k} : InNode(p, m)' <=> InNode(p, m)
      /\ \A p : \A s, m \in Keys : (s # r \/ m # k) => (InTree(p, s, m)' <=> InTree(p, s, m))
  <2>1. \A p : \A d \in plan : InFile(p, d)' <=> InFile(p, d)
    BY <1>1, <1>6 DEF InFile
  <2>2. \A p : \A s \in Keys : InSpill(p, s)' <=> InSpill(p, s)
    BY <1>1, <1>2 DEF InSpill
  <2>3. \A p : \A m \in Keys \ {k} : InNode(p, m)' <=> InNode(p, m)
    BY <1>2, <1>7 DEF InNode
  <2>4. \A p : \A s, m \in Keys : (s # r \/ m # k) => (InTree(p, s, m)' <=> InTree(p, s, m))
    BY <1>2 DEF InTree
  <2> QED
    BY <2>1, <2>2, <2>3, <2>4
<1>9. \A p : ~InTree(p, r, k)' /\ ~InNode(p, k) /\ (InNode(p, k)' <=> p \in tree[r].nodes[k])
  BY <1>2, <1>4, <1>5, <1>7 DEF InTree, InNode
<1>10. ASSUME NEW p \in Points, p \notin tree[r].nodes[k] PROVE Once(p)'
  <2>1. ~InTree(p, r, k)
    BY <1>10 DEF InTree
  <2> QED
    BY <1>1, <1>7, <1>8, <1>9, <1>10, <2>1, StaysOnce DEF PointsOnce
<1>11. ASSUME NEW p \in Points, p \in tree[r].nodes[k] PROVE Once(p)'
  <2>1. NoFile(p) /\ NoSpill(p) /\ OneTree(p) /\ NoNode(p) /\ NoTaskOf(p) /\ InTree(p, r, k)
    <3>1. InTree(p, r, k)
      BY <1>11 DEF InTree
    <3> QED
      BY <1>1, <3>1, InOnePlace DEF PointsOnce
  <2>2. NoTreeOf(p)'
    <3>1. \A s, m \in Keys : InTree(p, s, m) => s = r /\ m = k
      BY <1>1, <2>1 DEF OneTree
    <3> QED
      BY <1>8, <1>9, <3>1 DEF NoTreeOf
  <2>3. OneNode(p)'
    <3>1. \A m \in Keys : InNode(p, m)' <=> m = k
      BY <1>8, <1>9, <1>11, <2>1 DEF NoNode
    <3> QED
      BY <1>1, <3>1 DEF OneNode
  <2>4. NoFile(p)' /\ NoSpill(p)' /\ NoTaskOf(p)'
    BY <1>1, <1>7, <1>8, <2>1 DEF NoFile, NoSpill, NoTaskOf
  <2> QED
    BY <2>2, <2>3, <2>4 DEF Once
<1> QED
  BY <1>10, <1>11 DEF PointsOnce

-----------------------------------------------------------------------------
(* The tasks of a merge                                                     *)

\* The node a task is to write does not exist yet.
LEMMA TopUnwritten ==
    ASSUME IInv, NEW q \in Keys, task[q].at = "open"
    PROVE  store[q] = {}
<1>1. PICK o \in Keys :
         /\ merge[o].at = "sampling" /\ Len(q) + 1 = merge[o].from
         /\ MergesIn(o) \/ (MergesAll(o) /\ phase # "building")
         /\ MergesIn(o) => IsUnder(q, o) /\ Len(q) < job[o].split
         /\ MergesAll(o) => \A d \in plan : ~IsUnder(q, d)
  BY TaskZone
<1>2. ~Merged(o, q)
  BY <1>1, KeyLength DEF Merged
<1>3. CASE MergesIn(o)
  BY <1>1, <1>2, <1>3 DEF IInv, TopsUnwritten, MergesIn
<1>4. CASE MergesAll(o)
  BY <1>1, <1>2, <1>4 DEF IInv, TopsUnwritten, MergesAll
<1> QED
  BY <1>1, <1>3, <1>4

\* Tasks that are not open have nothing pending.
LEMMA QuietTasks ==
    ASSUME PointsOnce,
           UNCHANGED <<pos, plan, chunkFile, job, spill, tree, store>>,
           \A q \in Keys : task'[q] = task[q] \/ (Pending(q) = {} /\ Pending(q)' = {})
    PROVE  PointsOnce'
<1>1. \A q \in Keys : Pending(q)' = Pending(q)
  BY DEF Pending
<1>2. \A p : \A q, k \in Keys : InTask(p, q, k)' <=> InTask(p, q, k)
  <2>1. ASSUME NEW p, NEW q \in Keys, NEW k \in Keys PROVE InTask(p, q, k)' <=> InTask(p, q, k)
    <3>1. CASE task'[q] = task[q]
      BY <1>1, <3>1 DEF InTask, PendingPoints
    <3>2. CASE Pending(q) = {} /\ Pending(q)' = {}
      BY <3>2 DEF InTask
    <3> QED
      BY <3>1, <3>2
  <2> QED
    BY <2>1
<1>3. \A p : \A k \in Keys : InNode(p, k)' <=> InNode(p, k)
  BY <1>1 DEF InNode
<1>4. /\ \A p, d : InFile(p, d)' <=> InFile(p, d)
      /\ \A p, r : InSpill(p, r)' <=> InSpill(p, r)
      /\ \A p, r, k : InTree(p, r, k)' <=> InTree(p, r, k)
  BY DEF InFile, InSpill, InTree
<1> QED
  BY <1>2, <1>3, <1>4, StaysOnce DEF PointsOnce

\* A task begins with nothing to write.
LEMMA StartLevelMoves ==
    ASSUME IInv, PointsOnce, NEW o \in Keys, StartLevel(o)
    PROVE  PointsOnce'
<1>1. /\ TypeOK /\ MergesPlaced /\ task \in [Keys -> Tasks]
      /\ merge[o].at = "grouping" /\ merge[o].from > merge[o].stop /\ merge[o].stop = Len(o)
      /\ UNCHANGED <<pos, plan, chunkFile, job, spill, tree, store>>
      /\ task' = task \/ task' = OpenTasks(o)
  BY Typed DEF IInv, MergesPlaced, StartLevel, fixed
<1>2. CASE task' = task
  BY <1>1, <1>2, QuietTasks
<1>3. CASE task' = OpenTasks(o)
  <2>1. ASSUME NEW q \in Keys, q \in Parents(o)
        PROVE  task[q].at = "none" /\ task'[q].got = NoPoints
    <3>1. task'[q].got = NoPoints
      BY <1>3, <2>1 DEF OpenTasks
    <3>2. task[q].at = "none"
      BY <1>1, <2>1, FreshParents
    <3> QED
      BY <3>1, <3>2
  <2>2. \A q \in Keys : q \notin Parents(o) => task'[q] = task[q]
    BY <1>3 DEF OpenTasks
  <2>3. \A q \in Keys : task'[q] = task[q] \/ (Pending(q) = {} /\ Pending(q)' = {})
    <3>1. \A q \in Keys : q \in Parents(o) => Pending(q) = {} /\ Pending(q)' = {}
      <4>1. NoPoints' = NoPoints
        BY DEF NoPoints
      <4> QED
        BY <2>1, <4>1 DEF Pending
    <3> QED
      BY <2>2, <3>1
  <2> QED
    BY <1>1, <2>3, QuietTasks
<1> QED
  BY <1>1, <1>2, <1>3

\* A level ends when its tasks have nothing left to write.
LEMMA EndLevelMoves ==
    ASSUME IInv, PointsOnce, NEW o \in Keys, EndLevel(o)
    PROVE  PointsOnce'
<1>1. /\ \A q \in Parents(o) : task[q].at = "done"
      /\ task' = [q \in Keys |-> IF q \in Parents(o) THEN NoTask ELSE task[q]]
      /\ UNCHANGED <<pos, plan, chunkFile, job, spill, tree, store>>
  BY DEF EndLevel, fixed
<1>2. \A q \in Keys : task'[q] = task[q] \/ (task[q].at = "done" /\ task'[q].at = "none")
  BY <1>1 DEF NoTask
<1>3. \A q \in Keys : task'[q] = task[q] \/ (Pending(q) = {} /\ Pending(q)' = {})
  BY <1>2 DEF Pending
<1> QED
  BY <1>1, <1>3, QuietTasks

\* A task without children's points holds none.
LEMMA NothingToMergeMoves ==
    ASSUME IInv, PointsOnce, NEW q \in Keys, NothingToMerge(q)
    PROVE  PointsOnce'
<1>1. /\ task[q].got = NoPoints /\ task' = [task EXCEPT ![q] = DoneTask]
      /\ task \in [Keys -> Tasks]
      /\ UNCHANGED <<pos, plan, chunkFile, job, spill, tree, store>>
  BY Typed DEF IInv, NothingToMerge, fixed
<1>2. Pending(q) = {} /\ Pending(q)' = {} /\ \A s \in Keys : s # q => task'[s] = task[s]
  BY <1>1 DEF Pending, DoneTask
<1>3. \A s \in Keys : task'[s] = task[s] \/ (Pending(s) = {} /\ Pending(s)' = {})
  BY <1>2
<1> QED
  BY <1>1, <1>3, QuietTasks

\* A child is read.  With the last one the task holds what its children held,
\* and answers for every point of theirs.
LEMMA ReadChildMoves ==
    ASSUME IInv, PointsOnce, NEW q \in Keys, NEW k \in task[q].unread, ReadChild(q, k)
    PROVE  PointsOnce'
<1> DEFINE old == task[q]
           t == [at |-> "open", unread |-> old.unread \ {k}, unwritten |-> old.unwritten,
                 got |-> [old.got EXCEPT ![k] = store[k]]]
<1>1. /\ old \in Tasks /\ store \in [Keys -> SUBSET Points] /\ old.at = "open" /\ TypeOK
      /\ task \in [Keys -> Tasks]
      /\ task' = [task EXCEPT ![q] = t]
      /\ UNCHANGED <<pos, plan, chunkFile, job, spill, tree, store>>
      /\ old.unread \subseteq old.unwritten
      /\ \A m \in old.unwritten : m # Root /\ Parent(m) = q
      /\ \A m \in old.unwritten \ old.unread : old.got[m] = store[m]
      /\ \A m \in Keys : old.got[m] # {} => m \in old.unwritten \ old.unread
      /\ k \in old.unread
  BY Typed DEF IInv, ReadChild, Working, TasksRead, fixed
<1>2. /\ old.unread \subseteq Keys /\ old.unwritten \subseteq Keys
      /\ old.got \in [Keys -> SUBSET Points] /\ k \in Keys
  BY <1>1 DEF Tasks
<1>3. /\ t.at = "open" /\ t.got \in [Keys -> SUBSET Points]
      /\ t.unread = old.unread \ {k} /\ t.unwritten = old.unwritten
      /\ t.got[k] = store[k] /\ \A m \in Keys \ {k} : t.got[m] = old.got[m]
  BY <1>1, <1>2
<1>4. task'[q] = t /\ \A s \in Keys : s # q => task'[s] = task[s]
  BY <1>1
<1>5. Pending(q) = {}
  BY <1>1 DEF Pending
<1>6. Pending(q)' = IF t.unread = {} /\ t.got # NoPoints THEN old.unwritten \cup {q} ELSE {}
  <2>1. NoPoints' = NoPoints
    BY DEF NoPoints
  <2> HIDE DEF t, old
  <2> QED
    BY <1>3, <1>4, <2>1 DEF Pending
<1> HIDE DEF t
<1>7. CASE ~(t.unread = {} /\ t.got # NoPoints)
  <2>1. Pending(q)' = {}
    BY <1>6, <1>7
  <2>2. \A s \in Keys : task'[s] = task[s] \/ (Pending(s) = {} /\ Pending(s)' = {})
    BY <1>4, <1>5, <2>1
  <2> QED
    BY <1>1, <2>2, QuietTasks
<1>8. CASE t.unread = {} /\ t.got # NoPoints
  <2>1. Pending(q)' = old.unwritten \cup {q}
    BY <1>6, <1>8
  <2>2. \A m \in Keys : t.got[m] = (IF m \in old.unwritten THEN store[m] ELSE {})
    <3>1. ASSUME NEW m \in Keys, m \in old.unwritten PROVE t.got[m] = store[m]
      BY <1>1, <1>3, <1>8, <3>1
    <3>2. ASSUME NEW m \in Keys, m \notin old.unwritten PROVE t.got[m] = {}
      BY <1>1, <1>3, <3>2
    <3> QED
      BY <3>1, <3>2
  <2>3. \A s \in Keys : s # q => Pending(s)' = Pending(s)
    BY <1>4 DEF Pending
  <2>4. \A m \in old.unwritten \cup {q} : \A s \in Keys : m \notin Pending(s)
    <3>1. old.unwritten \cup {q} \subseteq TaskKeys(q)
      BY <1>1 DEF TaskKeys
    <3>2. \A s \in Keys : s # q => Pending(s) \cap TaskKeys(q) = {}
      BY PendingIsTasks, TasksApart
    <3> QED
      BY <1>5, <3>1, <3>2
  <2>5. store[q] = {}
    BY <1>1, TopUnwritten
  <2>6. q \notin old.unwritten
    BY <1>1, <1>2, ParentIsKey, KeyLength
  <2> DEFINE kept == Sampled(q, pos, t.got)
             Left(m) == Remaining(q, pos, t.got, m)
  <2>7. /\ \A p \in kept : \E m \in Keys : p \in t.got[m]
        /\ \A m \in Keys : Left(m) \subseteq t.got[m] /\ Left(m) \cap kept = {}
        /\ \A m \in Keys : \A p \in t.got[m] :
              p \in kept \/ \E e \in Keys : p \in Left(e)
    BY <1>3, TaskSamples
  <2>8. /\ \A p, m : InTask(p, q, m)' <=> \/ m = q /\ p \in kept
                                          \/ m \in old.unwritten /\ p \in Left(m)
        /\ \A p, s, m : s \in Keys /\ s # q => (InTask(p, s, m)' <=> InTask(p, s, m))
    <3>1. \A m : PendingPoints(q, m)' = (IF m = q THEN kept ELSE Left(m))
      BY <1>1, <1>4 DEF PendingPoints
    <3>2. \A p, m : InTask(p, q, m)' <=> \/ m = q /\ p \in kept
                                         \/ m \in old.unwritten /\ p \in Left(m)
      <4> HIDE DEF kept, Left, old
      <4> QED
        BY <2>1, <2>6, <3>1 DEF InTask
    <3>3. \A s, m : s \in Keys /\ s # q => PendingPoints(s, m)' = PendingPoints(s, m)
      BY <1>1, <1>4 DEF PendingPoints
    <3>4. \A p, s, m : s \in Keys /\ s # q => (InTask(p, s, m)' <=> InTask(p, s, m))
      BY <2>3, <3>3 DEF InTask
    <3> QED
      BY <3>2, <3>4
  <2> HIDE DEF kept, Left, old
  <2>9. \A p : \A m \in Keys :
           InNode(p, m)' <=> InNode(p, m) /\ m \notin old.unwritten \cup {q}
    <3>1. \A m \in Keys : (\A s \in Keys : m \notin Pending(s)') <=>
             (\A s \in Keys : m \notin Pending(s)) /\ m \notin old.unwritten \cup {q}
      BY <1>5, <2>1, <2>3
    <3> QED
      BY <1>1, <3>1 DEF InNode
  <2>10. /\ \A p, d : InFile(p, d)' <=> InFile(p, d)
         /\ \A p, r : InSpill(p, r)' <=> InSpill(p, r)
         /\ \A p, r, m : InTree(p, r, m)' <=> InTree(p, r, m)
    BY <1>1 DEF InFile, InSpill, InTree
  <2>11. \A p, m : ~InTask(p, q, m)
    BY <1>5 DEF InTask
  <2>12. ASSUME NEW p \in Points, \A m \in old.unwritten : p \notin store[m] PROVE Once(p)'
    <3>1. \A m \in Keys : p \notin t.got[m]
      BY <2>2, <2>12
    <3>2. p \notin kept /\ \A m \in Keys : p \notin Left(m)
      BY <2>7, <3>1
    <3>3. \A m : ~InTask(p, q, m)'
      BY <1>2, <2>8, <3>2
    <3>4. \A s, m \in Keys : InTask(p, s, m)' <=> InTask(p, s, m)
      BY <2>8, <2>11, <3>3
    <3>5. \A m \in Keys : InNode(p, m)' <=> InNode(p, m)
      BY <2>5, <2>9, <2>12 DEF InNode
    <3> QED
      BY <1>1, <2>10, <3>4, <3>5, StaysOnce DEF PointsOnce
  <2>13. ASSUME NEW p \in Points, NEW c \in old.unwritten, p \in store[c] PROVE Once(p)'
    <3>1. c \in Keys /\ InNode(p, c)
      BY <1>2, <2>4, <2>13 DEF InNode
    <3>2. NoFile(p) /\ NoSpill(p) /\ NoTreeOf(p) /\ OneNode(p) /\ NoTaskOf(p)
      BY <3>1, InOnePlace DEF PointsOnce
    <3>3. \A m \in Keys : InNode(p, m) => m = c
      BY <3>1, <3>2 DEF OneNode
    <3>4. NoNode(p)'
      BY <2>9, <3>3 DEF NoNode
    <3>5. NoFile(p)' /\ NoSpill(p)' /\ NoTreeOf(p)'
      BY <1>1, <2>10, <3>2 DEF NoFile, NoSpill, NoTreeOf
    <3>6. \A m \in Keys : p \in t.got[m] => m = c
      <4>1. \A m \in old.unwritten : p \in store[m] => InNode(p, m)
        BY <2>4 DEF InNode
      <4> QED
        BY <1>2, <2>2, <3>3, <4>1
    <3>7. p \in t.got[c]
      BY <2>2, <2>13, <3>1
    <3>8. \A s, m \in Keys : s # q => ~InTask(p, s, m)'
      BY <2>8, <3>2 DEF NoTaskOf
    <3>9. OneTask(p)'
      <4>1. CASE p \in kept
        <5>1. InTask(p, q, q)'
          BY <2>8, <4>1
        <5>2. \A m : InTask(p, q, m)' => m = q
          BY <1>2, <2>7, <2>8, <4>1
        <5> QED
          BY <3>8, <5>1, <5>2 DEF OneTask
      <4>2. CASE p \notin kept
        <5>1. PICK e \in Keys : p \in Left(e)
          BY <2>7, <3>1, <3>7, <4>2
        <5>2. e = c
          BY <2>7, <3>6, <5>1
        <5>3. InTask(p, q, c)'
          BY <2>8, <2>13, <5>1, <5>2
        <5>4. \A m : InTask(p, q, m)' => m = c
          BY <1>2, <2>7, <2>8, <3>6, <4>2
        <5> QED
          BY <3>1, <3>8, <5>3, <5>4 DEF OneTask
      <4> QED
        BY <4>1, <4>2
    <3> QED
      BY <3>4, <3>5, <3>9 DEF Once
  <2> QED
    BY <2>12, <2>13 DEF PointsOnce
<1> QED
  BY <1>7, <1>8

\* A task writes one of the nodes it answers for.
LEMMA TaskHandsOver ==
    ASSUME IInv, PointsOnce, NEW q \in Keys, NEW n \in Keys, n \in Pending(q),
           UNCHANGED <<pos, plan, chunkFile, job, spill, tree>>,
           Pending(q)' = Pending(q) \ {n},
           \A m \in Pending(q)' : PendingPoints(q, m)' = PendingPoints(q, m),
           \A s \in Keys : s # q => task'[s] = task[s],
           store'[n] = PendingPoints(q, n),
           \A m \in Keys : m # n => store'[m] = store[m]
    PROVE  PointsOnce'
<1>1. \A s \in Keys : s # q => Pending(s)' = Pending(s) /\ n \notin Pending(s)
  <2>1. \A s \in Keys : s # q => Pending(s)' = Pending(s)
    BY DEF Pending
  <2> QED
    BY <2>1, TasksApart, PendingIsTasks
<1>2. /\ \A p : InTask(p, q, n) <=> p \in PendingPoints(q, n)
      /\ \A p : ~InTask(p, q, n)'
      /\ \A p, m : m # n => (InTask(p, q, m)' <=> InTask(p, q, m))
      /\ \A p, s, m : s \in Keys /\ s # q => (InTask(p, s, m)' <=> InTask(p, s, m))
  <2>1. \A p, m : m # n => (InTask(p, q, m)' <=> InTask(p, q, m))
    BY DEF InTask
  <2>2. \A s, m : s \in Keys /\ s # q => PendingPoints(s, m)' = PendingPoints(s, m)
    BY DEF PendingPoints
  <2>3. \A p, s, m : s \in Keys /\ s # q => (InTask(p, s, m)' <=> InTask(p, s, m))
    BY <1>1, <2>2 DEF InTask
  <2> QED
    BY <2>1, <2>3 DEF InTask
<1>3. /\ \A p : ~InNode(p, n)
      /\ \A p : InNode(p, n)' <=> p \in PendingPoints(q, n)
      /\ \A p : \A m \in Keys : m # n => (InNode(p, m)' <=> InNode(p, m))
  <2>1. \A s \in Keys : n \notin Pending(s)'
    BY <1>1
  <2>2. \A m \in Keys : m # n =>
           ((\A s \in Keys : m \notin Pending(s)') <=> (\A s \in Keys : m \notin Pending(s)))
    BY <1>1
  <2> QED
    BY <2>1, <2>2 DEF InNode
<1>4. /\ \A p, d : InFile(p, d)' <=> InFile(p, d)
      /\ \A p, r : InSpill(p, r)' <=> InSpill(p, r)
      /\ \A p, r, m : InTree(p, r, m)' <=> InTree(p, r, m)
  BY DEF InFile, InSpill, InTree
<1>5. ASSUME NEW p \in Points, p \notin PendingPoints(q, n) PROVE Once(p)'
  <2>1. \A s, m \in Keys : InTask(p, s, m)' <=> InTask(p, s, m)
    BY <1>2, <1>5
  <2>2. \A m \in Keys : InNode(p, m)' <=> InNode(p, m)
    BY <1>3, <1>5
  <2> QED
    BY <1>4, <2>1, <2>2, StaysOnce DEF PointsOnce
<1>6. ASSUME NEW p \in Points, p \in PendingPoints(q, n) PROVE Once(p)'
  <2>1. NoFile(p) /\ NoSpill(p) /\ NoTreeOf(p) /\ NoNode(p) /\ OneTask(p)
    BY <1>2, <1>6, InOnePlace DEF PointsOnce
  <2>2. \A s, m \in Keys : InTask(p, s, m) => s = q /\ m = n
    BY <1>2, <1>6, <2>1 DEF OneTask
  <2>3. NoTaskOf(p)'
    BY <1>2, <2>2 DEF NoTaskOf
  <2>4. OneNode(p)'
    BY <1>3, <1>6, <2>1 DEF OneNode, NoNode
  <2>5. NoFile(p)' /\ NoSpill(p)' /\ NoTreeOf(p)'
    BY <1>4, <2>1 DEF NoFile, NoSpill, NoTreeOf
  <2> QED
    BY <2>3, <2>4, <2>5 DEF Once
<1> QED
  BY <1>5, <1>6 DEF PointsOnce

\* From the task into the child, of which it writes what is left.
LEMMA RewriteChildMoves ==
    ASSUME IInv, PointsOnce, NEW q \in Keys, NEW k \in task[q].unwritten, RewriteChild(q, k)
    PROVE  PointsOnce'
<1>1. /\ task[q] \in Tasks /\ task \in [Keys -> Tasks] /\ store \in [Keys -> SUBSET Points]
      /\ task[q].at = "open" /\ task[q].unread = {} /\ task[q].got # NoPoints
      /\ \A m \in task[q].unwritten : m # Root /\ Parent(m) = q
      /\ task' = [task EXCEPT ![q] =
                    [at |-> "open", unread |-> {},
                     unwritten |-> task[q].unwritten \ {k}, got |-> task[q].got]]
      /\ store' = [store EXCEPT ![k] = Remaining(q, pos, task[q].got, k)]
      /\ UNCHANGED <<pos, plan, chunkFile, job, spill, tree>>
  BY Typed DEF IInv, RewriteChild, ChildRewritten, AllRead, Working, TasksRead, fixed
<1>2. k \in Keys /\ k # q
  BY <1>1, ParentIsKey, KeyLength DEF Tasks
<1>3. /\ Pending(q) = task[q].unwritten \cup {q}
      /\ \A m : PendingPoints(q, m)' = PendingPoints(q, m)
      /\ PendingPoints(q, k) = Remaining(q, pos, task[q].got, k)
  BY <1>1, <1>2 DEF Pending, PendingPoints
<1>4. Pending(q)' = Pending(q) \ {k}
  <2>1. /\ task'[q].at = "open" /\ task'[q].unread = {}
        /\ task'[q].unwritten = task[q].unwritten \ {k} /\ task'[q].got = task[q].got
    BY <1>1
  <2>2. NoPoints' = NoPoints
    BY DEF NoPoints
  <2>3. Pending(q)' = task'[q].unwritten \cup {q}
    BY <1>1, <2>1, <2>2 DEF Pending
  <2> QED
    BY <1>2, <1>3, <2>1, <2>3
<1>5. /\ store'[k] = PendingPoints(q, k) /\ \A m \in Keys : m # k => store'[m] = store[m]
      /\ \A s \in Keys : s # q => task'[s] = task[s]
  BY <1>1, <1>2, <1>3
<1> QED
  BY <1>1, <1>2, <1>3, <1>4, <1>5, TaskHandsOver

\* From the task into the parent.
LEMMA WriteParentMoves ==
    ASSUME IInv, PointsOnce, NEW q \in Keys, WriteParent(q)
    PROVE  PointsOnce'
<1> DEFINE v == Sampled(q, pos, task[q].got)
<1>1. /\ task \in [Keys -> Tasks] /\ store \in [Keys -> SUBSET Points]
      /\ task[q].at = "open" /\ task[q].unread = {} /\ task[q].got # NoPoints
      /\ task[q].unwritten = {}
      /\ task' = [task EXCEPT ![q] = DoneTask]
      /\ store' = IF v = {} THEN store ELSE [store EXCEPT ![q] = v]
      /\ UNCHANGED <<pos, plan, chunkFile, job, spill, tree>>
  BY Typed DEF IInv, WriteParent, AllRead, Working, fixed
<1>2. Pending(q) = {q} /\ Pending(q)' = {} /\ PendingPoints(q, q) = v
  BY <1>1 DEF Pending, PendingPoints, DoneTask
<1>3. store[q] = {}
  BY <1>1, TopUnwritten
<1> HIDE DEF v
<1>4. store'[q] = v /\ \A m \in Keys : m # q => store'[m] = store[m]
  BY <1>1, <1>3
<1>5. \A s \in Keys : s # q => task'[s] = task[s]
  BY <1>1
<1> QED
  BY <1>1, <1>2, <1>4, <1>5, TaskHandsOver

-----------------------------------------------------------------------------
(* The theorem                                                              *)

\* At first every point is in the file of its chunk ...
LEMMA InitOnce ==
    ASSUME Init
    PROVE  PointsOnce
<1>1. /\ IInv /\ TypeOK
      /\ \A c \in plan : job[c].at = "waiting" /\ chunkFile[c] = Inside(Points, c)
  <2>1. IInv
    BY InitHolds
  <2>2. plan \subseteq Keys
    BY <2>1, PlanApart DEF IInv
  <2> QED
    BY <2>1, <2>2 DEF IInv, Init, NoJob
<1>2. SUFFICES ASSUME NEW p \in Points PROVE Once(p)
  BY DEF PointsOnce
<1>3. PICK c \in plan : LiesIn(p, c)
  BY DEF Init, LiesIn
<1>4. OneFile(p)
  BY <1>1, <1>3, InsideLies, OneChunk DEF OneFile, InFile
<1>5. NoSpill(p) /\ NoTreeOf(p) /\ NoNode(p)
  BY DEF Init, NoSpill, InSpill, NoTreeOf, InTree, NoNode, InNode, NoPoints, NoTree
<1>6. NoTaskOf(p)
  <2>1. \A q \in Keys : task[q].at = "none"
    BY DEF Init, NoTask
  <2> QED
    BY <2>1 DEF NoTaskOf, InTask, Pending
<1> QED
  BY <1>4, <1>5, <1>6 DEF Once

\* ... and every step leaves it in one place.
LEMMA NextOnce ==
    ASSUME IInv, PointsOnce, [Next]_vars
    PROVE  PointsOnce'
<1>1. CASE UNCHANGED vars \/ Fail \/ StartMerge \/ Assemble
  BY <1>1, PhaseMoves
<1>2. ASSUME NEW c \in plan, ChunkStep(c) PROVE PointsOnce'
  BY <1>2, BuildInMemoryMoves, SpillChunkMoves, BuildSubOctantMoves, ChunkEndMoves
     DEF ChunkStep
<1>3. ASSUME NEW r \in Keys, SubtreeStep(r) PROVE PointsOnce'
  BY <1>3, SubdivideMoves, SampleLevelMovesPoints, TreeBuiltMoves, WriteNodeMoves
     DEF SubtreeStep
<1>4. ASSUME NEW q \in Keys, TaskStep(q) PROVE PointsOnce'
  BY <1>4, ReadChildMoves, RewriteChildMoves, NothingToMergeMoves, WriteParentMoves
     DEF TaskStep
<1>5. ASSUME NEW o \in Keys, MergeStep(o) PROVE PointsOnce'
  BY <1>5, StartLevelMoves, EndLevelMoves, PhaseMoves DEF MergeStep
<1>6. CASE Returned
  BY <1>1, <1>6 DEF Returned
<1> QED
  BY <1>1, <1>2, <1>3, <1>4, <1>5, <1>6 DEF Next, Step

\* Every point of the input is in exactly one place at every moment of the
\* build, so that the result has it once: none is lost between a file and a
\* subtree or between a child and its parent, and none is copied.
THEOREM PointsAreOnce == Spec => []EveryPointOnce
<1>1. Init => IInv /\ PointsOnce
  BY InitHolds, InitOnce
<1>2. IInv /\ PointsOnce /\ [Next]_vars => (IInv /\ PointsOnce)'
  BY IInvIsInductive, NextOnce
<1>3. IInv /\ PointsOnce => EveryPointOnce
  BY OnceIsOneHome DEF IInv, PointsOnce, EveryPointOnce
<1> QED
  BY <1>1, <1>2, <1>3, PTL DEF Spec

(***************************************************************************)
(* What the build returns: subtrees within the budget, a list that has     *)
(* every node with points, and nodes that are leaves or samples.  Each     *)
(* rests on an invariant of its own beside that of the build.              *)
(***************************************************************************)
-----------------------------------------------------------------------------
(* What fits the budget                                                     *)

\* No voxel a chunk is built by is over the budget, unless the split could go
\* no deeper.
SplitsFit ==
    \A c \in plan : job[c].at # "waiting" =>
        \/ job[c].split = Len(c) + SpillCap
        \/ \A k \in Keys : IsUnder(k, c) /\ Len(k) = job[c].split =>
              Cardinality(Inside(Points, k)) <= Budget

\* A chunk's build begins once, and its split level does not change.
LEMMA SplitIsKept ==
    ASSUME IInv, Step, NEW c \in plan
    PROVE  \/ job'[c].at = "waiting"
           \/ job[c].at # "waiting" /\ job'[c].split = job[c].split
           \/ BuildInMemory(c)
           \/ SpillChunk(c)
<1>1. /\ TypeOK /\ plan \subseteq Keys /\ job \in [Keys -> Jobs]
  BY Typed, PlanApart DEF IInv
<1>2. CASE job' = job
  BY <1>2
<1>3. ASSUME NEW d \in plan, BuildInMemory(d) \/ SpillChunk(d)
      PROVE  d = c \/ job'[c] = job[c]
  BY <1>1, <1>3 DEF BuildInMemory, SpillChunk
<1>4. ASSUME NEW d \in plan, FinishInMemory(d) \/ FinishSubOctants(d) \/ FinishLocalMerge(d)
      PROVE  job'[c] = job[c] \/ (job[c].at # "waiting" /\ job'[c].split = job[c].split)
  BY <1>1, <1>4 DEF FinishInMemory, FinishSubOctants, FinishLocalMerge, ChunkBuilt, LocalMerge,
                    Spilled
<1>5. ASSUME NEW r \in Keys, NEW k \in WritesOf(r), WriteNode(r, k)
      PROVE  job'[c].at = job[c].at /\ job'[c].split = job[c].split
  <2> DEFINE d == ChunkOf(r)
  <2>1. job' = [job EXCEPT ![d] = [at |-> job[d].at, split |-> job[d].split,
                                   made |-> job[d].made \cup {k}]]
    BY <1>5 DEF WriteNode
  <2> HIDE DEF d
  <2> QED
    BY <1>1, <2>1
<1>6. ASSUME NEW d \in plan, ChunkStep(d)
      PROVE  \/ job' = job
             \/ BuildInMemory(d) \/ SpillChunk(d)
             \/ FinishInMemory(d) \/ FinishSubOctants(d) \/ FinishLocalMerge(d)
  BY <1>6 DEF ChunkStep, BuildSubOctant
<1>7. ASSUME NEW r \in Keys, SubtreeStep(r)
      PROVE  job' = job \/ \E k \in WritesOf(r) : WriteNode(r, k)
  BY <1>7 DEF SubtreeStep, Subdivide, SampleLevel, TreeBuilt
<1>8. ASSUME NEW q \in Keys, TaskStep(q) \/ MergeStep(q) PROVE job' = job
  BY <1>8 DEF TaskStep, MergeStep, ReadChild, RewriteChild, NothingToMerge, WriteParent,
              StartLevel, EndLevel, EndMerge
<1>9. CASE StartMerge \/ Assemble
  BY <1>2, <1>9 DEF StartMerge, Assemble
<1> QED
  BY <1>2, <1>3, <1>4, <1>5, <1>6, <1>7, <1>8, <1>9 DEF Step

\* Every step keeps SplitsFit.
LEMMA SplitsFitNext ==
    ASSUME IInv, SplitsFit, [Next]_vars
    PROVE  SplitsFit'
<1>1. CASE UNCHANGED vars \/ Fail \/ Returned
  <2>1. job' = job /\ plan' = plan /\ pos' = pos
    BY <1>1 DEF vars, Fail, Returned, fixed
  <2> QED
    BY <2>1 DEF SplitsFit, Inside
<1>2. CASE Step
  <2>1. plan' = plan /\ pos' = pos
    BY <1>2 DEF Step, ChunkStep, SubtreeStep, TaskStep, MergeStep, fixed,
         BuildInMemory, SpillChunk, BuildSubOctant, FinishInMemory, FinishSubOctants,
         FinishLocalMerge, Subdivide, SampleLevel, TreeBuilt, WriteNode, ReadChild,
         RewriteChild, NothingToMerge, WriteParent, StartLevel, EndLevel, EndMerge,
         StartMerge, Assemble
  <2>2. \A k : Inside(Points, k)' = Inside(Points, k)
    BY <2>1 DEF Inside
  <2>3. /\ TypeOK /\ plan \subseteq Keys /\ job \in [Keys -> Jobs]
        /\ \A c \in plan : job[c].at # "built" => chunkFile[c] = Inside(Points, c)
    BY Typed, PlanApart DEF IInv, PointsInPlace
  <2>4. ASSUME NEW c \in plan, BuildInMemory(c)
        PROVE  \A k \in Keys : IsUnder(k, c) /\ Len(k) = job'[c].split =>
                  Cardinality(Inside(Points, k)) <= Budget
    <3>1. /\ job'[c].split = Len(c) /\ Cardinality(chunkFile[c]) <= Budget
          /\ chunkFile[c] = Inside(Points, c)
      BY <2>3, <2>4 DEF BuildInMemory
    <3>2. \A k \in Keys : IsUnder(k, c) /\ Len(k) = Len(c) => k = c
      BY <2>3, UnderLength
    <3> QED
      BY <3>1, <3>2
  <2>5. ASSUME NEW c \in plan, SpillChunk(c)
        PROVE  \/ job'[c].split = Len(c) + SpillCap
               \/ \A k \in Keys : IsUnder(k, c) /\ Len(k) = job'[c].split =>
                     Cardinality(Inside(Points, k)) <= Budget
    <3>1. job'[c].split = SplitLevel(c) /\ chunkFile[c] = Inside(Points, c)
      BY <2>3, <2>5 DEF SpillChunk
    <3>2. \/ SplitLevel(c) = Len(c) + SpillCap
          \/ \A k \in Keys : Len(k) = SplitLevel(c) =>
                Cardinality(Inside(chunkFile[c], k)) <= Budget
      BY <2>3, SplitLevelIs
    <3>3. \A k \in Keys : IsUnder(k, c) => Inside(chunkFile[c], k) = Inside(Points, k)
      <4>1. ASSUME NEW k \in Keys, IsUnder(k, c), NEW p \in Points, LiesIn(p, k)
            PROVE  p \in chunkFile[c]
        BY <2>3, <3>1, <4>1, LiesAbove, InsideLies
      <4>2. chunkFile[c] \subseteq Points
        BY <3>1, InsideLies
      <4> QED
        BY <4>1, <4>2, InsideLies
    <3> QED
      BY <3>1, <3>2, <3>3
  <2>6. ASSUME NEW c \in plan, job'[c].at # "waiting"
        PROVE  \/ job'[c].split = Len(c) + SpillCap
               \/ \A k \in Keys : IsUnder(k, c) /\ Len(k) = job'[c].split =>
                     Cardinality(Inside(Points, k)) <= Budget
    <3>1. CASE job[c].at # "waiting" /\ job'[c].split = job[c].split
      BY <3>1 DEF SplitsFit
    <3> QED
      BY <1>2, <2>4, <2>5, <2>6, <3>1, SplitIsKept
  <2> QED
    BY <2>1, <2>2, <2>6 DEF SplitsFit
<1> QED
  BY <1>1, <1>2 DEF Next

\* A subtree holds no more than was in its voxel.
LEMMA SubtreesFit ==
    IInv /\ SplitsFit => SubtreesFitBudget
<1> SUFFICES ASSUME IInv, SplitsFit, NEW r \in Keys, tree[r].at # "none"
             PROVE  \/ Cardinality(UNION {tree[r].nodes[k] : k \in Keys}) <= Budget
                    \/ Len(r) = Len(ChunkOf(r)) + SpillCap
  BY DEF SubtreesFitBudget
<1> DEFINE held == UNION {tree[r].nodes[k] : k \in Keys}
<1>1. TypeOK /\ tree[r] \in Trees
  BY Typed DEF IInv
<1>2. PICK c \in plan : IsUnder(r, c) /\ job[c].split = Len(r) /\ job[c].at # "waiting"
  BY DEF IInv, TreesPlaced
<1>3. ChunkOf(r) = c
  BY <1>1, <1>2, ChunkIs
<1>4. CASE Cardinality(Inside(Points, r)) <= Budget
  <2>1. held \subseteq Inside(Points, r)
    <3>1. ASSUME NEW k \in Keys, NEW p \in tree[r].nodes[k]
          PROVE  p \in Inside(Points, r)
      <4>1. p \in Points /\ LiesIn(p, k) /\ IsUnder(k, r)
        BY <1>1 DEF IInv, PointsInPlace, TreesInside, Trees
      <4> QED
        BY <1>1, <4>1, LiesAbove, InsideLies
    <3> QED
      BY <3>1
  <2>2. IsFiniteSet(Inside(Points, r))
    BY VoxelTreeAssumption, FS_Subset DEF Inside
  <2> HIDE DEF held
  <2>3. /\ Cardinality(held) <= Cardinality(Inside(Points, r))
        /\ Cardinality(held) \in Nat /\ Cardinality(Inside(Points, r)) \in Nat
    BY <2>1, <2>2, FS_Subset, FS_CardinalityType
  <2> QED
    BY <1>4, <2>3, OctreeBuildAssumption DEF held
<1> QED
  BY <1>2, <1>3, <1>4 DEF SplitsFit

\* No subtree is begun with more points than the budget, unless its chunk was
\* split as deep as a split can go.
THEOREM SubtreesAreInBudget == Spec => []SubtreesFitBudget
<1>1. Init => IInv /\ SplitsFit
  <2> SUFFICES ASSUME Init PROVE IInv /\ SplitsFit
    OBVIOUS
  <2>1. IInv
    BY InitHolds
  <2>2. \A c \in plan : job[c].at = "waiting"
    BY <2>1, PlanApart DEF IInv, Init, NoJob
  <2> QED
    BY <2>1, <2>2 DEF SplitsFit
<1>2. IInv /\ SplitsFit /\ [Next]_vars => (IInv /\ SplitsFit)'
  BY IInvIsInductive, SplitsFitNext
<1> QED
  BY <1>1, <1>2, SubtreesFit, PTL DEF Spec

-----------------------------------------------------------------------------
(* What the list has                                                        *)

\* Every node of the store is accounted for: by a chunk, by a merge, or by a
\* task that has just written it.
Accounted ==
    \A k \in Keys : store[k] # {} =>
        \/ \E c \in plan : k \in job[c].made
        \/ \E o \in Keys : merge[o].at # "none" /\ k \in merge[o].made
        \/ task[k].at = "done"

\* Once the tops are merged every chunk is built, and the list is complete.
Listed ==
    /\ phase \in {"merging", "done"} => AllBuilt
    /\ ResultComplete

\* When the build has returned, nothing happens any more.
LEMMA NothingAfter ==
    ASSUME phase = "done", [Next]_vars
    PROVE  UNCHANGED vars
<1>1. ~Fail
  BY DEF Fail
<1>2. ~StartMerge /\ ~Assemble
  BY DEF StartMerge, Assemble
<1>3. \A c \in plan : ~ChunkStep(c)
  BY DEF ChunkStep, BuildInMemory, SpillChunk, BuildSubOctant, FinishInMemory,
         FinishSubOctants, FinishLocalMerge
<1>4. \A k \in Keys : ~SubtreeStep(k)
  BY DEF SubtreeStep, Subdivide, SampleLevel, TreeBuilt, WriteNode
<1>5. \A k \in Keys : ~TaskStep(k)
  BY DEF TaskStep, ReadChild, RewriteChild, NothingToMerge, WriteParent, AllRead, Working
<1>6. \A k \in Keys : ~MergeStep(k)
  BY DEF MergeStep, StartLevel, EndLevel, EndMerge, Active
<1> QED
  BY <1>1, <1>2, <1>3, <1>4, <1>5, <1>6 DEF Next, Step, Returned

\* What a step that is no store call keeps.
LEMMA AccountsKept ==
    ASSUME Accounted, UNCHANGED <<plan, store>>,
           \A k \in Keys : store[k] # {} =>
              /\ \A c \in plan : k \in job[c].made => \E d \in plan : k \in job'[d].made
              /\ \A o \in Keys : merge[o].at # "none" /\ k \in merge[o].made =>
                    \/ merge'[o].at # "none" /\ k \in merge'[o].made
                    \/ \E d \in plan : k \in job'[d].made
              /\ task[k].at = "done" =>
                    \/ task'[k].at = "done"
                    \/ \E o \in Keys : merge'[o].at # "none" /\ k \in merge'[o].made
    PROVE  Accounted'
BY DEF Accounted

\* A chunk's steps only add to what it has made; its local merge hands over.
LEMMA ChunkAccounts ==
    ASSUME IInv, Accounted, NEW c \in plan, ChunkStep(c)
    PROVE  Accounted'
<1>1. /\ TypeOK /\ c \in Keys /\ job \in [Keys -> Jobs] /\ merge \in [Keys -> Merges]
  BY Typed, PlanApart DEF IInv
<1>2. /\ UNCHANGED <<plan, store, task>>
      /\ \A d \in Keys : d # c => job'[d] = job[d] /\ merge'[d] = merge[d]
  BY <1>1 DEF ChunkStep, BuildInMemory, SpillChunk, BuildSubOctant, FinishInMemory,
         FinishSubOctants, FinishLocalMerge, ChunkBuilt, LocalMerge, fixed
<1>3. \A k \in job[c].made : store[k] # {} => k \in job'[c].made
  <2>1. CASE BuildInMemory(c) \/ SpillChunk(c)
    <3>1. job[c].at = "waiting"
      BY <2>1 DEF BuildInMemory, SpillChunk
    <3>2. \A k \in job[c].made : k \in Keys /\ IsUnder(k, c)
      BY <1>1 DEF IInv, MadeOnly, Jobs
    <3> QED
      BY <3>1, <3>2 DEF IInv, Unwritten
  <2>2. CASE \E r \in SubRoots(c) : BuildSubOctant(c, r)
    BY <2>2 DEF BuildSubOctant
  <2>3. CASE FinishInMemory(c) \/ FinishSubOctants(c) \/ FinishLocalMerge(c)
    BY <1>1, <2>3 DEF FinishInMemory, FinishSubOctants, FinishLocalMerge, ChunkBuilt,
                      LocalMerge
  <2> QED
    BY <2>1, <2>2, <2>3 DEF ChunkStep
<1>4. \A k \in merge[c].made : merge[c].at # "none" =>
         (merge'[c].at # "none" /\ k \in merge'[c].made) \/ k \in job'[c].made
  <2>1. CASE BuildInMemory(c) \/ SpillChunk(c) \/ FinishInMemory(c)
             \/ \E r \in SubRoots(c) : BuildSubOctant(c, r)
    BY <2>1 DEF BuildInMemory, SpillChunk, FinishInMemory, BuildSubOctant
  <2>2. CASE FinishSubOctants(c)
    <3>1. phase = "building" /\ job[c].at # "merging"
      BY <2>2 DEF FinishSubOctants, Spilled
    <3> QED
      BY <3>1, NoMergeYet
  <2>3. CASE FinishLocalMerge(c)
    BY <1>1, <2>3 DEF FinishLocalMerge, ChunkBuilt
  <2> QED
    BY <2>1, <2>2, <2>3 DEF ChunkStep
<1>5. ASSUME NEW k \in Keys, store[k] # {}
      PROVE  /\ \A d \in plan : k \in job[d].made => k \in job'[d].made
             /\ \A o \in Keys : merge[o].at # "none" /\ k \in merge[o].made =>
                   \/ merge'[o].at # "none" /\ k \in merge'[o].made
                   \/ \E d \in plan : k \in job'[d].made
  <2>1. \A d \in plan : k \in job[d].made => k \in job'[d].made
    BY <1>1, <1>2, <1>3, <1>5, PlanApart
  <2>2. \A o \in Keys : merge[o].at # "none" /\ k \in merge[o].made =>
                   \/ merge'[o].at # "none" /\ k \in merge'[o].made
                   \/ \E d \in plan : k \in job'[d].made
    BY <1>2, <1>4
  <2> QED
    BY <2>1, <2>2
<1> QED
  BY <1>2, <1>5, AccountsKept

\* What a subtree writes its chunk accounts for.
LEMMA SubtreeAccounts ==
    ASSUME IInv, Accounted, NEW r \in Keys, SubtreeStep(r)
    PROVE  Accounted'
<1>1. CASE Subdivide(r) \/ SampleLevel(r) \/ TreeBuilt(r)
  <2>1. UNCHANGED <<plan, store, job, merge, task>>
    BY <1>1 DEF Subdivide, SampleLevel, TreeBuilt, fixed
  <2> QED
    BY <2>1, AccountsKept
<1>2. ASSUME NEW n \in WritesOf(r), WriteNode(r, n) PROVE Accounted'
  <2> DEFINE c == ChunkOf(r)
  <2>1. /\ TypeOK /\ job \in [Keys -> Jobs] /\ store \in [Keys -> SUBSET Points]
        /\ n \in Keys /\ tree[r].at = "writing"
        /\ UNCHANGED <<plan, merge, task>>
        /\ store' = [store EXCEPT ![n] = tree[r].nodes[n]]
        /\ job' = [job EXCEPT ![c] = [at |-> job[c].at, split |-> job[c].split,
                                      made |-> job[c].made \cup {n}]]
    BY <1>2, Typed DEF IInv, WriteNode, WritesOf, fixed
  <2>2. c \in plan /\ c \in Keys
    <3>1. PICK d \in plan : IsUnder(r, d)
      BY <2>1, TreeHome
    <3> QED
      BY <2>1, <3>1, ChunkIs, PlanApart
  <2> HIDE DEF c
  <2>3. \A d \in plan : job[d].made \subseteq job'[d].made
    BY <2>1, <2>2, PlanApart
  <2>4. n \in job'[c].made
    BY <2>1, <2>2
  <2>5. \A k \in Keys : k # n => store'[k] = store[k]
    BY <2>1
  <2>6. ASSUME NEW k \in Keys, store'[k] # {}
        PROVE  \/ \E d \in plan : k \in job'[d].made
               \/ \E o \in Keys : merge[o].at # "none" /\ k \in merge[o].made
               \/ task[k].at = "done"
    <3>1. CASE k = n
      BY <2>2, <2>4, <3>1
    <3>2. CASE k # n
      BY <2>3, <2>5, <2>6, <3>2 DEF Accounted
    <3> QED
      BY <3>1, <3>2
  <2> QED
    BY <2>1, <2>6 DEF Accounted
<1> QED
  BY <1>1, <1>2 DEF SubtreeStep

\* What a task writes is its own node, or one that was there.
LEMMA TaskAccounts ==
    ASSUME IInv, Accounted, NEW q \in Keys, TaskStep(q)
    PROVE  Accounted'
<1>1. /\ task \in [Keys -> Tasks] /\ store \in [Keys -> SUBSET Points]
      /\ UNCHANGED <<plan, job, merge>>
  BY Typed DEF IInv, TaskStep, ReadChild, RewriteChild, NothingToMerge, WriteParent, fixed
<1>2. /\ \A k \in Keys : k # q => task'[k] = task[k]
      /\ task[q].at = "open"
  BY <1>1 DEF TaskStep, ReadChild, RewriteChild, ChildRewritten, NothingToMerge,
              WriteParent, AllRead, Working
<1>3. ASSUME NEW k \in Keys, store'[k] # {}
      PROVE  store[k] # {} \/ task'[k].at = "done"
  <2>1. CASE store' = store
    BY <1>3, <2>1
  <2>2. ASSUME NEW n \in task[q].unwritten, RewriteChild(q, n)
        PROVE  store[k] # {}
    <3>1. /\ task[q].unread = {} /\ n \in Keys
          /\ \A m \in task[q].unwritten \ task[q].unread : task[q].got[m] = store[m]
          /\ task[q].got \in [Keys -> SUBSET Points]
          /\ store' = [store EXCEPT ![n] = Remaining(q, pos, task[q].got, n)]
      BY <1>1, <1>2, <2>2 DEF IInv, TasksRead, RewriteChild, AllRead, Tasks
    <3>2. Remaining(q, pos, task[q].got, n) \subseteq store[n]
      BY <3>1, TaskSamples
    <3> QED
      BY <1>1, <1>3, <3>1, <3>2
  <2>3. CASE WriteParent(q)
    <3>1. task'[q].at = "done" /\ (k = q \/ store'[k] = store[k])
      BY <1>1, <2>3 DEF WriteParent, DoneTask
    <3> QED
      BY <1>3, <3>1
  <2>4. CASE NothingToMerge(q) \/ \E n \in task[q].unread : ReadChild(q, n)
    BY <2>1, <2>4 DEF NothingToMerge, ReadChild
  <2> QED
    BY <2>2, <2>3, <2>4 DEF TaskStep
<1>4. \A k \in Keys : task[k].at = "done" => task'[k].at = "done"
  BY <1>2
<1> QED
  BY <1>1, <1>3, <1>4 DEF Accounted

\* At the end of a level the merge accounts for what its tasks wrote.
LEMMA MergeAccounts ==
    ASSUME IInv, Accounted, NEW o \in Keys, MergeStep(o)
    PROVE  Accounted'
<1>1. /\ TypeOK /\ merge \in [Keys -> Merges] /\ task \in [Keys -> Tasks]
      /\ UNCHANGED <<plan, store, job>>
  BY Typed DEF IInv, MergeStep, StartLevel, EndLevel, EndMerge, fixed
<1>2. \A x \in Keys : merge[x].at # "none" =>
         merge'[x].at # "none" /\ merge[x].made \subseteq merge'[x].made
  BY <1>1 DEF MergeStep, StartLevel, EndLevel, EndMerge, MergeGoes
<1>3. ASSUME NEW k \in Keys, task[k].at = "done"
      PROVE  \/ task'[k].at = "done"
             \/ merge'[o].at # "none" /\ k \in merge'[o].made
  <2>1. CASE StartLevel(o)
    <3>1. merge[o].at = "grouping" /\ merge[o].from > merge[o].stop
      BY <2>1 DEF StartLevel
    <3>2. k \notin Parents(o)
      BY <1>3, <3>1, FreshParents
    <3>3. task'[k] = task[k]
      BY <2>1, <3>2 DEF StartLevel, OpenTasks
    <3> QED
      BY <1>3, <3>3
  <2>2. CASE EndLevel(o)
    <3>1. /\ merge' = [merge EXCEPT ![o] =
                         [at |-> "grouping", from |-> merge[o].from - 1,
                          stop |-> merge[o].stop,
                          keys |-> merge[o].keys \cup Parents(o),
                          made |-> merge[o].made \cup Parents(o)]]
          /\ task' = [q \in Keys |-> IF q \in Parents(o) THEN NoTask ELSE task[q]]
      BY <2>2 DEF EndLevel, MergeGoes
    <3>2. CASE k \in Parents(o)
      BY <1>1, <3>1, <3>2
    <3>3. CASE k \notin Parents(o)
      BY <1>3, <3>1, <3>3
    <3> QED
      BY <3>2, <3>3
  <2>3. CASE EndMerge(o)
    BY <1>3, <2>3 DEF EndMerge
  <2> QED
    BY <2>1, <2>2, <2>3 DEF MergeStep
<1> QED
  BY <1>1, <1>2, <1>3, AccountsKept

\* The merge of the tops begins with nothing made.
LEMMA StartAccounts ==
    ASSUME IInv, Accounted, StartMerge
    PROVE  Accounted'
<1>1. /\ merge \in [Keys -> Merges] /\ phase = "building" /\ AllBuilt
      /\ UNCHANGED <<plan, store, job, task>>
      /\ \A o \in Keys : o # Root => merge'[o] = merge[o]
  BY Typed DEF IInv, StartMerge, AllBuilt, fixed
<1>2. \A o \in Keys : merge[o].at = "none"
  BY <1>1 DEF IInv, MergesPlaced, MergesIn, AllBuilt
<1> QED
  BY <1>1, <1>2, AccountsKept

\* Every step keeps Accounted.
LEMMA NextAccounts ==
    ASSUME IInv, Accounted, [Next]_vars
    PROVE  Accounted'
<1>1. CASE UNCHANGED vars \/ Fail \/ Returned \/ Assemble
  <2>1. UNCHANGED <<plan, store, job, merge, task>>
    BY <1>1 DEF vars, Fail, Returned, Assemble, fixed
  <2> QED
    BY <2>1, AccountsKept
<1> QED
  BY <1>1, ChunkAccounts, SubtreeAccounts, TaskAccounts, MergeAccounts, StartAccounts
     DEF Next, Step

\* The list that is assembled is complete.
LEMMA AssembleLists ==
    ASSUME IInv, Accounted, phase = "merging" => AllBuilt, Assemble
    PROVE  Listed'
<1> DEFINE made == (UNION {job[c].made : c \in plan}) \cup merge[Root].made
           kept == {k \in made : store[k] # {}}
           ancestors == UNION {{Prefix(k, n) : n \in 0 .. Len(k) - 1} : k \in kept}
           counted == {<<k, Cardinality(store[k])>> : k \in kept}
           added == {<<a, 0>> : a \in ancestors \ kept}
           listed == {e[1] : e \in result'}
<1>1. /\ result' = counted \cup added
      /\ phase = "merging" /\ merge[Root].at = "done"
      /\ store' = store /\ job' = job /\ plan' = plan
  <2>1. result' = counted \cup added
    BY Zenon DEF Assemble
  <2>2. /\ phase = "merging" /\ merge[Root].at = "done"
        /\ UNCHANGED <<fixed, chunkFile, job, spill, tree, store, merge, task>>
    BY Zenon DEF Assemble
  <2> QED
    BY <2>1, <2>2 DEF fixed
<1>2. TypeOK /\ AllBuilt
  BY <1>1 DEF IInv
<1>3. \A o \in Keys : merge[o].at # "none" => o = Root
  BY <1>2 DEF IInv, MergesPlaced, MergesIn, MergesAll, AllBuilt
<1>4. \A k \in Keys : task[k].at = "none"
  BY <1>1, <1>3 DEF IInv, TasksPlaced
<1>5. made \subseteq Keys
  <2>1. \A c \in plan : job[c].made \subseteq Keys
    BY <1>2, Typed, PlanApart DEF Jobs
  <2>2. merge[Root].made \subseteq Keys
    BY <1>2, Typed, RootIsKey DEF Merges
  <2> QED
    BY <2>1, <2>2
<1>6. ASSUME NEW k \in Keys, store[k] # {} PROVE k \in made
  <2>1. CASE \E c \in plan : k \in job[c].made
    BY <2>1
  <2>2. CASE \E o \in Keys : merge[o].at # "none" /\ k \in merge[o].made
    BY <1>3, <2>2
  <2> QED
    BY <1>4, <1>6, <2>1, <2>2 DEF Accounted
<1> HIDE DEF made
<1>7. \A k : k \in kept <=> k \in Keys /\ store[k] # {}
  BY <1>5, <1>6
<1> HIDE DEF kept
<1>8. ASSUME NEW a \in ancestors
      PROVE  a \in Keys /\ (a # Root => Parent(a) \in ancestors)
  <2>1. PICK k \in kept : a \in {Prefix(k, n) : n \in 0 .. Len(k) - 1}
    OBVIOUS
  <2>2. PICK n \in 0 .. Len(k) - 1 : a = Prefix(k, n)
    BY <2>1
  <2>3. k \in Keys /\ Len(k) \in Nat /\ n \in Nat /\ n <= Len(k)
    BY <1>7, <2>2, KeyLength
  <2>4. a \in Keys /\ Len(a) = n
    BY <2>2, <2>3, PrefixIsKey
  <2>5. ASSUME a # Root PROVE n - 1 \in 0 .. Len(k) - 1 /\ Parent(a) = Prefix(k, n - 1)
    <3>1. n # 0
      BY <2>4, <2>5, RootIsKey
    <3>2. Parent(a) = Prefix(a, n - 1)
      BY <2>4 DEF Parent
    <3>3. \A i \in 1 .. n - 1 : a[i] = k[i]
      BY <2>2, <2>3 DEF Prefix
    <3>4. Prefix(a, n - 1) = Prefix(k, n - 1)
      BY <3>3 DEF Prefix
    <3> QED
      BY <2>2, <2>3, <3>1, <3>2, <3>4
  <2> QED
    BY <2>4, <2>5
<1>9. \A k \in kept : k # Root => Parent(k) \in ancestors
  <2>1. ASSUME NEW k \in kept, k # Root
        PROVE  Len(k) - 1 \in 0 .. Len(k) - 1 /\ Parent(k) = Prefix(k, Len(k) - 1)
    BY <1>7, <2>1, ParentIsKey, VoxelTreeAssumption DEF Parent
  <2> QED
    BY <2>1
<1> HIDE DEF ancestors
<1>10. /\ \A k \in kept : k \in listed
       /\ \A a \in ancestors : a \in listed
       /\ \A k \in listed : k \in kept \/ k \in ancestors
  <2>1. \A k \in kept : <<k, Cardinality(store[k])>> \in result'
    BY <1>1
  <2>2. \A a \in ancestors : a \notin kept => <<a, 0>> \in result'
    BY <1>1
  <2>3. \A e \in result' : e[1] \in kept \/ e[1] \in ancestors
    BY <1>1
  <2> HIDE DEF listed
  <2>4. ASSUME NEW k, NEW n, <<k, n>> \in result' PROVE k \in listed
    <3>1. <<k, n>>[1] = k
      OBVIOUS
    <3> QED
      BY <2>4, <3>1 DEF listed
  <2>5. /\ \A k \in kept : k \in listed
        /\ \A a \in ancestors : a \in listed
    BY <2>1, <2>2, <2>4
  <2>6. \A k \in listed : k \in kept \/ k \in ancestors
    BY <2>3 DEF listed
  <2> QED
    BY <2>5, <2>6
<1> HIDE DEF listed
<1>11. \A e \in result' : e[2] = Cardinality(store[e[1]])
  <2>1. \A e \in counted : e[2] = Cardinality(store[e[1]])
    OBVIOUS
  <2>2. ASSUME NEW e \in added PROVE e[2] = Cardinality(store[e[1]])
    <3>1. PICK a \in ancestors \ kept : e = <<a, 0>>
      OBVIOUS
    <3>2. store[a] = {}
      BY <1>7, <1>8
    <3> QED
      BY <3>1, <3>2, FS_EmptySet
  <2> QED
    BY <1>1, <2>1, <2>2
<1>12. AllBuilt'
  BY <1>1, <1>2 DEF AllBuilt
<1>13. /\ \A k \in Keys : store[k] # {} => k \in listed
       /\ \A k \in listed : k # Root => Parent(k) \in listed
  BY <1>7, <1>8, <1>9, <1>10
<1>14. ResultComplete'
  BY <1>1, <1>11, <1>13 DEF ResultComplete, listed
<1> QED
  BY <1>12, <1>14 DEF Listed

\* The list, once made, stays as complete as it is.
LEMMA NextLists ==
    ASSUME IInv, Accounted, Listed, [Next]_vars
    PROVE  Listed'
<1>1. CASE phase = "done"
  <2>1. UNCHANGED <<job, plan, store, result, phase>>
    BY <1>1, NothingAfter DEF vars
  <2> QED
    BY <2>1 DEF Listed, AllBuilt, ResultComplete
<1>2. CASE Assemble
  BY <1>2, AssembleLists DEF Listed
<1>3. CASE phase # "done" /\ ~Assemble
  <2>1. phase' # "done"
    BY <1>3 DEF Next, Step, ChunkStep, SubtreeStep, TaskStep, MergeStep, vars, Fail, Returned,
       BuildInMemory, SpillChunk, BuildSubOctant, FinishInMemory, FinishSubOctants,
       FinishLocalMerge, Subdivide, SampleLevel, TreeBuilt, WriteNode, ReadChild,
       RewriteChild, NothingToMerge, WriteParent, StartLevel, EndLevel, EndMerge, StartMerge
  <2>2. ASSUME phase' = "merging" PROVE AllBuilt'
    <3>1. CASE StartMerge
      BY <3>1 DEF StartMerge, AllBuilt, fixed
    <3>2. CASE phase = "merging"
      <4>1. job' = job /\ plan' = plan
        BY <1>3, <3>2 DEF Next, Step, ChunkStep, SubtreeStep, TaskStep, MergeStep, vars, Fail,
           Returned, fixed,
           BuildInMemory, SpillChunk, BuildSubOctant, FinishInMemory, FinishSubOctants,
           FinishLocalMerge, Subdivide, SampleLevel, TreeBuilt, WriteNode, ReadChild,
           RewriteChild, NothingToMerge, WriteParent, StartLevel, EndLevel, EndMerge,
           StartMerge
      <4> QED
        BY <3>2, <4>1 DEF Listed, AllBuilt
    <3>3. CASE ~StartMerge /\ phase # "merging"
      BY <1>3, <2>2, <3>3 DEF Next, Step, ChunkStep, SubtreeStep, TaskStep, MergeStep, vars,
         Fail, Returned,
         BuildInMemory, SpillChunk, BuildSubOctant, FinishInMemory, FinishSubOctants,
         FinishLocalMerge, Subdivide, SampleLevel, TreeBuilt, WriteNode, ReadChild,
         RewriteChild, NothingToMerge, WriteParent, StartLevel, EndLevel, EndMerge
    <3> QED
      BY <3>1, <3>2, <3>3
  <2> QED
    BY <2>1, <2>2 DEF Listed, ResultComplete
<1> QED
  BY <1>1, <1>2, <1>3

\* The list of nodes the build returns has every node of the store that holds
\* points, with as many as it holds, and the parent of every node it has.
THEOREM ResultHasEveryPoint == Spec => []ResultComplete
<1>1. Init => IInv /\ Accounted /\ Listed
  <2>1. Init => Accounted /\ Listed
    BY DEF Init, Accounted, Listed, NoPoints, ResultComplete
  <2> QED
    BY <2>1, InitHolds
<1>2. IInv /\ Accounted /\ Listed /\ [Next]_vars => (IInv /\ Accounted /\ Listed)'
  BY IInvIsInductive, NextAccounts, NextLists
<1>3. Listed => ResultComplete
  BY DEF Listed
<1> QED
  BY <1>1, <1>2, <1>3, PTL DEF Spec

-----------------------------------------------------------------------------
(* What a node holds                                                        *)

\* A leaf's worth of points, or one per cell of the sampling grid, or whatever
\* lies at the depth cap.
Good(k, S) ==
    \/ Cardinality(S) <= MaxLeaf
    \/ Accepted(k, pos, S) = S
    \/ Len(k) >= DepthCap

\* An oversized leaf is one of the last that were made.
OversizedLast ==
    \A r \in Keys : tree[r].at = "leaves" =>
        \A k \in Oversized(tree[r].nodes) : Len(k) = tree[r].level

NodesGood ==
    /\ \A k \in Keys : Good(k, store[k])
    /\ \A r \in Keys : tree[r].at \in {"sampling", "writing"} =>
          \A k \in Keys : Good(k, tree[r].nodes[k])

\* A node without points is a leaf.
LEMMA EmptyIsGood ==
    ASSUME NEW k
    PROVE  Good(k, {})
BY FS_EmptySet, VoxelTreeAssumption DEF Good

\* What is left of a good node is good.
LEMMA LessIsGood ==
    ASSUME NEW k, NEW T \in SUBSET Points, NEW S, S \subseteq T, Good(k, T)
    PROVE  Good(k, S)
<1>1. CASE Cardinality(T) <= MaxLeaf
  <2>1. IsFiniteSet(T)
    BY VoxelTreeAssumption, FS_Subset
  <2>2. /\ Cardinality(S) <= Cardinality(T)
        /\ Cardinality(S) \in Nat /\ Cardinality(T) \in Nat
    BY <2>1, FS_Subset, FS_CardinalityType
  <2> QED
    BY <1>1, <2>2, VoxelTreeAssumption DEF Good
<1>2. CASE Accepted(k, pos, T) = T
  <2>1. \A p, q \in T : Cell(k, pos[q]) = Cell(k, pos[p]) => p <= q
    BY <1>2 DEF Accepted
  <2>2. Accepted(k, pos, S) = S
    BY <2>1 DEF Accepted
  <2> QED
    BY <2>2 DEF Good
<1>3. CASE Len(k) >= DepthCap
  BY <1>3 DEF Good
<1> QED
  BY <1>1, <1>2, <1>3 DEF Good

\* What a parent keeps is good.
LEMMA SampleIsGood ==
    ASSUME NEW q, NEW got, Gathered(got) \subseteq Points
    PROVE  Good(q, Sampled(q, pos, got))
<1>1. CASE Collapses(got)
  <2>1. Sampled(q, pos, got) = Gathered(got) /\ Cardinality(Gathered(got)) <= MaxLeaf
    BY <1>1 DEF Sampled, Collapses
  <2> QED
    BY <2>1 DEF Good
<1>2. CASE ~Collapses(got)
  <2> DEFINE A == Accepted(q, pos, Gathered(got))
  <2>1. Sampled(q, pos, got) \subseteq A /\ A \subseteq Points
    BY <1>2 DEF Sampled, Accepted
  <2>2. Accepted(q, pos, A) = A
    BY DEF Accepted
  <2> HIDE DEF A
  <2>3. Good(q, A)
    BY <2>2 DEF Good
  <2> QED
    BY <2>1, <2>3, LessIsGood
<1> QED
  BY <1>1, <1>2

\* What is to be shown of a step.
LEMMA GoodNext ==
    ASSUME pos' = pos,
           \A k \in Keys : Good(k, store'[k]),
           \A r \in Keys : tree'[r].at \in {"sampling", "writing"} =>
              \A k \in Keys : Good(k, tree'[r].nodes[k])
    PROVE  NodesGood'
BY DEF NodesGood, Good

\* An oversized node is not empty.
LEMMA OversizedIs ==
    ASSUME NEW nodes, NEW k \in Oversized(nodes)
    PROVE  k \in Keys /\ Cardinality(nodes[k]) > MaxLeaf /\ nodes[k] # {}
<1>1. k \in Keys /\ Cardinality(nodes[k]) > MaxLeaf
  BY DEF Oversized
<1>2. nodes[k] = {} => Cardinality(nodes[k]) = 0
  BY FS_EmptySet
<1> QED
  BY <1>1, <1>2, VoxelTreeAssumption

\* A subtree begun, or changed by a step of its own.
LEMMA TreeIsGood ==
    ASSUME IInv, OversizedLast, NodesGood, NEW r \in Keys, NEW t,
           tree' = [tree EXCEPT ![r] = t], UNCHANGED <<pos, store>>,
           t.at = "leaves" => \A k \in Oversized(t.nodes) : Len(k) = t.level,
           t.at \in {"sampling", "writing"} => \A k \in Keys : Good(k, t.nodes[k])
    PROVE  OversizedLast' /\ NodesGood'
<1>1. tree'[r] = t /\ \A s \in Keys : s # r => tree'[s] = tree[s]
  BY Typed DEF IInv
<1>2. OversizedLast'
  BY <1>1 DEF OversizedLast, Oversized
<1>3. NodesGood'
  BY <1>1, GoodNext DEF NodesGood
<1> QED
  BY <1>2, <1>3

\* The first leaves are all of one level.
LEMMA LoadedLast ==
    ASSUME NEW r, NEW pts
    PROVE  /\ \A k \in Oversized(Loaded(r, pts).nodes) : Len(k) = Loaded(r, pts).level
           /\ Loaded(r, pts).at \in {"built", "leaves"}
<1> DEFINE t == Loaded(r, pts)
<1>1. /\ \A k \in Keys : Len(k) # t.level => t.nodes[k] = {}
      /\ t.at \in {"built", "leaves"}
  BY DEF Loaded
<1> HIDE DEF t
<1>2. \A k \in Oversized(t.nodes) : Len(k) = t.level
  BY <1>1, OversizedIs
<1> QED
  BY <1>1, <1>2 DEF t

\* A leaf is divided while it is too large and not at the depth cap, and those
\* it is divided into are the deepest.
LEMMA SubdivideIsGood ==
    ASSUME IInv, OversizedLast, NodesGood, NEW r \in Keys, Subdivide(r)
    PROVE  OversizedLast' /\ NodesGood'
<1> DEFINE nodes == tree[r].nodes
           over  == Oversized(nodes)
           t     == tree'[r]
<1>1. /\ tree' = [tree EXCEPT ![r] = t]
      /\ UNCHANGED <<fixed, chunkFile, job, spill, store, merge, task, phase, result>>
      /\ t \in Trees /\ Len(r) <= t.level
      /\ \A k \in over : k \in Keys /\ nodes[k] # {}
      /\ \/ /\ t.at = "sampling" /\ t.nodes = nodes /\ t.level = tree[r].level
            /\ over = {} \/ \E k \in over : Len(k) >= DepthCap
         \/ /\ t.at = "leaves"
            /\ over # {} /\ \A k \in over : Len(k) + 1 \in 0 .. Depth
            /\ \A k \in over : Len(k) < DepthCap
            /\ \A k \in over : Len(k) + 1 <= t.level
            /\ t.level = tree[r].level \/ \E k \in over : t.level = Len(k) + 1
            /\ \A k \in Keys :
                  t.nodes[k] =
                    IF k \in over THEN {}
                    ELSE IF k # Root /\ Parent(k) \in over
                         THEN Inside(nodes[Parent(k)], k) ELSE nodes[k]
  BY SubdivideNodes
<1>2. /\ tree[r].at = "leaves" /\ tree[r].level \in Nat /\ nodes \in [Keys -> SUBSET Points]
      /\ UNCHANGED <<pos, store>>
  BY <1>1, Typed DEF IInv, Subdivide, Trees, fixed
<1>3. \A k \in over : Len(k) = tree[r].level /\ k \in Keys
  BY <1>1, <1>2 DEF OversizedLast
<1> HIDE DEF t
<1>4. CASE /\ t.at = "sampling" /\ t.nodes = nodes
           /\ over = {} \/ \E k \in over : Len(k) >= DepthCap
  <2>1. ASSUME NEW k \in Keys PROVE Good(k, nodes[k])
    <3>1. CASE k \in over
      BY <1>3, <1>4, <3>1 DEF Good
    <3>2. CASE k \notin over
      <4>1. ~(Cardinality(nodes[k]) > MaxLeaf)
        BY <3>2 DEF Oversized
      <4>2. IsFiniteSet(nodes[k])
        BY <1>2, VoxelTreeAssumption, FS_Subset
      <4>3. Cardinality(nodes[k]) \in Nat
        BY <4>2, FS_CardinalityType
      <4> QED
        BY <4>1, <4>3, VoxelTreeAssumption DEF Good
    <3> QED
      BY <3>1, <3>2
  <2>2. t.at = "sampling" /\ \A k \in Keys : Good(k, t.nodes[k])
    BY <1>4, <2>1
  <2> QED
    BY <1>1, <1>2, <2>2, TreeIsGood
<1>5. CASE /\ t.at = "leaves" /\ over # {}
           /\ \A k \in over : Len(k) + 1 <= t.level
           /\ t.level = tree[r].level \/ \E k \in over : t.level = Len(k) + 1
           /\ \A k \in Keys :
                  t.nodes[k] =
                    IF k \in over THEN {}
                    ELSE IF k # Root /\ Parent(k) \in over
                         THEN Inside(nodes[Parent(k)], k) ELSE nodes[k]
  <2>1. t.level = tree[r].level + 1
    BY <1>2, <1>3, <1>5
  <2>2. ASSUME NEW k \in Oversized(t.nodes) PROVE Len(k) = t.level
    <3> HIDE DEF over
    <3>1. k \in Keys /\ Cardinality(t.nodes[k]) > MaxLeaf /\ t.nodes[k] # {}
      BY OversizedIs
    <3>2. t.nodes[k] =
             IF k \in over THEN {}
             ELSE IF k # Root /\ Parent(k) \in over
                  THEN Inside(nodes[Parent(k)], k) ELSE nodes[k]
      BY <1>5, <3>1
    <3>3. k \notin over
      BY <3>1, <3>2
    <3>4. CASE k # Root /\ Parent(k) \in over
      BY <1>2, <1>3, <2>1, <3>1, <3>4, ParentIsKey, KeyLength
    <3>5. CASE ~(k # Root /\ Parent(k) \in over)
      <4>1. t.nodes[k] = nodes[k]
        BY <3>2, <3>3, <3>5
      <4> QED
        BY <3>1, <3>3, <4>1 DEF over, Oversized
    <3> QED
      BY <3>4, <3>5
  <2>3. t.at = "leaves"
    BY <1>5
  <2> QED
    BY <1>1, <1>2, <2>2, <2>3, TreeIsGood
<1> QED
  BY <1>1, <1>4, <1>5

\* Sampling takes points out of the children and keeps one to a cell.
LEMMA SampleLevelIsGood ==
    ASSUME IInv, OversizedLast, NodesGood, NEW r \in Keys, SampleLevel(r)
    PROVE  OversizedLast' /\ NodesGood'
<1> DEFINE nodes == tree[r].nodes
           t     == tree'[r]
           Got(q) == ChildrenIn(nodes, q)
<1>1. /\ tree' = [tree EXCEPT ![r] = t]
      /\ UNCHANGED <<fixed, chunkFile, job, spill, store, merge, task, phase, result>>
      /\ t \in Trees /\ Len(r) <= t.level
      /\ \/ t.at = "writing" /\ t.nodes = nodes
         \/ /\ t.at = "sampling" /\ tree[r].level = t.level + 1
            /\ \A k \in Keys : Len(k) = tree[r].level /\ nodes[k] # {} =>
                  t.nodes[k] = Remaining(Parent(k), pos, Got(Parent(k)), k)
            /\ \A k \in Keys : Len(k) = t.level /\ Sampled(k, pos, Got(k)) # {} =>
                  t.nodes[k] = Sampled(k, pos, Got(k))
            /\ \A k \in Keys :
                  \/ t.nodes[k] = nodes[k]
                  \/ Len(k) = tree[r].level /\ nodes[k] # {}
                  \/ Len(k) = t.level /\ Sampled(k, pos, Got(k)) # {}
  BY SampleLevelNodes
<1>2. /\ tree[r].at = "sampling" /\ nodes \in [Keys -> SUBSET Points]
      /\ t.level \in Nat
      /\ UNCHANGED <<pos, store>> /\ \A k \in Keys : Good(k, nodes[k])
  BY <1>1, Typed DEF IInv, SampleLevel, Trees, fixed, NodesGood
<1> HIDE DEF t
<1>3. CASE t.at = "writing" /\ t.nodes = nodes
  <2>1. t.at = "writing" /\ \A k \in Keys : Good(k, t.nodes[k])
    BY <1>2, <1>3
  <2> QED
    BY <1>1, <1>2, <2>1, TreeIsGood
<1>4. CASE /\ t.at = "sampling" /\ tree[r].level = t.level + 1
           /\ \A k \in Keys : Len(k) = tree[r].level /\ nodes[k] # {} =>
                 t.nodes[k] = Remaining(Parent(k), pos, Got(Parent(k)), k)
           /\ \A k \in Keys : Len(k) = t.level /\ Sampled(k, pos, Got(k)) # {} =>
                 t.nodes[k] = Sampled(k, pos, Got(k))
           /\ \A k \in Keys :
                 \/ t.nodes[k] = nodes[k]
                 \/ Len(k) = tree[r].level /\ nodes[k] # {}
                 \/ Len(k) = t.level /\ Sampled(k, pos, Got(k)) # {}
  <2>1. ASSUME NEW k \in Keys PROVE Good(k, t.nodes[k])
    <3>1. CASE t.nodes[k] = nodes[k]
      BY <1>2, <3>1
    <3>2. CASE Len(k) = tree[r].level /\ nodes[k] # {}
      <4>1. k # Root
        BY <1>2, <1>4, <3>2, RootIsKey
      <4> DEFINE got == Got(Parent(k))
      <4>2. t.nodes[k] = Remaining(Parent(k), pos, got, k)
        BY <1>4, <3>2
      <4>3. Remaining(Parent(k), pos, got, k) \subseteq nodes[k]
        BY <1>2, <3>2, <4>1, SampledFromChildren
      <4>4. nodes[k] \in SUBSET Points /\ Good(k, nodes[k])
        BY <1>2
      <4> HIDE DEF got
      <4> QED
        BY <4>2, <4>3, <4>4, LessIsGood
    <3>3. CASE Len(k) = t.level /\ Sampled(k, pos, Got(k)) # {}
      <4> DEFINE got == Got(k)
      <4>1. t.nodes[k] = Sampled(k, pos, got)
        BY <1>4, <3>3
      <4>2. Gathered(got) \subseteq Points
        BY <1>2 DEF Gathered, ChildrenIn
      <4> HIDE DEF got
      <4> QED
        BY <4>1, <4>2, SampleIsGood
    <3> QED
      BY <1>4, <3>1, <3>2, <3>3
  <2>2. t.at = "sampling" /\ \A k \in Keys : Good(k, t.nodes[k])
    BY <1>4, <2>1
  <2> QED
    BY <1>1, <1>2, <2>2, TreeIsGood
<1> QED
  BY <1>1, <1>3, <1>4

\* A subtree writes the nodes it has.
LEMMA SubtreeIsGood ==
    ASSUME IInv, OversizedLast, NodesGood, NEW r \in Keys, SubtreeStep(r)
    PROVE  OversizedLast' /\ NodesGood'
<1>1. tree \in [Keys -> Trees] /\ store \in [Keys -> SUBSET Points]
  BY Typed DEF IInv
<1>2. CASE TreeBuilt(r)
  <2> DEFINE t == [at |-> "built", level |-> tree[r].level, nodes |-> tree[r].nodes]
  <2>1. tree' = [tree EXCEPT ![r] = t] /\ UNCHANGED <<pos, store>> /\ t.at = "built"
    BY <1>2 DEF TreeBuilt, fixed
  <2> HIDE DEF t
  <2> QED
    BY <2>1, TreeIsGood
<1>3. ASSUME NEW k \in WritesOf(r), WriteNode(r, k) PROVE OversizedLast' /\ NodesGood'
  <2>1. /\ k \in Keys /\ tree[r].at = "writing" /\ pos' = pos
        /\ store' = [store EXCEPT ![k] = tree[r].nodes[k]]
        /\ tree' = [tree EXCEPT ![r] = [at |-> "writing", level |-> tree[r].level,
                                        nodes |-> [tree[r].nodes EXCEPT ![k] = {}]]]
        /\ tree[r].nodes \in [Keys -> SUBSET Points]
    BY <1>1, <1>3 DEF WriteNode, WritesOf, fixed, Trees
  <2>2. /\ tree'[r].at = "writing" /\ tree'[r].nodes[k] = {}
        /\ \A m \in Keys : m # k => tree'[r].nodes[m] = tree[r].nodes[m]
        /\ \A s \in Keys : s # r => tree'[s] = tree[s]
        /\ store'[k] = tree[r].nodes[k] /\ \A m \in Keys : m # k => store'[m] = store[m]
    BY <1>1, <2>1
  <2>3. OversizedLast'
    BY <2>2 DEF OversizedLast, Oversized
  <2>4. \A m \in Keys : Good(m, store'[m])
    BY <2>1, <2>2 DEF NodesGood
  <2>5. \A s \in Keys : tree'[s].at \in {"sampling", "writing"} =>
           \A m \in Keys : Good(m, tree'[s].nodes[m])
    BY <2>1, <2>2, EmptyIsGood DEF NodesGood
  <2> QED
    BY <2>1, <2>3, <2>4, <2>5, GoodNext
<1> QED
  BY <1>2, <1>3, SubdivideIsGood, SampleLevelIsGood DEF SubtreeStep

\* A chunk begins subtrees with leaves, or changes no node.
LEMMA ChunkIsGood ==
    ASSUME IInv, OversizedLast, NodesGood, NEW c \in plan, ChunkStep(c)
    PROVE  OversizedLast' /\ NodesGood'
<1>1. c \in Keys
  BY PlanApart DEF IInv
<1>2. ASSUME NEW r \in Keys, NEW pts, tree' = [tree EXCEPT ![r] = Loaded(r, pts)],
             UNCHANGED <<pos, store>>
      PROVE  OversizedLast' /\ NodesGood'
  <2> DEFINE t == Loaded(r, pts)
  <2>1. /\ t.at \in {"built", "leaves"}
        /\ \A k \in Oversized(t.nodes) : Len(k) = t.level
    BY LoadedLast
  <2>2. tree' = [tree EXCEPT ![r] = t]
    BY <1>2
  <2> HIDE DEF t
  <2> QED
    BY <1>2, <2>1, <2>2, TreeIsGood
<1>3. CASE BuildInMemory(c)
  BY <1>1, <1>2, <1>3 DEF BuildInMemory, fixed
<1>4. ASSUME NEW r \in SubRoots(c), BuildSubOctant(c, r) PROVE OversizedLast' /\ NodesGood'
  BY <1>2, <1>4 DEF BuildSubOctant, SubRoots, fixed
<1>5. CASE SpillChunk(c) \/ FinishInMemory(c) \/ FinishSubOctants(c) \/ FinishLocalMerge(c)
  <2>1. UNCHANGED <<pos, tree, store>>
    BY <1>5 DEF SpillChunk, FinishInMemory, FinishSubOctants, FinishLocalMerge, fixed
  <2> QED
    BY <2>1 DEF OversizedLast, Oversized, NodesGood, Good
<1> QED
  BY <1>3, <1>4, <1>5 DEF ChunkStep

\* A merge task writes what is left of a child, or what it sampled.
LEMMA TaskIsGood ==
    ASSUME IInv, OversizedLast, NodesGood, NEW q \in Keys, TaskStep(q)
    PROVE  OversizedLast' /\ NodesGood'
<1>1. /\ task[q] \in Tasks /\ store \in [Keys -> SUBSET Points]
      /\ UNCHANGED <<pos, tree>> /\ task[q].at = "open"
  BY Typed DEF IInv, TaskStep, ReadChild, RewriteChild, NothingToMerge, WriteParent, fixed,
               AllRead, Working
<1>2. task[q].got \in [Keys -> SUBSET Points] /\ task[q].unwritten \subseteq Keys
  BY <1>1 DEF Tasks
<1>3. OversizedLast'
  BY <1>1 DEF OversizedLast, Oversized
<1>4. CASE \A k \in Keys : store'[k] = store[k]
  BY <1>1, <1>3, <1>4, GoodNext DEF NodesGood
<1>5. CASE NothingToMerge(q) \/ \E k \in task[q].unread : ReadChild(q, k)
  BY <1>4, <1>5 DEF NothingToMerge, ReadChild
<1>6. ASSUME NEW n \in task[q].unwritten, RewriteChild(q, n) PROVE NodesGood'
  <2> DEFINE v == Remaining(q, pos, task[q].got, n)
  <2>1. /\ task[q].unread = {} /\ store' = [store EXCEPT ![n] = v] /\ n \in Keys
        /\ \A m \in task[q].unwritten \ task[q].unread : task[q].got[m] = store[m]
    BY <1>1, <1>2, <1>6 DEF IInv, TasksRead, RewriteChild, AllRead
  <2>2. v \subseteq store[n]
    BY <1>2, <2>1, TaskSamples
  <2> HIDE DEF v
  <2>3. Good(n, v)
    <3>1. store[n] \in SUBSET Points /\ Good(n, store[n])
      BY <1>1, <2>1 DEF NodesGood
    <3> QED
      BY <2>2, <3>1, LessIsGood
  <2>4. \A k \in Keys : Good(k, store'[k])
    BY <1>1, <2>1, <2>3 DEF NodesGood
  <2> QED
    BY <1>1, <2>4, GoodNext DEF NodesGood
<1>7. CASE WriteParent(q)
  <2> DEFINE v == Sampled(q, pos, task[q].got)
  <2>1. store' = IF v = {} THEN store ELSE [store EXCEPT ![q] = v]
    BY <1>7 DEF WriteParent
  <2>2. Good(q, v)
    <3>1. Gathered(task[q].got) \subseteq Points
      BY <1>2 DEF Gathered
    <3> QED
      BY <3>1, SampleIsGood
  <2> HIDE DEF v
  <2>3. CASE v = {}
    <3>1. store' = store
      BY <2>1, <2>3
    <3> QED
      BY <1>4, <3>1
  <2>4. CASE v # {}
    <3>1. store' = [store EXCEPT ![q] = v]
      BY <2>1, <2>4
    <3>2. store'[q] = v /\ \A k \in Keys : k # q => store'[k] = store[k]
      BY <1>1, <3>1
    <3>3. ASSUME NEW k \in Keys PROVE Good(k, store'[k])
      <4>1. CASE k = q
        BY <2>2, <3>2, <4>1
      <4>2. CASE k # q
        BY <3>2, <4>2 DEF NodesGood
      <4> QED
        BY <4>1, <4>2
    <3> QED
      BY <1>1, <1>3, <3>3, GoodNext DEF NodesGood
  <2> QED
    BY <2>3, <2>4
<1> QED
  BY <1>3, <1>5, <1>6, <1>7, <1>4 DEF TaskStep

\* Every step keeps the nodes good.
LEMMA NextIsGood ==
    ASSUME IInv, OversizedLast, NodesGood, [Next]_vars
    PROVE  OversizedLast' /\ NodesGood'
<1>1. ASSUME UNCHANGED <<pos, tree, store>> PROVE OversizedLast' /\ NodesGood'
  BY <1>1 DEF OversizedLast, Oversized, NodesGood, Good
<1>2. CASE UNCHANGED vars \/ Fail \/ Returned \/ StartMerge \/ Assemble
  BY <1>1, <1>2 DEF vars, Fail, Returned, StartMerge, Assemble, fixed
<1>3. ASSUME NEW o \in Keys, MergeStep(o) PROVE OversizedLast' /\ NodesGood'
  BY <1>1, <1>3 DEF MergeStep, StartLevel, EndLevel, EndMerge, fixed
<1> QED
  BY <1>2, <1>3, ChunkIsGood, SubtreeIsGood, TaskIsGood DEF Next, Step

\* A stored node is a leaf of at most MaxLeaf points, or has one point to a
\* cell of its grid, or lies at the depth cap.
THEOREM NodesAreLeavesOrSamples == Spec => []LeafOrSample
<1>1. Init => IInv /\ OversizedLast /\ NodesGood
  <2>1. Init => OversizedLast /\ NodesGood
    <3> SUFFICES ASSUME Init PROVE OversizedLast /\ NodesGood
      OBVIOUS
    <3>1. /\ \A r \in Keys : tree[r].at = "none"
          /\ \A k \in Keys : store[k] = {}
      BY DEF Init, NoTree, NoPoints
    <3> QED
      BY <3>1, EmptyIsGood DEF OversizedLast, NodesGood
  <2> QED
    BY <2>1, InitHolds
<1>2. IInv /\ OversizedLast /\ NodesGood /\ [Next]_vars => (IInv /\ OversizedLast /\ NodesGood)'
  BY IInvIsInductive, NextIsGood
<1>3. NodesGood => LeafOrSample
  BY DEF NodesGood, LeafOrSample, Good
<1> QED
  BY <1>1, <1>2, <1>3, PTL DEF Spec

=============================================================================
