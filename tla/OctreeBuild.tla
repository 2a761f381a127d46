----------------------------- MODULE OctreeBuild -----------------------------
(***************************************************************************)
(* The build stage (src/src/octree.rs `build_node_map` and what it calls): *)
(* the chunks are built in parallel, each either as one subtree in memory  *)
(* or, when it is over the budget, as sub-octants spilled to files of      *)
(* their own and merged locally; then the chunk roots are merged level by  *)
(* level up to the global root, every parent a task of its own that reads  *)
(* its children from the node store, samples them and writes them back;    *)
(* then the list of nodes for the writer is assembled from the store.      *)
(*                                                                         *)
(* A list of points is the set of its members.  The node store is the map  *)
(* of NodeStore.tla; each call of it is a step, and the tasks and subtrees *)
(* in progress interleave there.  What a subtree does in memory between    *)
(* the calls is one step per round of the code's loops.                    *)
(*                                                                         *)
(* Not modelled here: the batches of merge parents and the number of pool  *)
(* threads (any number of chunks and of parents of a level may be in       *)
(* progress), and the routing of a spill through the writer cache, which   *)
(* is that of Distribute.tla.                                              *)
(***************************************************************************)
EXTENDS VoxelTree

CONSTANTS Plans,        \* the chunk plans that occur: disjoint chunk keys
          Budget,       \* points that fit chunk_mem_budget
          SpillCap,     \* SPILL_DEPTH_CAP: levels a split may go down
          DepthCap,     \* CHUNK_DEPTH_CAP: leaves this deep are not divided
          MergeLimit    \* points a merge parent may gather (oom_threshold)

ASSUME OctreeBuildAssumption ==
    /\ \A plan \in Plans :
          /\ plan \subseteq Keys
          /\ \A c, d \in plan : IsUnder(c, d) => c = d
    /\ Budget \in Nat /\ Budget >= MaxLeaf
    /\ SpillCap \in Nat \ {0}
    /\ DepthCap \in 0 .. Depth
    /\ MergeLimit \in Nat
    \* Depth leaves room for the deepest leaves.
    /\ \A plan \in Plans : \A c \in plan : \A n \in 0 .. Cardinality(Points) :
          Len(c) + SpillCap + ExtraLevels(n) <= Depth

VARIABLES pos,          \* point -> position, fixed
          plan,         \* the chunk keys, fixed
          chunkFile,    \* chunk -> points of its canonical file
          job,          \* chunk -> how far its build is, what it produced
          spill,        \* sub-octant -> points of its spill file
          tree,         \* subtree root -> the subtree built in memory
          store,        \* the node store: key -> points
          merge,        \* chunk or Root -> the merge that ends there
          task,         \* merge parent -> its task
          phase,        \* "building", "merging", "done" or "failed"
          result        \* the list returned: pairs of key and count

vars == <<pos, plan, chunkFile, job, spill, tree, store, merge, task, phase,
          result>>

NoJob   == [at |-> "waiting", split |-> 0, made |-> {}]
NoTree  == [at |-> "none", level |-> 0, nodes |-> NoPoints]
NoMerge == [at |-> "none", from |-> 0, stop |-> 0, keys |-> {}, made |-> {}]
NoTask  == [at |-> "none", unread |-> {}, unwritten |-> {}, got |-> NoPoints]
DoneTask == [at |-> "done", unread |-> {}, unwritten |-> {}, got |-> NoPoints]

TypeOK ==
    /\ pos \in [Points -> Positions]
    /\ plan \in Plans
    /\ chunkFile \in [Keys -> SUBSET Points]
    /\ job \in [Keys -> [at : {"waiting", "building", "merging", "built"},
                         split : Nat, made : SUBSET Keys]]
    /\ spill \in [Keys -> SUBSET Points]
    /\ tree \in [Keys -> [at : {"none", "leaves", "sampling", "writing", "built"},
                          level : Nat, nodes : [Keys -> SUBSET Points]]]
    /\ store \in [Keys -> SUBSET Points]
    /\ merge \in [Keys -> [at : {"none", "grouping", "sampling", "done"},
                           from : Nat, stop : Nat,
                           keys : SUBSET Keys, made : SUBSET Keys]]
    /\ task \in [Keys -> [at : {"none", "open", "done"},
                          unread : SUBSET Keys, unwritten : SUBSET Keys,
                          got : [Keys -> SUBSET Points]]]
    /\ phase \in {"building", "merging", "done", "failed"}
    /\ result \subseteq Keys \X Nat

\* Points numbered in Morton order have positions in lexicographic order.
Before(a, b) ==
    \/ a = b
    \/ \E i \in 1 .. Depth : a[i] < b[i] /\ \A j \in 1 .. i - 1 : a[j] = b[j]

\* The points of S that point_to_key puts into the voxel k.
Inside(S, k) == {p \in S : KeyAt(pos[p], Len(k)) = k}

Init ==
    /\ pos \in {f \in [Points -> Positions] :
                  \A p, q \in Points : p < q => Before(f[p], f[q])}
    /\ plan \in {pl \in Plans :
                   \A p \in Points : \E c \in pl : KeyAt(pos[p], Len(c)) = c}
    /\ chunkFile = [k \in Keys |-> IF k \in plan THEN Inside(Points, k) ELSE {}]
    /\ job = [c \in Keys |-> NoJob]
    /\ spill = NoPoints
    /\ tree = [r \in Keys |-> NoTree]
    /\ store = NoPoints
    /\ merge = [o \in Keys |-> NoMerge]
    /\ task = [t \in Keys |-> NoTask]
    /\ phase = "building"
    /\ result = {}

fixed == <<pos, plan>>

-----------------------------------------------------------------------------
(* One chunk: build_chunk_in_memory and build_chunk_spilled                 *)

\* push_into_leaf for every point: the leaves at the depth estimated from
\* their number.  With no points finish_subtree returns at once.
Loaded(root, pts) ==
    LET depth == Len(root) + ExtraLevels(Cardinality(pts))
    IN  [at |-> IF pts = {} THEN "built" ELSE "leaves", level |-> depth,
         nodes |-> [k \in Keys |-> IF Len(k) = depth THEN Inside(pts, k) ELSE {}]]

\* The chunk fits the budget: one subtree, read from the chunk's file.
BuildInMemory(c) ==
    /\ phase = "building" /\ c \in plan
    /\ job[c].at = "waiting"
    /\ Cardinality(chunkFile[c]) <= Budget
    /\ tree' = [tree EXCEPT ![c] = Loaded(c, chunkFile[c])]
    /\ job' = [job EXCEPT ![c] =
                 [at |-> "building", split |-> Len(c), made |-> {}]]
    /\ UNCHANGED <<fixed, chunkFile, spill, store, merge, task, phase, result>>

\* A slip: one level down, whatever the points look like.
SplitLevelFirst(c) == Len(c) + 1

\* choose_split_level: the shallowest level below the chunk at which no voxel
\* holds more than the budget, or the deepest candidate.
SplitLevel(c) ==
    LET candidates == Len(c) + 1 .. Len(c) + SpillCap
        Fits(l) == \A k \in Keys :
                      Len(k) = l => Cardinality(Inside(chunkFile[c], k)) <= Budget
    IN  CHOOSE l \in candidates :
            /\ Fits(l) \/ l = Len(c) + SpillCap
            /\ \A m \in candidates : m < l => ~Fits(m)

\* The chunk is over the budget: its points are routed into one file per
\* sub-octant of the split level.
SpillChunk(c) ==
    /\ phase = "building" /\ c \in plan
    /\ job[c].at = "waiting"
    /\ Cardinality(chunkFile[c]) > Budget
    /\ LET split == SplitLevel(c)
       IN  /\ job' = [job EXCEPT ![c] =
                        [at |-> "building", split |-> split, made |-> {}]]
           /\ spill' = [k \in Keys |->
                 IF Len(k) = split /\ IsUnder(k, c)
                 THEN Inside(chunkFile[c], k) ELSE spill[k]]
    /\ UNCHANGED <<fixed, chunkFile, tree, store, merge, task, phase, result>>

Spilled(c) == job[c].at = "building" /\ job[c].split > Len(c)

SubRoots(c) == {r \in Keys : IsUnder(r, c) /\ spill[r] # {}}

\* A sub-octant's file is read back and its subtree begun.
BuildSubOctant(c, r) ==
    /\ phase = "building" /\ c \in plan
    /\ Spilled(c) /\ r \in SubRoots(c)
    /\ tree[r].at = "none"
    /\ tree' = [tree EXCEPT ![r] = Loaded(r, spill[r])]
    /\ UNCHANGED <<fixed, chunkFile, job, spill, store, merge, task, phase,
                   result>>

-----------------------------------------------------------------------------
(* One subtree in memory: finish_subtree and bottom_up_levels               *)

Oversized(nodes) == {k \in Keys : Cardinality(nodes[k]) > MaxLeaf}

\* A slip: the uniform depth is taken to be deep enough.
SubdivideNever(r) ==
    /\ phase = "building"
    /\ tree[r].at = "leaves"
    /\ tree' = [tree EXCEPT ![r] = [at |-> "sampling", level |-> tree[r].level,
                                    nodes |-> tree[r].nodes]]
    /\ UNCHANGED <<fixed, chunkFile, job, spill, store, merge, task, phase,
                   result>>

\* A slip: a leaf at the depth cap is not divided, but the rounds go on for it.
SubdivideWithoutBreak(r) ==
    LET nodes == tree[r].nodes
        over  == {k \in Oversized(nodes) : Len(k) < DepthCap}
        Split(k) == IF k \in over THEN {}
                    ELSE IF k # Root /\ Parent(k) \in over
                         THEN Inside(nodes[Parent(k)], k) ELSE nodes[k]
        levels == {Len(k) + 1 : k \in over} \cup {tree[r].level}
    IN  /\ phase = "building"
        /\ tree[r].at = "leaves"
        /\ tree' = [tree EXCEPT ![r] =
                [at |-> IF Oversized(nodes) = {} THEN "sampling" ELSE "leaves",
                 level |-> CHOOSE l \in levels : \A m \in levels : m <= l,
                 nodes |-> [k \in Keys |-> Split(k)]]]
        /\ UNCHANGED <<fixed, chunkFile, job, spill, store, merge, task, phase,
                       result>>

\* One round of the adaptive subdivision, or its end: no leaf is oversized, or
\* an oversized one is at the depth cap.
Subdivide(r) ==
    LET nodes == tree[r].nodes
        over  == Oversized(nodes)
        Split(k) == IF k \in over THEN {}
                    ELSE IF k # Root /\ Parent(k) \in over
                         THEN Inside(nodes[Parent(k)], k) ELSE nodes[k]
        levels == {Len(k) + 1 : k \in over} \cup {tree[r].level}
    IN  /\ phase = "building"
        /\ tree[r].at = "leaves"
        /\ IF over = {} \/ \E k \in over : Len(k) >= DepthCap
           THEN tree' = [tree EXCEPT ![r] =
                  [at |-> "sampling", level |-> tree[r].level, nodes |-> nodes]]
           ELSE tree' = [tree EXCEPT ![r] =
                  [at |-> "leaves",
                   level |-> CHOOSE l \in levels : \A m \in levels : m <= l,
                   nodes |-> [k \in Keys |-> Split(k)]]]
        /\ UNCHANGED <<fixed, chunkFile, job, spill, store, merge, task, phase,
                       result>>

\* The children of voxel q among the keys of a map, with what they hold.
ChildrenIn(nodes, q) ==
    [c \in {k \in Keys : k # Root /\ Parent(k) = q /\ nodes[k] # {}} |-> nodes[c]]

\* One level of the bottom-up pass: every parent of level d is sampled from
\* its children; its own entry and theirs are replaced.
SampleLevel(r) ==
    LET nodes == tree[r].nodes
        d     == tree[r].level - 1
        Got(q) == ChildrenIn(nodes, q)
        New(k) == IF Len(k) = d + 1 /\ nodes[k] # {}
                  THEN Remaining(Parent(k), pos, Got(Parent(k)), k)
                  ELSE IF Len(k) = d /\ Sampled(k, pos, Got(k)) # {}
                       THEN Sampled(k, pos, Got(k)) ELSE nodes[k]
    IN  /\ phase = "building"
        /\ tree[r].at = "sampling"
        /\ IF tree[r].level = Len(r)
           THEN tree' = [tree EXCEPT ![r] =
                  [at |-> "writing", level |-> tree[r].level, nodes |-> nodes]]
           ELSE tree' = [tree EXCEPT ![r] =
                  [at |-> "sampling", level |-> d, nodes |-> [k \in Keys |-> New(k)]]]
        /\ UNCHANGED <<fixed, chunkFile, job, spill, store, merge, task, phase,
                       result>>

\* The chunk a subtree belongs to.
ChunkOf(r) == CHOOSE c \in plan : IsUnder(r, c)

\* The keys a subtree has still to write.
WritesOf(r) == IF tree[r].at = "writing"
               THEN {k \in Keys : tree[r].nodes[k] # {}} ELSE {}

\* The nodes are written in parallel, each by a call of the store.
WriteNode(r, k) ==
    /\ phase = "building"
    /\ k \in WritesOf(r)
    /\ store' = [store EXCEPT ![k] = tree[r].nodes[k]]
    /\ tree' = [tree EXCEPT ![r] =
                  [at |-> "writing", level |-> tree[r].level,
                   nodes |-> [tree[r].nodes EXCEPT ![k] = {}]]]
    /\ LET c == ChunkOf(r)
       IN  job' = [job EXCEPT ![c] = [at |-> job[c].at, split |-> job[c].split,
                                      made |-> job[c].made \cup {k}]]
    /\ UNCHANGED <<fixed, chunkFile, spill, merge, task, phase, result>>

TreeBuilt(r) ==
    /\ phase = "building"
    /\ tree[r].at = "writing" /\ tree[r].nodes = NoPoints
    /\ tree' = [tree EXCEPT ![r] =
                  [at |-> "built", level |-> tree[r].level, nodes |-> tree[r].nodes]]
    /\ UNCHANGED <<fixed, chunkFile, job, spill, store, merge, task, phase,
                   result>>

-----------------------------------------------------------------------------
(* merge_chunk_tops, for one chunk or for the whole tree                    *)

MergeFrom(roots, stop) ==
    [at |-> "grouping", stop |-> stop, keys |-> roots, made |-> {},
     from |-> IF roots = {} THEN stop
              ELSE CHOOSE l \in {Len(k) : k \in roots} :
                      \A k \in roots : Len(k) <= l]

ChildrenOf(o, q) ==
    {k \in merge[o].keys : Len(k) = merge[o].from /\ k # Root /\ Parent(k) = q}

Parents(o) ==
    {Parent(k) : k \in {k \in merge[o].keys : Len(k) = merge[o].from /\ k # Root}}

TooLarge(o, q) ==
    Cardinality(UNION {store[k] : k \in ChildrenOf(o, q)}) > MergeLimit

Active(o) == phase \in {"building", "merging"} /\ merge[o].at # "none"

OpenTasks(o) ==
    [q \in Keys |->
       IF q \in Parents(o)
       THEN [at |-> "open", unread |-> ChildrenOf(o, q),
             unwritten |-> ChildrenOf(o, q), got |-> NoPoints]
       ELSE task[q]]

\* The merge that ends at o goes on: its state, its level, what it merged.
MergeGoes(o, at, from, parents) ==
    merge' = [merge EXCEPT ![o] =
                [at |-> at, from |-> from, stop |-> merge[o].stop,
                 keys |-> merge[o].keys \cup parents,
                 made |-> merge[o].made \cup parents]]

\* The parents of the next level become tasks.  If one would gather too many
\* points nothing of the level is started and the build fails; but a child that
\* cannot be counted counts for nothing, so that one may slip through.
StartLevel(o) ==
    /\ Active(o) /\ merge[o].at = "grouping"
    /\ merge[o].from > merge[o].stop
    /\ \/ /\ \E q \in Parents(o) : TooLarge(o, q)
          /\ phase' = "failed"
          /\ UNCHANGED <<merge, task>>
       \/ /\ MergeGoes(o, "sampling", merge[o].from, {})
          /\ task' = OpenTasks(o)
          /\ UNCHANGED phase
    /\ UNCHANGED <<fixed, chunkFile, job, spill, tree, store, result>>

Working(q) == phase \in {"building", "merging"} /\ task[q].at = "open"

ReadChild(q, k) ==
    /\ Working(q) /\ k \in task[q].unread
    /\ task' = [task EXCEPT ![q] =
                  [at |-> "open", unread |-> task[q].unread \ {k},
                   unwritten |-> task[q].unwritten,
                   got |-> [task[q].got EXCEPT ![k] = store[k]]]]
    /\ UNCHANGED <<fixed, chunkFile, job, spill, tree, store, merge, phase,
                   result>>

AllRead(q) == Working(q) /\ task[q].unread = {}

\* Every child turned out to be empty: nothing is written.
NothingToMerge(q) ==
    /\ AllRead(q)
    /\ task[q].got = NoPoints
    /\ task' = [task EXCEPT ![q] = DoneTask]
    /\ UNCHANGED <<fixed, chunkFile, job, spill, tree, store, merge, phase,
                   result>>

ChildRewritten(q, k) ==
    task' = [task EXCEPT ![q] =
               [at |-> "open", unread |-> {},
                unwritten |-> task[q].unwritten \ {k}, got |-> task[q].got]]

\* A slip: a child that keeps nothing is not rewritten.
RewriteChildIfLeft(q, k) ==
    LET left == Remaining(q, pos, task[q].got, k)
    IN  /\ AllRead(q)
        /\ task[q].got # NoPoints
        /\ k \in task[q].unwritten
        /\ store' = IF left = {} THEN store ELSE [store EXCEPT ![k] = left]
        /\ ChildRewritten(q, k)
        /\ UNCHANGED <<fixed, chunkFile, job, spill, tree, merge, phase, result>>

\* Each child is rewritten with what is left to it, empty or not ...
RewriteChild(q, k) ==
    /\ AllRead(q)
    /\ task[q].got # NoPoints
    /\ k \in task[q].unwritten
    /\ store' = [store EXCEPT ![k] = Remaining(q, pos, task[q].got, k)]
    /\ ChildRewritten(q, k)
    /\ UNCHANGED <<fixed, chunkFile, job, spill, tree, merge, phase, result>>

\* ... then the parent is written, unless it keeps nothing.
WriteParent(q) ==
    /\ AllRead(q)
    /\ task[q].got # NoPoints
    /\ task[q].unwritten = {}
    /\ store' = IF Sampled(q, pos, task[q].got) = {} THEN store
                ELSE [store EXCEPT ![q] = Sampled(q, pos, task[q].got)]
    /\ task' = [task EXCEPT ![q] = DoneTask]
    /\ UNCHANGED <<fixed, chunkFile, job, spill, tree, merge, phase, result>>

\* A slip: the next level does not wait for the tasks of this one.
EndLevelAtOnce(o) ==
    LET parents == Parents(o)
    IN  /\ Active(o) /\ merge[o].at = "sampling"
        /\ MergeGoes(o, "grouping", merge[o].from - 1, parents)
        /\ UNCHANGED <<fixed, chunkFile, job, spill, tree, store, task, phase,
                       result>>

\* All parents of the level are merged: they join the keys of the next one.
EndLevel(o) ==
    LET done == Parents(o)
    IN  /\ Active(o) /\ merge[o].at = "sampling"
        /\ \A q \in done : task[q].at = "done"
        /\ MergeGoes(o, "grouping", merge[o].from - 1, done)
        /\ task' = [q \in Keys |-> IF q \in done THEN NoTask ELSE task[q]]
        /\ UNCHANGED <<fixed, chunkFile, job, spill, tree, store, phase, result>>

EndMerge(o) ==
    /\ Active(o) /\ merge[o].at = "grouping"
    /\ merge[o].from = merge[o].stop
    /\ MergeGoes(o, "done", merge[o].from, {})
    /\ UNCHANGED <<fixed, chunkFile, job, spill, tree, store, task, phase,
                   result>>

-----------------------------------------------------------------------------
(* build_node_map                                                           *)

\* The chunk is built: its canonical file is deleted.
ChunkBuilt(c, made) ==
    /\ job' = [job EXCEPT ![c] = [at |-> "built", split |-> job[c].split,
                                   made |-> job[c].made \cup made]]
    /\ chunkFile' = [chunkFile EXCEPT ![c] = {}]

\* A slip: the file is deleted as soon as it is read.
FinishInMemoryEarly(c) ==
    /\ phase = "building" /\ c \in plan
    /\ job[c].at = "building" /\ job[c].split = Len(c)
    /\ tree[c].at \in {"writing", "built"}
    /\ ChunkBuilt(c, {})
    /\ UNCHANGED <<fixed, spill, tree, store, merge, task, phase, result>>

FinishInMemory(c) ==
    /\ phase = "building" /\ c \in plan
    /\ job[c].at = "building" /\ job[c].split = Len(c)
    /\ tree[c].at = "built"
    /\ ChunkBuilt(c, {})
    /\ UNCHANGED <<fixed, spill, tree, store, merge, task, phase, result>>

LocalMerge(c) ==
    job' = [job EXCEPT ![c] = [at |-> "merging", split |-> job[c].split,
                               made |-> job[c].made]]

\* Every sub-octant is built: the spill files are removed and the sub-octant
\* roots that have a node are merged up to the chunk root.
FinishSubOctants(c) ==
    LET roots == {k \in job[c].made : Len(k) = job[c].split}
    IN  /\ phase = "building" /\ c \in plan
        /\ Spilled(c)
        /\ \A r \in SubRoots(c) : tree[r].at = "built"
        /\ spill' = [r \in Keys |-> IF IsUnder(r, c) THEN {} ELSE spill[r]]
        /\ IF roots = {}
           THEN ChunkBuilt(c, {}) /\ UNCHANGED merge
           ELSE /\ LocalMerge(c)
                /\ merge' = [merge EXCEPT ![c] = MergeFrom(roots, Len(c))]
                /\ UNCHANGED chunkFile
        /\ UNCHANGED <<fixed, tree, store, task, phase, result>>

FinishLocalMerge(c) ==
    /\ phase = "building" /\ c \in plan
    /\ job[c].at = "merging" /\ merge[c].at = "done"
    /\ ChunkBuilt(c, merge[c].made)
    /\ merge' = [merge EXCEPT ![c] = NoMerge]
    /\ UNCHANGED <<fixed, spill, tree, store, task, phase, result>>

\* Every chunk is built: the chunk roots that have a node are merged to the
\* global root.
StartMerge ==
    /\ phase = "building"
    /\ \A c \in plan : job[c].at = "built"
    /\ phase' = "merging"
    /\ merge' = [merge EXCEPT ![Root] =
          MergeFrom(UNION {{k \in job[c].made : Len(k) = Len(c)} : c \in plan},
                    0)]
    /\ UNCHANGED <<fixed, chunkFile, job, spill, tree, store, task, result>>

\* A slip: the ancestors that have no points stay out of the list.
AssembleWithoutAncestors ==
    LET made == (UNION {job[c].made : c \in plan}) \cup merge[Root].made
        kept == {k \in made : store[k] # {}}
    IN  /\ phase = "merging"
        /\ merge[Root].at = "done"
        /\ result' = {<<k, Cardinality(store[k])>> : k \in kept}
        /\ phase' = "done"
        /\ UNCHANGED <<fixed, chunkFile, job, spill, tree, store, merge, task>>

\* The nodes are counted anew, empty ones are dropped, and every ancestor that
\* is missing is put back with no points.
Assemble ==
    LET made      == (UNION {job[c].made : c \in plan}) \cup merge[Root].made
        kept      == {k \in made : store[k] # {}}
        ancestors == UNION {{Prefix(k, n) : n \in 0 .. Len(k) - 1} : k \in kept}
    IN  /\ phase = "merging"
        /\ merge[Root].at = "done"
        /\ result' = {<<k, Cardinality(store[k])>> : k \in kept}
                     \cup {<<a, 0>> : a \in ancestors \ kept}
        /\ phase' = "done"
        /\ UNCHANGED <<fixed, chunkFile, job, spill, tree, store, merge, task>>

\* Any call of the store, the chunk files or the spill files may fail: the
\* error goes up and the build returns it.
Fail ==
    /\ phase \in {"building", "merging"}
    /\ phase' = "failed"
    /\ UNCHANGED <<fixed, chunkFile, job, spill, tree, store, merge, task,
                   result>>

Returned == phase \in {"done", "failed"} /\ UNCHANGED vars

-----------------------------------------------------------------------------
ChunkStep(c) ==
    \/ BuildInMemory(c) \/ SpillChunk(c)
    \/ \E r \in SubRoots(c) : BuildSubOctant(c, r)
    \/ FinishInMemory(c) \/ FinishSubOctants(c) \/ FinishLocalMerge(c)

SubtreeStep(r) ==
    \/ Subdivide(r) \/ SampleLevel(r) \/ TreeBuilt(r)
    \/ \E k \in WritesOf(r) : WriteNode(r, k)

TaskStep(q) ==
    \/ \E k \in task[q].unread : ReadChild(q, k)
    \/ \E k \in task[q].unwritten : RewriteChild(q, k)
    \/ NothingToMerge(q) \/ WriteParent(q)

MergeStep(o) == StartLevel(o) \/ EndLevel(o) \/ EndMerge(o)

Step ==
    \/ \E c \in plan : ChunkStep(c)
    \/ \E k \in Keys : SubtreeStep(k) \/ TaskStep(k) \/ MergeStep(k)
    \/ StartMerge \/ Assemble

Next == Step \/ Fail \/ Returned

\* Rayon's pools run every task they were given: some thread always goes on.
Spec == Init /\ [][Next]_vars /\ WF_vars(Step)

-----------------------------------------------------------------------------
(* Properties                                                               *)

\* The files a merge task has still to write, once it has read its children.
Pending(q) ==
    IF task[q].at = "open" /\ task[q].unread = {} /\ task[q].got # NoPoints
    THEN task[q].unwritten \cup {q} ELSE {}

PendingPoints(q, k) ==
    IF k = q THEN Sampled(q, pos, task[q].got)
    ELSE Remaining(q, pos, task[q].got, k)

\* Where a point is to be found.  A file that was read back, or is about to be
\* rewritten, no longer counts: its reader does.
InFiles(p)  == {c \in plan : job[c].at = "waiting" /\ p \in chunkFile[c]}
InSpills(p) == {r \in Keys : tree[r].at = "none" /\ p \in spill[r]}
InTrees(p)  ==
    LET trees == {r \in Keys : tree[r].nodes # NoPoints}
    IN  {h \in trees \X Keys : p \in tree[h[1]].nodes[h[2]]}
InStore(p)  ==
    LET tasks == {q \in Keys : Pending(q) # {}}
    IN  {k \in Keys : p \in store[k] /\ \A q \in tasks : k \notin Pending(q)}
InTasks(p)  ==
    LET tasks == {q \in Keys : Pending(q) # {}}
    IN  {h \in tasks \X Keys : h[2] \in Pending(h[1]) /\ p \in PendingPoints(h[1], h[2])}

Homes(p) ==
    ({"file"} \X InFiles(p)) \cup ({"spill"} \X InSpills(p)) \cup
    ({"tree"} \X InTrees(p)) \cup ({"store"} \X InStore(p)) \cup
    ({"task"} \X InTasks(p))

(***************************************************************************)
(* At every moment each point of the input is in exactly one place: the    *)
(* chunk file, a spill file, one node of one subtree in memory, one node   *)
(* file, or what one merge task has still to write.  Routing, dividing,    *)
(* sampling, the spill's local merge and the merge of the chunk tops       *)
(* neither lose nor duplicate a point, however they interleave.            *)
(***************************************************************************)
EveryPointOnce == \A p \in Points : Cardinality(Homes(p)) = 1

(***************************************************************************)
(* A chunk's canonical file is deleted, and a spilled chunk's sub-octant   *)
(* files are, only when all its points have reached the node store.        *)
(***************************************************************************)
DeletedOnlyWhenStored ==
    \A c \in plan : job[c].at \in {"merging", "built"} =>
        \A p \in Inside(Points, c) : \A h \in Homes(p) :
            h[1] \in {"store", "task"}

(***************************************************************************)
(* A point is only ever stored in a voxel it lies in, so the tree the      *)
(* writer emits is a tree: distribute's routing, the leaves and the        *)
(* sampling of parents agree on where every point belongs.                 *)
(***************************************************************************)
NodesContainTheirPoints ==
    \A k \in Keys : \A p \in store[k] : KeyAt(pos[p], Len(k)) = k

\* The keys a merge task works on.
TaskKeys(q) ==
    IF task[q].at # "open" THEN {}
    ELSE {q} \cup task[q].unread \cup task[q].unwritten

(***************************************************************************)
(* No node file is in the hands of two tasks at once, which the stores     *)
(* rely on: a write of FileNodeStore truncates the file, and what a merge  *)
(* task has read must not change before it is written back.  The state is  *)
(* of its type.                                                            *)
(***************************************************************************)
OneTaskPerNode ==
    LET trees == {r \in Keys : tree[r].at = "writing"}
        tasks == {q \in Keys : task[q].at = "open"}
    IN  /\ TypeOK
        /\ \A a, b \in trees : a # b => WritesOf(a) \cap WritesOf(b) = {}
        /\ \A a, b \in tasks : a # b => TaskKeys(a) \cap TaskKeys(b) = {}
        /\ \A a \in trees, b \in tasks : WritesOf(a) \cap TaskKeys(b) = {}

(***************************************************************************)
(* Every subtree held in memory fits the budget of a build slot, unless    *)
(* its points lie so close that SPILL_DEPTH_CAP levels do not part them.   *)
(***************************************************************************)
SubtreesFitBudget ==
    \A r \in Keys : tree[r].at # "none" =>
        \/ Cardinality(UNION {tree[r].nodes[k] : k \in Keys}) <= Budget
        \/ Len(r) = Len(ChunkOf(r)) + SpillCap

(***************************************************************************)
(* The list returned has every point exactly once: the node of each key is *)
(* listed once, with the number of points its file holds after the merge,  *)
(* and every key's parent is listed too, so a reader that descends from    *)
(* the root finds every node.                                              *)
(***************************************************************************)
ResultComplete ==
    phase = "done" =>
        LET listed == {e[1] : e \in result}
        IN  /\ \A k \in Keys : store[k] # {} => k \in listed
            /\ \A e \in result : e[2] = Cardinality(store[e[1]])
            /\ \A k \in listed : k # Root => Parent(k) \in listed

(***************************************************************************)
(* A node of the result is a leaf's worth of points, or a sample with at   *)
(* most one point per cell of its grid, or lies at the depth cap.          *)
(***************************************************************************)
LeafOrSample ==
    phase = "done" =>
        \A k \in Keys :
            \/ Cardinality(store[k]) <= MaxLeaf
            \/ Accepted(k, pos, store[k]) = store[k]
            \/ Len(k) >= DepthCap

(***************************************************************************)
(* The build returns: no merge waits for a task that is never run.         *)
(***************************************************************************)
Returns == <>(phase \in {"done", "failed"})

(***************************************************************************)
(* What the comments of grid_sample say (octree.rs: "Guarantee every child *)
(* that contributed points keeps at least one. This prevents zero-point    *)
(* intermediate nodes in the COPC hierarchy"): a node with descendants     *)
(* has points itself.                                                      *)
(***************************************************************************)
NoEmptyIntermediate ==
    phase = "done" => \A e \in result : e[2] > 0
=============================================================================
