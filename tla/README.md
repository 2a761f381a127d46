# A TLA+ verification of copc-converter

`copc-converter` turns LAS/LAZ tiles of any total size into one COPC file, an
octree of compressed point nodes, while keeping its memory under a budget.  It
does so by going through temporary files several times, with many threads on
each pass.  What must hold is easily said: *every point of the input is in the
output exactly once, at a node it lies in, and a reader that starts at the root
page finds it*.  This directory checks and proves that, pass by pass.

All source paths below are relative to the repository; `octree.rs` is
`src/src/octree.rs` as seen from the top of the tree these modules were written
against, and likewise for the other files.

## 1. The system

```
 inputs ──scan──► validate ──► analyze/plan ──► distribute ──► build ──► write ──► out.copc.laz
                                 (count grid)    chunk files    node     windows,
                                                                store    hierarchy
```

| Component | State it keeps | Operations | Interacts by | What makes it hard | What makes it correct |
|---|---|---|---|---|---|
| **Node store** (`node_store.rs`) trait; packed and file backends | pack writers, cursors, index; or one file per key | `write`, `read`, `count` | called by every build, merge and writer thread | readers hold no lock while they read; `BufWriter` may hold bytes back; a `write_all` may fail half-way | it is a map: a read returns what the key held at one instant of the call |
| **Distribute** (`octree.rs` `distribute`, `ChunkWriterCache`, `merge_chunk_shards`) | per worker: slice, batch, open writers in LRU order, shard files; shared: tallies, canonical files | read a batch, group, append, evict, flush, merge shards | one worker closure per slice, a barrier, one merge per chunk | bounded open files, uneven slices, workers without points for a chunk, an error in one of them | each chunk file holds exactly its points, once, in input order, and its tally is exact |
| **Build and merge** (`octree.rs` `build_node_map`, `build_chunk_in_memory`, `build_chunk_spilled`, `finish_subtree`, `bottom_up_levels`, `grid_sample`, `merge_chunk_tops`) | chunk files, spill files, subtrees in memory, node store, level lists | load, subdivide, sample, write, spill, merge a level, delete files, assemble the list | chunks and merge tasks run in parallel on the node store | leaves at several depths, coincident points, levels as barriers, files deleted while others are built | no point lost or duplicated at any moment; the list returned describes the tree on disk |
| **COPC writer** (`writer.rs`) | sorted node list, windows, chunk table, pages | encode a window, compress, lay out and patch pages | reads the node store | offsets are reconstructed from two lists walked in step; times need not be numbers | every node is reachable from the root page at the right byte range |
| **Chunk planner** (`chunking.rs`, `build_chunk_lut`) | count grid of atomic 32-bit cells, bounds, the pyramid of merged cells, planned chunks, lookup table | count, merge sparse cells, sub-split dense ones, look up | feeds distribute, which classifies by the table | counting, routing and the build each classify a point; sums against a target, blocked parents | the plan is the coarsest that fits, its chunks are apart, its estimates add up, and the table leads every point to a chunk it lies in |
| **Pipeline** (`lib.rs`, `from_scan`, `Drop`) | temp directory, stage types | scan → validate → (analyze) → distribute → build → write | owns all of the above | a directory named by a process id that comes again, crashes, errors at every stage | an output holds its own run's points; scratch space is given back; nobody removes a directory in use |
| **Scan and validation** (`validate.rs`, `OctreeBuilder::scan`, the encoding in `from_scan`) | CRS, point format, schema, bounds, encoding of each file | scan, compare, choose payloads, fit an encoding | parallel scan | a CRS has two forms; references are first files; one i32 encoding for all bounds | accepted files agree; the verdict ignores their order; no coordinate saturates |
| **Extra bytes** (`extra_bytes.rs`) | descriptors: schema, option bits, min and max slots | parse, hash, fold, patch | run over all files by `validate` | NaN, infinities, absent statistics, types without any, integers that no double can be | merged statistics are those of all points, as near as a double can say it |
| **Temp file frames** (`write_temp_batch`, `MultiFrameReader`, `read_temp_batches`, `count_temp_file_points`) | position in file, frame, block and batch | append, read on, count | under distribute and the stores | short reads, ends of frames, empty batches, truncation | a whole file is read and counted completely; a cut one never ends well inside a batch |
| **Remote inspection tools** (`tools/`, `bin/`) | HTTP ranges | read ranges with retries | stand-alone | ranges answered out of order | every slice is cut from the right answer |
| **CLI and progress** (`main.rs`) | terminal lines | display | observer callback | - | display only |

`PROJECT.json` lists the same components with their status, the hazards of each
at the line where they bite, and the properties that cover them.

## 2. The modules

```
NodeStore ◄─────────── PackedNodeStore ◄── PackedNodeStore_proofs
   ▲ (refinement)            ▲
   └──── FileNodeStore       MCPackedNodeStore  (MCPackedOne.cfg, MCPackedTwo.cfg)
             ▲ ▲
             │ └── FileNodeStore_proofs
             MCFileNodeStore

Lists ◄── ChunkPlanner ◄── MCChunkPlanner
               ▲
               └── ChunkPlanner_proofs

Distribute ◄── MCDistribute
    ▲
    └── Distribute_proofs

VoxelTree ◄── OctreeBuild ◄── MCOctreeBuild  (MCOctreeBuild.cfg, MCOctreeEmptyNode.cfg)
                  ▲
                  └── OctreeBuild_proofs ◄── OctreePoints_proofs

TempFrames ◄── MCTempFrames

Lists ◄── HierarchyPages ◄── CopcWriter ◄── MCCopcWriter
                                 ▲
                                 └── CopcWriter_proofs

ExtraBytes, Lists ◄── InputChecks ◄── Pipeline ◄── MCPipeline  (MCPipelineInputs.cfg,
                                         ▲           MCPipelineCrs.cfg, MCPipelineTempDir.cfg)
                                         └── Pipeline_proofs
```

`X ◄── Y`: Y extends or instantiates X.  *Pipeline* has the stages
as single steps on the temporary directory; what they do inside are the other
modules, which meet at these interfaces.  *ChunkPlanner* ends with
`RoutedIntoOwnChunk`: the lookup table is a function from points to chunks, the
same for every worker, which is all that *Distribute* (`chunkOf`) assumes, and a
point lies in its chunk and in no other, which *OctreeBuild* assumes of a plan.
*TempFrames* shows that a file of appended batches is read back as their
concatenation, which *Distribute*, *OctreeBuild* and *PackedNodeStore* take for
granted when they treat files as sequences of points.
*Distribute* ends with `ChunkFilesExact`, and *OctreeBuild* starts from chunk
files that hold exactly their points.  *OctreeBuild* takes the node store for an
atomic map with one step per call, which is what `ImplementsNodeStore` shows of
both backends; the file backend keeps it only for callers that never use one key
from two tasks, which is what `OneTaskPerNode` shows of *OctreeBuild*.
*CopcWriter* starts from any list of nodes that has the parent of each of its
keys and tells truly how many points each has, which is `ResultComplete`.

In several modules a definition whose comment begins with "A slip" stands
before the definition it varies.  It is no part of the specification: it is a
plausible bug at that place, and the mutants of `PROJECT.json` use it to show
that the property beside it in that list can tell the code from the bug.

### NodeStore

The promise of the trait.  A call is two steps, begin and end.  A write takes
effect at its end; a read fixes its answer when it begins, which is an instant
within the call.  A write that returns `Err` sets `failed`: callers propagate
it with `?` and the build is abandoned, so nothing more is promised.  Failed
*reads* promise everything: they change nothing.

### PackedNodeStore

| Code | Model |
|---|---|
| `packs[i].writer`, a `BufWriter<File>` | `stream[p]`, every unit handed over, and `flushed[p]`, how many of them are in the file |
| `pack_offsets` / the cursor kept with the writer | `cursor[p]` |
| `index: DashMap<VoxelKey, NodeLocation>` | `index[k]` |
| locals of a running `write` or `read` | `op[t]` |
| `write`: encode; lock, `write_all`, advance; publish | `BeginWrite`, `AppendToPack` or `AppendFails`, `InsertIndex` |
| `read`: `index.get`; lock, flush; open, seek, read, decode | `LookUp`, `FlushPack`, `Fetch`, `ReturnEmpty`, `ReadFails` |
| `count` | `Count` |

Bytes are units `<<v, i>>`, the i-th piece of list v, so that a reader that
looks at the wrong place never gets the right answer by accident.  A `BufWriter`
may push out any prefix of its buffer at any `write_all`; `AppendToPack` chooses
any.  The pack mutex covers every access to the writer, so its critical sections
are single steps; what the code does outside the mutex is a step of its own.

### FileNodeStore

`File::create` (the file is empty from then on), parts of the list reaching the
file, the flush; `File::open`, the read.  The guard `Mine` is the callers'
discipline named above.  A failed write leaves the file in any state it was in.

### Distribute

`Start`, `ReadBatch`, `AppendGroup` (`AppendToOpen` or `OpenAndAppend`, with the
eviction), `NextFile`, `FlushAll` and `WorkerFails` are the worker closure;
`Join` is the end of `par_iter`; `CreateEmpty`, `RenameFirst`, `CopyShard`,
`MergeFails` the merge of each chunk's shards; `Finish` and `GiveUp` the end of
`distribute`.  Points are numbered in input order, so "in input order" can be
said of a shard: a batch's group of a chunk is the set of its points `InOrder`.  `chunkOf`, the planner's classification, is any function, the
same for all workers.

### VoxelTree, OctreeBuild

A voxel key is the path of octants that leads to it, so that `parent` drops the
last one and `point_to_key(level)` is a prefix: `point_to_key` decides one octant
per level from the same comparisons whatever the level asked for.  Morton order
is the numeric order of points.  The visiting order of `grid_sample` matters only
for *which* point of a cell is accepted; no property depends on it, and the 21
bits per axis of `morton3` are abstracted with it.

`GridPos` is where the *sampling grid* sees a point: it is laid over rounded
integer coordinates while `point_to_key` halves floating-point ones, so a point
on a voxel boundary may be seen on the far side.  The run `octree_build` uses such a
grid; that is how a parent may end with no points of its own although its
children had some.

| Code | Model |
|---|---|
| `build_chunk_in_memory` | `BuildInMemory`, `Subdivide`, `SampleLevel`, `WriteNode`, `TreeBuilt`, `FinishInMemory` |
| `build_chunk_spilled`, `choose_split_level` | `SpillChunk`, `BuildSubOctant`, then as above, `FinishSubOctants`, `FinishLocalMerge` |
| `finish_subtree`'s loop of rounds | `Subdivide`, once per round |
| `bottom_up_levels` | `SampleLevel` per level, `WriteNode` per node file |
| `grid_sample` | `Sampled`, `Remaining` (`Collapses`, `Accepted`, `GivenBack`) |
| `merge_chunk_tops` | `StartLevel` (which may take a parent that is too large, when its children could not be counted), `ReadChild`, `RewriteChild`, `WriteParent`, `NothingToMerge`, `EndLevel`, `EndMerge` |
| `build_node_map` | `StartMerge`, `Assemble`, `Fail` |

### HierarchyPages, CopcWriter

| Code (`writer.rs`) | Model |
|---|---|
| the node store and the list handed to `write_copc` | `nodes`, from key to points; a key without points is an empty node |
| the sorted list, `data_keys`, `win_start`, `win_end` | `ordered`, `dataKeys`, `start`, `end` |
| the `par_iter` closure of a node | `EncodeNode`, in any order within the window, with the points in any of the `Arrangements` the sort may leave: ascending, or, with a NaN among the times, any |
| the sequential half of a window: fold, sample, compress | `CompressWindow`; the compressor chooses each chunk's size |
| the chunk table read back, the walk that pairs it with the list | `ChunkTable`, `ChunkIndex`, `CurrentOffset`, `ChunkInfo` |
| `choose_page_boundaries`, `build_hierarchy_page_recursive` | `Boundaries`; `PageTree`: `CutPage` with the pages of each group of entries behind it, as many times as there are boundaries, and at last `WholePage` |
| `build_hierarchy_payload` | `PageOffset`, `Patched`, `HierarchyPayload` |
| `build_page_recursive`, `build_temporal_payload` | the same operators with `kind = "time"`, `TemporalPayload` |
| patching header and COPC info at the end | `PatchHeader` |
| any `?` | `Fail` |

A key is `<<level, x>>` with one coordinate instead of three: the writer uses
keys only to sort them, to find the ancestor at a level, and to print them.
Bytes appear as the sizes from which offsets are reckoned, so an offset that
is off by a header or by a sibling page is off in the model too.  What a
*reader* does (follow the root page, follow pointers, take records) is the
definitions at the end of *HierarchyPages*; `EveryNodeFound`, `PagesTile` and
`TimeSearchComplete` are said of it.  `WindowsBounded` and `EntriesDescribe` are said
of the writer itself, of the moment the windows and the chunk table are through, and
`HeaderExact` of the finished header against the nodes.

### ChunkPlanner

| Code (`chunking.rs`, `octree.rs`) | Model |
|---|---|
| `compute_chunk_target`, `max_chunk_points`, `select_grid_size`, `distribute_worker_count` | `ChunkTarget`, `MaxChunkPoints`, `GridDepth`, `Workers` |
| `count_points`: a worker's loop over its slice; the fold of its bounds | `CountPoint`, `CountFails`, `EndCount` (`Edge`, `Encoded`, `CountedCell`, `MergedBounds`, `FoldedBounds`) |
| the atomic `u32` cells | `grid`, modulo `CounterValues` |
| `merge_sparse_cells`: one level of the pyramid | `MergeLevel` (`Child`, `Sum`, `Blocked`, `Merged`, `ChunksUnder`), `EndMerge` |
| `emit_chunk_root`, `split_extra_levels` | `EmitChunkRoot` (`Below`, `Share`), `SplitExtraLevels` |
| `build_chunk_lut`, `sub_octant_index`, the lookup in `distribute` | `ChunkLut`, `SubOctantIndex`, `Route` |
| `detect_header_mismatch` | `HeaderMismatch` |

Coordinates are counted in halves of an output step, so that encoding a
coordinate may carry it across a voxel boundary, and points may lie outside the
header's bounds.  Interleaved increments of the atomic cells are single steps.
The properties exempt a plan whose counters have wrapped (`Wrapped`).
*Lists* has powers, sums and concatenations as functions of how far the recursion
has come.

### TempFrames

A file is a sequence of units, bare or in LZ4 frames of one header, blocks and an
end mark.  `Read` is one call of `read` with as many units as are at hand;
`TakeCount`, `TakePoints`, `Drain` and `SeekPast` are what `for_each_point_in_batches`
and `count_temp_file_points` do once a `read_exact` is satisfied; `AtEnd` is what they
do when it is not.  `FrameDecoderRead` models the external decoder: it opens the next
frame by itself but answers "nothing" at the end of each, which is why
`MultiFrameReader` asks twice.  A slice of a pack whose length does not fit 32 bits is
cut where the length modulo 2^32 says.

### ExtraBytes, InputChecks, Pipeline

| Code | Model |
|---|---|
| `ParsedExtraBytes::parse`, `FieldSchema`, `FieldStats`, `schema_hash` | `Parses`, `FieldSchema`, `FieldStats`, `SchemaHash` |
| `anytype_to_f64`, `f64_to_anytype` | `AnytypeToF64` (an integer becomes the nearest double, `AsDouble`), `F64ToAnytype` (clamped to the type), over slots of a few bits and doubles of fewer, with infinities and NaN among the doubles |
| `merge_stats_into_canonical` | `MergeStats` (`FoldMin`, `FoldMax`, `Slot`, `MergedField`) |
| what `OctreeBuilder::scan` keeps of a header | `CrsKind`, `Schema`, `Scans` |
| `validate` | `Verdict` (`CrsMismatches`, `FormatMismatches`, `ExtrasMismatches`, `CanonicalWkt`, `MergedExtras`) |
| `fit_offset_scale`, encoding and decoding a coordinate | `Encoding`, `Fits`, `FitOffset`, `FitScale`, `Encode`, `Decode` |
| `Pipeline::scan` (parallel), `validate` | `Start`, `ScanFile`, `ScanFails`, `EndScan`, `Validate` |
| `from_scan` in `distribute` and in `analyze_chunking` | `FromScan`, `RemoveLeftover`, `CreateDir`, `FromScanFails`, `EndAnalyze` |
| the stages, `?` in them, `Drop` | `Distribute`, `Build`, `Write`, `StageFails`, `Dropped` |
| a killed process | `Crash` |

A WKT is a model value, with the EPSG codes at its end given by a constant.  The
temporary directory holds, for chunk and for node files, the sequence of the *runs*
whose points are in them; that is enough to tell an output with leftover points from
one without.  Process ids are used again, but a host never gives one id to two live
processes.

## 3. The runs

| Run | Question | Bounds, and why they are enough |
|---|---|---|
| `packed_shared` | Do index, cursor and file stay in step when two threads share a pack? | two threads, two keys, two lists of different lengths, `MaxUnits` 2: two lists, one of them after a torn append, an overwrite under a reader |
| `packed_apart` | Does a reader flush and read the pack of the *location*? | a pack per thread; each reads what the other wrote |
| `file_store` | Is the unlocked store a map for disciplined callers? | three lists of lengths 1, 2, 3, so that an overwrite may have to shorten; three writes |
| `plan` | Is the plan the coarsest that fits, a partition, within the budget, and does the table agree with it? | all multisets of 4 and 6 points over 6 spots: on and across boundaries, outside the cube, two that part one and two levels below the grid; two budgets, a target from the budget or given; 4 files, one empty, over 3 workers, one idle; counters of 6 values, so that they also wrap |
| `distribute` | Does eviction or the merge lose, repeat or reorder anything, and does the pass end? | four files, two of them empty, over three workers, the last without files; three chunks, two open writers: one is always to be evicted and reopened |
| `octree_build` | Do the node files become the tree that the list describes, whatever the interleaving, and does the build return? | six points on four positions, so that some coincide; one chunk, or chunks at two levels; budget 4 and leaves of 2, so that both builds occur side by side and a subtree in memory may have leaves at two depths (three points at one position, one beside them); a sampling grid that rounds across a boundary; a merge limit below the budget |
| `octree_empty_node` | a *violation*: see findings | four points, an exact grid |
| `frames` | Is a file of batches read and counted completely, in order, and does the reader end? | up to 3 batches of 0 to 4 points, both codecs; blocks of 3 units against points of 2, so that points lie across blocks and a batch fills its blocks exactly or not; slices of 0 to 9 points with lengths modulo 5, cut at every place within a frame |
| `writer` | Does a reader that follows page pointers find every node, and a time search every point; do windows, chunk table and list stay in step, so that each node's entry has the bytes of its own chunk; is the header exact; does the loop end? | up to three branches of the seven in `DeepLeaves`, which end above, at and below both page boundaries and at both ends of a level, and shallow lists with nodes of 1 to 3 points against windows of two; empty nodes; return number 0, which is not counted; times on both sides of 0, lists with times before 0 only, and, in smaller trees, points without a time first, in the middle and alone in a node, and files without any time |
| `inputs` | Do accepted files agree, in any order; are the statistics those of all points; does nothing saturate? | every combination of three files out of eight CRS forms; of three files with statistics of one type, with NaN and infinity among them, in slots of 4 bits against doubles with a mantissa of 2 bits, so that integers are rounded, halfway cases and one past the type's end included; of two out of headers with other formats, widths, bounds, encodings and broken payloads |
| `inputs_crs` | a *violation*: see findings | every combination of three of the eight CRS forms |
| `temp_dir` | Can a run meet another's files, or lose its own directory? | three runs, two process ids, crashes of two of them and errors at any step: an id is used a second time after a crash, beside a live run |

A binary tree stands for the octree (`Octants = {1, 2}`): siblings, uncles and
single-child chains all occur, and no code counts to eight except `ExtraLevels`,
which has the arity as a parameter.  `MaxLeaf` is 2 for `MAX_LEAF_POINTS`.  Likewise
the planner runs on a quadtree: two axes already have a carry from one to the other
in `CellIndex`, and no code treats the third differently.

Each module has one type invariant, `TypeOK`, which is the first conjunct of the invariant
on the module's bookkeeping: `IndexSound`, `CacheInStep`, `OneTaskPerNode`,
`WindowsBounded`, `ChunksApart`, `WholeBatches`, `CleanedUp`.

**Fairness.**  Four liveness properties need it.  `Returns` of *Distribute* has weak
fairness of every worker's, every chunk merge's and the main thread's steps: rayon
runs each closure it has started to its end and the caller waits for all of them.
`Returns` of *OctreeBuild* has weak fairness of the disjunction of all steps only: some
pool thread always goes on, and nothing is assumed about which.  `LoopEnds` of
*CopcWriter* and `ReaderEnds` of *TempFrames* have weak fairness of the one thread's next
step.  Failing steps are never fair: an error is not owed.

**Deadlock** is checked in every run.  Modules whose system ends stutter explicitly
(`Returned`, `Ended`, `AllEnded`) when it has, so any other dead state is reported.

## 4. What is proved

`PackedNodeStore_proofs` proves for any threads, keys, lists, packs, and any
assignment of packs to threads:

* `IndexIsSound`: `Spec => []IndexSound`, the type invariant included;
* `ReadersAreSafe`: `Spec => []ReadersSafe`.

Neither safety invariant is inductive.  The strengthening is

    IInv == TypeOK /\ PacksInStep /\ IndexHolds /\ WritersSafe /\ ReadersSafe /\ AbsentEmpty

`PacksInStep` says that the cursor never runs ahead of the stream, that it equals
the stream's length on every pack on which no append failed, and that nothing is
flushed that was not written; `WritersSafe` carries what a location says from the
append to the publication; `AbsentEmpty` that a reader that found no entry promised
the empty list.  The lemma on which the rest hangs: appending to a stream
preserves `Holds` for every location within the old length.  A failed append puts
the cursor into `torn`; a location that ends at or before every torn cursor is
`Undamaged`, and only of those is anything claimed.

On this invariant rests

* `Refinement`: `Spec => ImplementsNodeStore`, that is, the packed store implements
  the trait.

`call` gives the call of the trait a thread is in, and `failed` says that some
append has failed.  Each step is one lemma: encoding a write begins the abstract
write, publishing its index entry ends it; the append between them and the flush
of a reader change nothing the trait can see; a missing entry answers with the
empty list because of `AbsentEmpty`; a fetch decodes the promised list because of
`ReadersSafe`, once no append has failed; `count` is right because of
`IndexHolds`.  After a failed append a fetch may decode garbage, which the trait's
`AfterFailure` allows.

All of it is proved from `PackedAssumption` alone, which TLC evaluates on the two
runs.

`Pipeline_proofs` proves, for any number of runs and process ids on one host
(`OneHost`), whatever their inputs and wherever they crash:

* `OutputIsOwn`: `Spec => []OutputOwn`;
* `ScratchGivenBack`: `Spec => []CleanedUp`, the type invariant included;
* `DirectoryStays`: `Spec => NeverPulled`.

    IInv == TypeOK /\ PidsApart /\ BuildersInUse /\ DirsOwned /\ LeftBehind

`PidsApart` (live runs have different ids) is where the host comes in: without it
nothing else holds.  `BuildersInUse` says at which stages a builder, and with it
the `Drop` that removes the directory, exists; `DirsOwned` what is in a run's
directory at each stage: nothing when it is created, its own points from then on;
`LeftBehind` who may have left a directory that is there.  One lemma, `StepIsLocal`,
says that a step touches its own run and the directory of its own id only, so that
each part is shown for the run that moves, action by action, and for all others at
once.

The same module proves, on any number of hosts:

* `AcceptedInputsAgree`: `Spec => []AcceptedAgree`;
* `OrderIsIgnored`: `Spec => []VerdictIgnoresOrder`;
* `StatsAreHonest`: `Spec => []StatsHonest`;
* `CoordinatesFit`: `Spec => []NoSaturation`.

The invariant is only that a run keeps its files and that its verdict is the one on
them (`VerdictKept`); the work is in what validate computes.  For the first two it
is in `AcceptedWhenAgreeing`: without the mixture of
CRS forms (`MixesCrs`) validate accepts exactly the files that agree pair by pair
(`Agree`), a relation in which no first file, reference or canonical WKT occurs.  A
WKT is compared with a GeoTIFF code through the canonical WKT, and `OneWktBesideGeo`
is where the absence of the mixture makes that the file's own.  What is said of all
pairs of a list is the same of every reordering of it (`ReorderedAlike`).

For `StatsAreHonest`, `MinMerged` and `MaxMerged` say what the folds yield after every
prefix of the files: the extreme of the flagged numbers so far, and whether there were
any (`IsLeast`, `IsGreatest`).  What they fold are not the numbers in the slots but their
images as doubles (`Image`), and an integer's is only the nearest double (`NearestDouble`).
Going to the nearest double turns no order (`DoublesInOrder`), so the extreme of the images
is the image of the extreme; writing it back clamps it into the type's range, which can
only bring it nearer to a number of the type (`SlotOfDouble`, `NumberKept`).  So the slot
that is written is as near to the extreme of the files' numbers as a double can be, and is
that number itself where a double can be it (`SlotOfLeast`, `SlotOfGreatest`).  Of doubles
only this is assumed: which whole numbers they can be is any set that has 0 and both ends
of the unsigned range (`ExtraBytesAssumption`).  Accepted files have one schema, so the fields
that are merged have one type (`MergeHonest`).  For `CoordinatesFit`, the scale is doubled
until the bounds fit, and a power of two exceeds any span (`PowAbove`), so there is a least
such power (`ScaleFits`); a quotient rounded half away from zero then stays
within the headroom and is off by half a step at most (`Rounded`, `DecodedClose`).

Of inputs all this needs what `IsFile` says (`PipelineAssumption`): a nonempty list of
files, a WKT out of `Wkts` or none, Extra Bytes that are a list of `Descriptors`, whole
coordinates, and a positive scale, which LAS requires; with a scale of 0 the quotient
is infinite or not a number, and the doubling would not end.
Of the constants it needs `Headroom` above 0 and below `MaxCode`.

`FileNodeStore_proofs` proves, for any threads, keys and lists, and whatever part of a
list reaches the file before the flush:

* `FilesAreSound`: `Spec => []IInv`;
* `FileStoreRefines`: `Spec => ImplementsNodeStore`.

    IInv == TypeOK /\ WritersAlone /\ Filling /\ ReadersCurrent /\ FilesHold

`WritersAlone` is the callers' discipline as an invariant; `Filling` says that a file
being written holds a *start* of the new list, because `File::create` cut it; so no
mixture of an old and a new list can ever be read.  `ReadersCurrent` carries what a
reader was promised past its `open`, and `FilesHold` says what is in a file no write
is filling.  The refinement maps creating and filling to the begin of the trait's
write, and the flush to its end.

`Distribute_proofs` proves, for every input, plan (any `chunkOf`), number of cores, batch
size and capacity:

* `DistributeInvariant`: `Spec => []IInv`;
* `CacheLosesNothing`: `Spec => []NothingLostInCache`;
* `CacheKeepsStep`: `Spec => []CacheInStep`;
* `DistributeExact`: `Spec => []ChunkFilesExact`.

    IInv == /\ TypeOK
            /\ \A w \in Workers : WorkerSound(w)
            /\ PhasesInOrder
            /\ \A c \in Chunks : ChunkSound(c)
            /\ Tallied

That the canonical files are exact at the end is not inductive: it has to be known of
every worker at every moment which points are where.  `WorkerSound` says that shard,
buffer and group of a chunk, one after the other, are the ascending list of what the
worker has read of the chunk (`HoldsSeen`), that it is where its slice says (`Reading`),
that the cache's list and map agree (`CacheSound`), and that a worker that ended well
has read its whole slice and flushed (`EndedWell`).  `ChunkSound` says of a file being
merged that it is the ascending list of all that the workers *before* the next shard
put into the chunk, whether by a rename or by a copy, and that the workers left out
had nothing for it; `PhasesInOrder` that no merge begins before every worker has
ended well; `Tallied` that a tally counts what was handed to the cache.
The slices are intervals of the input, one behind the other, the last perhaps empty
(`Edge`).  Since points are numbered in input order, a set of points has one
ascending list (`InOrder`, `InOrderIs`), and two of them append to one if the first lies
below the second: with that, lists are sets, and the rest is keeping account.

`OctreeBuild_proofs` begins with the pure algorithms of the build (*VoxelTree*), of
which it proves, for every octree, grid and set of points:

* `SamplingPartitions`: what a sampled parent keeps and what goes back to the
  children are together what was gathered, without a copy, and each child gets only
  its own points;
* `ChildKeepsPoint`: unless the parent takes everything, a child that gave points
  keeps one.  Its exception is exactly the first finding below;
* `SampleIsThin`: a sample has one point per cell at most;
* `ExtraLevelsLeast`: the loop of `chunk_local_extra_levels` (`ExtraLevels`, level after
  level) ends with the least depth at which leaves of the average size fit
  `MAX_LEAF_POINTS`, or with its limit.  Until that depth each round adds a level, after
  it none does, which the proof writes down as a function and shows to be the loop's.

`OctreeBuild_proofs` and `OctreePoints_proofs` prove every safety
property of the build, for every octree, sampling grid, plan, budget, merge limit, and
every interleaving of chunks, subtrees, merges and tasks, with an error at any point:

* `BuildInvariant`: `Spec => []IInv`;
* `PointsLieInTheirNodes`: `Spec => []NodesContainTheirPoints`;
* `NodesHaveOneTask`: `Spec => []OneTaskPerNode`, the type invariant included;
* `FilesOutliveTheirPoints`: `Spec => []DeletedOnlyWhenStored`;
* `PointsAreOnce`: `Spec => []EveryPointOnce`;
* `SubtreesAreInBudget`: `Spec => []SubtreesFitBudget`;
* `ResultHasEveryPoint`: `Spec => []ResultComplete`;
* `NodesAreLeavesOrSamples`: `Spec => []LeafOrSample`.

    IInv == /\ TypeOK
            /\ PointsInPlace
            /\ SplitsBounded /\ SpillsPlaced /\ TreesPlaced /\ InMemoryBegun
            /\ TreesInside /\ LeavesApart
            /\ Unwritten /\ TopsUnwritten
            /\ MergesPlaced /\ TasksPlaced /\ TasksRead /\ MadeOnly

The guard of a step speaks of one chunk, one subtree, one merge or one task; that two of
them never have the same node in hand does not follow from any guard.  The invariant
tells where all of them are.  `TreesPlaced`, `SpillsPlaced` and `SplitsBounded`: a
subtree in memory lies in a chunk being built, at that chunk's split level.
`MergesPlaced` and `TasksPlaced`: a merge runs over the levels above the split of one
chunk, or above all chunks once all are built, and has tasks on one level only.
`Unwritten` and `TopsUnwritten`: what lies above the level a merge has come to, and
below a subtree that does not write yet, is not in the store, so a write never
replaces points.  `TasksRead`: what a task has read of a child is still what the child
holds.  `LeavesApart`: the nodes of a subtree that are still to be sampled do not
contain one another.  `PointsInPlace`: every copy of a point is in a voxel it lies in.

On this invariant three more rest, all in *OctreePoints_proofs*.  `PointsOnce`: there are five
kinds of place (chunk file, spill file, subtree, node, task), at most one place of
each kind has a given point, and exactly one kind has any; each step moves a set of
points from one place to another, and `SamplingPartitions` says that sampling does.
`SplitsFit`, `Accounted` and `Listed`: that no voxel a chunk is built by is over the
budget unless the split went as deep as splits go, and that every
node of the store is on the list of its chunk, of the merge or with the task that has
just written it; `NodesGood` and `OversizedLast`, that every node is a leaf's worth of
points or a sample, from the moment it leaves the queue of leaves, and stays one when
the parent takes points back.

What these assume of the constants is stated and named beside them, and TLC evaluates it
on the runs: the input has finitely many points and is given positions in a tree of
`Depth` levels (`VoxelTreeAssumption`); the chunks of a plan are apart, which is
`ChunksApart` of the planner; the budget holds a leaf; and `Depth` is deep enough for the
levels that a chunk of any number of the points would be split by
(`OctreeBuildAssumption`).

`CopcWriter_proofs` proves for any node list, window size, sizes the chunks compress
to, and order in which the closures of a window return:

* `WindowsAreBounded`: `Spec => []WindowsBounded`, the type invariant included;
* `EntriesAreExact`: `Spec => []EntriesDescribe`;
* `HeaderIsExact`: `Spec => []HeaderExact`;
* `EveryNodeIsFound`: `Spec => []EveryNodeFound`;
* `PagesDoTile`: `Spec => []PagesTile`;
* `TimeSearchIsComplete`: `Spec => []TimeSearchComplete`.

The first three follow from the invariant of the loop:

    IInv == FixedOK /\ CursorsOK /\ ResultsOK /\ FilledOK /\ CountedOK /\ HeaderOK

`FixedOK` says that the sorted list has every key once, in order, and `dataKeys` those
with points; `CursorsOK` that a window in hand is not empty and holds at most
`WindowPoints` points or one node; `ResultsOK` that what a closure returned is of the
node at its index, whichever returned first; `FilledOK` that the chunks in the file are
those of the first `start` data nodes; `CountedOK` that the statistics are the counts and
the time range of exactly these nodes; `HeaderOK` that the header was patched from them.
A sum over a list is its last prefix sum (`SumIs`), so it splits at any place
(`SumSplits`), and the sum of the lengths counts the pairs of a node and a place in
it (`SumCounts`, `PairsCount`): with that both sides of `HeaderExact` are the size of one
set.  A list of a finite ordered set has each element at its rank (`Ranks`,
`KeysInOrder`).  `ChunkIndexIs` then says that the walk, which takes the next chunk of
the table for each node with points, has come at such a node to the chunk of the node's
own rank among `dataKeys`.  Of the constants these need a finite list of keys
that has the parent of each of them, times below `Endless` (the `f64::MAX` the range
begins with) and above its negative, or NaN, and that points compress to at least one
byte (`WriterAssumption`).

The last three also need what the file has behind its chunks:

    FileInv == EncodedAround /\ SampledOK /\ HierarchyOK /\ TemporalOK /\ RootOK

`EncodedAround` and `SampledOK` say that a node's samples enclose the times of its points
(the first and the last of the sorted list are always sampled, `SamplesAround`), in closures
that have returned and in the list gathered from them; a node with a NaN among its times
is excepted, because the comparator is then no order and the list may be left in any
(`Arrangements`, `SortArranges`).  `TimeSearchComplete` has the same exception.  Its samples
still belong to its own points, so the ranges of the pages above it grow and never
shrink by it (`RangeAround`).  `HierarchyOK` and `TemporalOK` that a payload
is the layout (`Laid`) of `Good` pages of the nodes' entries; `RootOK` that the header names
its root.  What makes pages `Good` has to survive another boundary: they hold the entries
they are given and pointers, no entry twice (`Holds`, `Once`), every pointer is patched
and means a page behind its own (`AllLinked`), whoever follows the pointers that lead to
an entry comes to it (`Found`), whoever follows all comes to every page (`Spanned`), no
page is empty, and in the hierarchy no page has a key twice.  `WholeIsGood` shows this of a page
that is not cut, `CutIsGood` of a cut with `Good` pages behind it, and `TreeIsGood` takes the
least number of boundaries that would give a tree that is not.  The temporal index has a
key twice in a page, as an entry and as the pointer to its subtree, which is why that last
part is said of the hierarchy only.  `LaidOut` then reckons
offsets: the byte range that a patch names holds the records of that page and no
others, because no record has size 0.  `PagesAreReached` joins the two, and `PayloadTiled` says for both payloads that the pages so
reached have every record, and none in two of them; its reader takes at
most as many steps as there are records, which is enough because a new page brings
at least one.

`ChunkPlanner_proofs` proves every property of the planner, for any files, header,
budget, number of cores, grids, cap and number of axes, and every interleaving of the
workers:

* `PlannerInvariant`: `Spec => []IInv`;
* `PointsAreRouted`: `Spec => []RoutedIntoOwnChunk`;
* `PlanIsApart`: `Spec => []ChunksApart`, the type invariant included;
* `EstimatesAddUp`: `Spec => []EstimatesConserve`;
* `MergeFindsCoarsest`: `Spec => []PlanIsCoarsest`;
* `PlanKeepsBudget`: `Spec => []PlanFitsBudget`;
* `ScannedBounds`: `Spec => []BoundsExact`.

    IInv == GivenOK /\ CountInv /\ PlanInv

`CountInv`: a cell's counter is the number of points in it that some worker has counted,
modulo the counter's width, and a worker's bounds are exactly those of what it has
counted; the workers' shares (`Edge`) are intervals that follow one another and end
at the last point.  None of the properties speaks of a half-counted grid; this is what
makes the order of the increments immaterial.  `PlanInv`: while levels are merged,
`pops` has at each voxel of the level the number of *all* points in it, or `Sentinel`
where that is over the target (`PopsOf`); and the list so far is the pieces of the
*roots* found below, those of one root together, no voxel twice (`PlanFor`).  A root is
a voxel with points that fits the target while its parent does not (`IsRoot`): said of
the points alone, not of the merge.  A step then has to show that a voxel's points are
those of its children (`BlockedIs`: no child is blocked, and the sum fits, exactly if
the voxel fits), and that two levels never give the same point a root.  The
properties follow from this at the end: each point has one root, so the chunks are
apart, the estimates add up, and the last chunk the table knows for a cell is that of the
cell; the place of a voxel among those of its cell (`SubOctantIndex`) is inverse to the
order in which `EmitChunkRoot` lists them, by the mixed-radix expansion of a number.
The properties exempt a plan with a wrapped counter; the invariant does not.
Of the constants they need what `PlannerAssumption` names: the files' ends ascend to
the last point, the grids' depths ascend, coordinates are below `Endless` (the infinity that
bounds begin with), and what is divided by is not 0.

The library's induction theorems cannot be used by the installed provers.  Where an
induction is needed (a finite set of naturals has a least or greatest element, a list
that ascends is determined by its elements, the places before the first that differs
are equal) the proof takes a least counterexample instead, which `WFMin` of the library
gives.  For powers, sums, concatenations and folds (*Lists*, `FoldedBounds`, `MergedMin`) it
does so for the function of prefixes: first its value at 0 and its step, then what holds at
every prefix.

## 5. What is only model-checked, and what is not modelled

*Only model-checked:*

* liveness: `Returns` of *Distribute* and of *OctreeBuild*, `LoopEnds`, `ReaderEnds`.  The
  prover has no rule for `ENABLED`, on which weak fairness rests;
* `AllRead` and `WholeBatches` of *TempFrames*: a file is the concatenation of its batches
  (`FlattenSeq`), cut into products of counts and sizes, which is not linear arithmetic;
* that the constants of one module's proofs are the outcome of another module's run (the
  interfaces named in section 2).

*Not modelled:* the command line (argument parsing, terminal output) and the remote
inspection tools (they print what they read; the conversion does not use their range
reader).  Within the modelled components:

* build: the batches of merge parents and the sizes of the thread pools (any number of
  tasks may be in progress, which allows more than the code does); the 21 bits per axis
  of Morton codes;
* packed store: the 32-bit cut of a node's length is in *TempFrames* for the node itself;
  that the cursor then also advances by the cut length, and misplaces later nodes of
  the pack, is not;
* planner: plans from wrapped counters are reached and exempted;
* writer: the bytes of headers, VLRs and points, the u16, u32 and i32 widths of sizes; GPS
  times of plus or minus infinity (times are finite or NaN here; points whose times are all
  +infinity would leave the sentinel `f64::MAX` in the header, because +infinity is not
  less than it);
* inputs: the text of a WKT and of GeoTIFF keys; the rounding of doubles in encodings,
  which are whole numbers here (that of integer statistics is modelled); the byte offsets
  of a descriptor;
* frames: the LZ4 codec, of which only the calls and their ends are modelled;
* the text of errors and of progress.

## 6. Findings

`octree_empty_node`: the comments in `grid_sample` (`octree.rs:1753-1755`) say that
giving each child a point back "prevents zero-point intermediate nodes".  It does
within one call.  But a parent whose children together hold at most
`MAX_LEAF_POINTS` returns before that code and takes every point, also from a child
that was sampled one level down and has children of its own.  The run ends with
such a node, with count 0, in the returned list.  The writer handles it (an entry
without a chunk), so no point is lost; it is the comment that promises too much.

`inputs_crs`: `validate` is documented to "Check that all scanned files agree on CRS and
point format" (`validate.rs:73`).  When the reference is a GeoTIFF file, every WKT file
is compared with it through the canonical WKT, which is the first WKT among the
inputs; the file's own text or hash is not looked at (`WktHash(_)`, line 52).  So after
a GeoTIFF file and a WKT file of the same CRS a WKT file of any other CRS is accepted;
in another order the same files are refused.  `AcceptedAgree` and `VerdictIgnoresOrder`
show that this mixture (`MixesCrs`) is the only exception.

Met while modelling, and not shown by a run:

* The doc comment of `choose_page_boundaries` (`writer.rs:804-807`) gives `max_level=9: [3]`
  as an example; the loop takes every multiple of three below the deepest level and
  answers `[3, 6]`.  Readers follow either.
* The comment on planned chunks (`chunking.rs:118-121`) says that none ever exceeds the memory budget.  A plan
  has estimates only, and the split of a dense cell stops at `SPLIT_LEVEL_CAP`;
  `PlanFitsBudget` states what holds, and the build spills what is over.
* The temporary directory is named by the process id only.  Hosts, or containers, that
  share `temp_dir` may give one id to two live processes; each would then remove the
  other's directory.  The theorems of *Pipeline* are therefore said of one host.
* A merged minimum or maximum of a 64-bit integer field is the nearest double to the
  extreme, so beyond 2^53 the advertised range may leave out the extreme value itself, even
  when there is a single file.  The comment on `f64_to_anytype` admits it
  (`extra_bytes.rs:70-74`) in the sentence that calls the function the "inverse of
  anytype_to_f64"; the one on `FieldStats` says that the output "honestly advertises the
  range across all merged data" (`extra_bytes.rs:115-117`).  `StatsHonest` states what holds.
* Nothing keeps a NaN out of the GPS times (`octree.rs:1528`).  The comparator of the writer's
  sort (`writer.rs:386-390`) calls it equal to every time, which is no order: the node may
  be left unsorted, a search by time may then miss it, and the standard library allows
  the sort to panic.  `TimeSearchComplete` excepts such a node; other nodes, pages and the
  header are not disturbed.
* `merge_chunk_tops` takes a child that it cannot count for an empty one when it estimates
  a parent (`octree.rs:2677`), so an error there lets a parent pass that should be refused.
* When the node store cannot be opened in `from_scan`, after the directory was made,
  there is no builder yet whose `Drop` would remove it (`unopened` in `CleanedUp`).
* A batch header cut short reads as the end of the file, and an LZ4 file cut inside a
  frame before any of its points likewise: a truncated chunk file is a shorter one,
  silently.  The format has no total to compare with.

## 7. Plan

1. **Core** (done): NodeStore, PackedNodeStore, FileNodeStore, Distribute, VoxelTree,
   OctreeBuild.
2. **Writer** (done): HierarchyPages, CopcWriter.
3. **Around the core** (done): ChunkPlanner, TempFrames, ExtraBytes, InputChecks, Pipeline.
4. **Proofs** (done): both refinements of *NodeStore*, all safety of *Distribute*,
   *OctreeBuild*, *ChunkPlanner*, *CopcWriter* and *Pipeline*, and the sampling lemmas.
   Open: the readers of *TempFrames*.
5. **BuildPool**: memory batches and nested pools, with the residency comment of
   `build_node_map` (line 2830) and the inline comment of `merge_chunk_tops`
   (lines 2591-2593) as properties; and the range reader of the inspection tools.
