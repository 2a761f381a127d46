----------------------------- MODULE Distribute -----------------------------
(***************************************************************************)
(* The distribute pass (src/src/octree.rs `distribute`, `ChunkWriterCache` *)
(* and `merge_chunk_shards`): several workers stream contiguous slices of  *)
(* the input files, sort the points of each batch into chunks and append   *)
(* them, through a bounded cache of open writers, to one shard file per    *)
(* worker and chunk; then the shards of each chunk are merged into its     *)
(* canonical file, and the plan is handed to the build with the exact      *)
(* number of points of every chunk.                                        *)
(*                                                                         *)
(* Points are 1..NumPoints in the order of the input; FileEnds cuts them   *)
(* into files.  Which chunk a point belongs to is decided by the planner's *)
(* lookup table: here any assignment, chosen in Init.                      *)
(*                                                                         *)
(* A writer's buffered bytes are kept apart from the file's: nothing reads *)
(* a shard before its writer is flushed, so a BufWriter that spills early  *)
(* is not told apart from one that does not.                               *)
(***************************************************************************)
EXTENDS Integers, SequencesExt, FiniteSetsExt

CONSTANTS FileEnds,     \* FileEnds[f]: the last point of input file f
          Cores,        \* rayon's number of threads
          Chunks,       \* chunk indices, in plan order: 0 .. n - 1
          BatchSize,    \* points read at a time (read_chunk_size)
          Capacity      \* writers a worker keeps open (per_worker_cap)

NumFiles  == Len(FileEnds)
NumPoints == IF NumFiles = 0 THEN 0 ELSE FileEnds[NumFiles]
Points    == 1 .. NumPoints

FileStart(f) == IF f = 1 THEN 1 ELSE FileEnds[f - 1] + 1

ASSUME DistributeAssumption ==
    /\ FileEnds \in Seq(Nat)
    /\ \A f \in 2 .. NumFiles : FileEnds[f - 1] <= FileEnds[f]
    /\ Cores \in Nat \ {0}
    /\ BatchSize \in Nat \ {0}
    /\ Capacity \in Nat \ {0}

\* chunked_distribute_worker_count
NumWorkers ==
    LET target == IF (Cores * 2) \div 3 < 2 THEN 2 ELSE (Cores * 2) \div 3
    IN  IF NumFiles = 0 THEN 1 ELSE IF target < NumFiles THEN target ELSE NumFiles

Workers == 0 .. NumWorkers - 1

\* A slip: the slices are rounded down.
FilesPerWorkerFloor == NumFiles \div NumWorkers

FilesPerWorker == (NumFiles + NumWorkers - 1) \div NumWorkers

\* The slice of worker w: files FirstFile(w) .. LastFile(w), perhaps none.
FirstFile(w) == w * FilesPerWorker + 1
LastFile(w)  == IF (w + 1) * FilesPerWorker < NumFiles
                THEN (w + 1) * FilesPerWorker ELSE NumFiles

VARIABLES chunkOf,      \* point -> chunk, fixed
          status,       \* worker -> "waiting", "running", "ok" or "err"
          file,         \* worker -> the file it is reading
          next,         \* worker -> the next point of that file
          groups,       \* worker -> chunk -> points of the batch to append
          order,        \* worker -> open chunks, least recently used first
          buffered,     \* worker -> open chunk -> points not yet in the shard
          shard,        \* worker -> chunk with a shard file -> its points
          counts,       \* chunk -> points tallied (chunk_counts)
          canonical,    \* chunk with a canonical file -> its points
          merging,      \* chunk -> how far its merge is, and the shards to copy
          phase,        \* "distributing", "merging", "done" or "failed"
          stashed       \* chunk_actual_counts, once the pass has succeeded

workerVars == <<status, file, next, groups, order, buffered, shard, counts>>
mergeVars  == <<canonical, merging, phase, stashed>>
vars       == <<chunkOf, workerVars, mergeVars>>

None == [c \in {} |-> <<>>]

\* How far the merge of a chunk is, and the workers whose shards are to copy.
Merged(at, left) == [at |-> at, left |-> left]

\* Files of some of the chunks.
IsFiles(f) == DOMAIN f \subseteq Chunks /\ f \in [DOMAIN f -> Seq(Points)]

Ascends(s) == \A i, j \in DOMAIN s : i < j => s[i] < s[j]

\* The numbers of S in ascending order.
InOrder(S) == CHOOSE s \in [1 .. Cardinality(S) -> S] : ToSet(s) = S /\ Ascends(s)

TypeOK ==
    /\ chunkOf \in [Points -> Chunks]
    /\ status \in [Workers -> {"waiting", "running", "ok", "err"}]
    /\ file \in [Workers -> Nat]
    /\ next \in [Workers -> Nat]
    /\ groups \in [Workers -> [Chunks -> Seq(Points)]]
    /\ order \in [Workers -> Seq(Chunks)]
    /\ DOMAIN buffered = Workers /\ DOMAIN shard = Workers
    /\ \A w \in Workers : /\ IsFiles(buffered[w]) /\ IsFiles(shard[w])
                           /\ DOMAIN buffered[w] \subseteq DOMAIN shard[w]
    /\ counts \in [Chunks -> Nat]
    /\ IsFiles(canonical)
    /\ merging \in [Chunks -> [at : {"todo", "copying", "ok", "err"},
                               left : Seq(Workers)]]
    /\ phase \in {"distributing", "merging", "done", "failed"}

Init ==
    /\ chunkOf \in [Points -> Chunks]
    /\ status = [w \in Workers |-> "waiting"]
    /\ file = [w \in Workers |-> FirstFile(w)]
    /\ next = [w \in Workers |->
                 IF FirstFile(w) <= NumFiles THEN FileStart(FirstFile(w)) ELSE 1]
    /\ groups = [w \in Workers |-> [c \in Chunks |-> <<>>]]
    /\ order = [w \in Workers |-> <<>>]
    /\ buffered = [w \in Workers |-> None]
    /\ shard = [w \in Workers |-> None]
    /\ counts = [c \in Chunks |-> 0]
    /\ canonical = None
    /\ merging = [c \in Chunks |-> Merged("todo", <<>>)]
    /\ phase = "distributing"
    /\ stashed = None

-----------------------------------------------------------------------------
(* A worker: the closure run by par_iter over the shard directories         *)

\* The rayon pool takes the worker up; try_for_each starts no worker after
\* another one has failed.
Start(w) ==
    /\ status[w] = "waiting"
    /\ \A v \in Workers : status[v] # "err"
    /\ status' = [status EXCEPT ![w] = "running"]
    /\ UNCHANGED <<chunkOf, file, next, groups, order, buffered, shard, counts,
                   mergeVars>>

Drained(w) == \A c \in Chunks : groups[w][c] = <<>>

\* fill_points and the grouping of its points by chunk.
ReadBatch(w) ==
    /\ status[w] = "running"
    /\ Drained(w)
    /\ file[w] <= LastFile(w)
    /\ next[w] <= FileEnds[file[w]]
    /\ LET last == Min({next[w] + BatchSize - 1, FileEnds[file[w]]})
       IN  /\ groups' = [groups EXCEPT ![w] =
                [c \in Chunks |-> InOrder({p \in next[w] .. last : chunkOf[p] = c})]]
           /\ next' = [next EXCEPT ![w] = last + 1]
    /\ UNCHANGED <<chunkOf, status, file, order, buffered, shard, counts,
                   mergeVars>>

\* A slip: an empty file is taken for one that is still to be read.
NextFileUnlessEmpty(w) ==
    /\ status[w] = "running"
    /\ Drained(w)
    /\ file[w] <= LastFile(w)
    /\ next[w] > FileEnds[file[w]] /\ FileEnds[file[w]] >= FileStart(file[w])
    /\ file' = [file EXCEPT ![w] = @ + 1]
    /\ UNCHANGED <<chunkOf, status, next, groups, order, buffered, shard,
                   counts, mergeVars>>

\* fill_points returned 0: on to the next file of the slice.
NextFile(w) ==
    /\ status[w] = "running"
    /\ Drained(w)
    /\ file[w] <= LastFile(w)
    /\ next[w] > FileEnds[file[w]]
    /\ file' = [file EXCEPT ![w] = @ + 1]
    /\ UNCHANGED <<chunkOf, status, next, groups, order, buffered, shard,
                   counts, mergeVars>>

\* What the eviction loop pops from the front of `order`: as little as brings
\* the number of open writers below the capacity.
Victims(w) ==
    LET Popped(k) == ToSet(SubSeq(order[w], 1, k))
        open      == DOMAIN buffered[w]
        enough    == {k \in 0 .. Len(order[w]) :
                         \/ Cardinality(open \ Popped(k)) < Capacity
                         \/ k = Len(order[w])}
    IN  SubSeq(order[w], 1, Min(enough))

\* A flush moves what a writer has buffered to the end of its shard file.
Flushed(w, c) == shard[w][c] \o buffered[w][c]

\* A slip: the chunk is pushed to the back but not taken from its old place.
AppendToOpenTwice(w, c) ==
    /\ c \in DOMAIN buffered[w]
    /\ order' = [order EXCEPT ![w] = Append(@, c)]
    /\ buffered' = [buffered EXCEPT ![w][c] = @ \o groups[w][c]]
    /\ UNCHANGED shard

\* `append` on a chunk whose writer is open: it becomes the most recently used.
AppendToOpen(w, c) ==
    LET places == {pos \in DOMAIN order[w] : order[w][pos] = c}
    IN  /\ c \in DOMAIN buffered[w]
        /\ order' = [order EXCEPT ![w] =
                       Append(IF places = {} THEN @ ELSE RemoveAt(@, Min(places)), c)]
        /\ buffered' = [buffered EXCEPT ![w][c] = @ \o groups[w][c]]
        /\ UNCHANGED shard

\* A slip: a shard file that exists is truncated when it is opened again.
OpenTruncated(w, c) ==
    LET victims == Victims(w)
        kept    == DOMAIN buffered[w] \ ToSet(victims)
    IN  /\ c \notin DOMAIN buffered[w]
        /\ order' = [order EXCEPT ![w] =
                       Append(SubSeq(@, Len(victims) + 1, Len(@)), c)]
        /\ buffered' = [buffered EXCEPT ![w] =
                          [d \in kept \cup {c} |->
                             IF d = c THEN groups[w][c] ELSE @[d]]]
        /\ shard' = [shard EXCEPT ![w] =
                       [d \in DOMAIN @ \cup {c} |->
                          IF d \in ToSet(victims) THEN Flushed(w, d)
                          ELSE IF d # c THEN @[d] ELSE <<>>]]

\* `append` on another chunk: evict, then open its shard file, creating it or
\* reopening it at its end.
OpenAndAppend(w, c) ==
    LET victims == Victims(w)
        kept    == DOMAIN buffered[w] \ ToSet(victims)
    IN  /\ c \notin DOMAIN buffered[w]
        /\ order' = [order EXCEPT ![w] =
                       Append(SubSeq(@, Len(victims) + 1, Len(@)), c)]
        /\ buffered' = [buffered EXCEPT ![w] =
                          [d \in kept \cup {c} |->
                             IF d = c THEN groups[w][c] ELSE @[d]]]
        /\ shard' = [shard EXCEPT ![w] =
                       [d \in DOMAIN @ \cup {c} |->
                          IF d \in ToSet(victims) THEN Flushed(w, d)
                          ELSE IF d \in DOMAIN @ THEN @[d] ELSE <<>>]]

\* A slip: the groups are counted, not their points.
AppendGroupCounted(w, c) ==
    /\ status[w] = "running"
    /\ groups[w][c] # <<>>
    /\ counts' = [counts EXCEPT ![c] = @ + 1]
    /\ AppendToOpen(w, c) \/ OpenAndAppend(w, c)
    /\ groups' = [groups EXCEPT ![w][c] = <<>>]
    /\ UNCHANGED <<chunkOf, status, file, next, mergeVars>>

\* One turn of `for (chunk_idx, pts) in groups.drain()`, in the map's order.
AppendGroup(w, c) ==
    /\ status[w] = "running"
    /\ groups[w][c] # <<>>
    /\ counts' = [counts EXCEPT ![c] = @ + Len(groups[w][c])]
    /\ AppendToOpen(w, c) \/ OpenAndAppend(w, c)
    /\ groups' = [groups EXCEPT ![w][c] = <<>>]
    /\ UNCHANGED <<chunkOf, status, file, next, mergeVars>>

\* The slice is read (or empty): flush_all, and the closure returns Ok.
FlushAll(w) ==
    /\ status[w] = "running"
    /\ Drained(w)
    /\ file[w] > LastFile(w)
    /\ shard' = [shard EXCEPT ![w] =
                   [c \in DOMAIN @ |->
                      IF c \in DOMAIN buffered[w] THEN Flushed(w, c) ELSE @[c]]]
    /\ buffered' = [buffered EXCEPT ![w] = None]
    /\ order' = [order EXCEPT ![w] = <<>>]
    /\ status' = [status EXCEPT ![w] = "ok"]
    /\ UNCHANGED <<chunkOf, file, next, groups, counts, mergeVars>>

\* Opening, decoding, appending or flushing fails: the closure returns Err.
\* A group whose append fails has been tallied already.
WorkerFails(w) ==
    /\ status[w] = "running"
    /\ status' = [status EXCEPT ![w] = "err"]
    /\ \/ Drained(w) /\ UNCHANGED counts
       \/ \E c \in Chunks :
             /\ groups[w][c] # <<>>
             /\ counts' = [counts EXCEPT ![c] = @ + Len(groups[w][c])]
    /\ UNCHANGED <<chunkOf, file, next, groups, order, buffered, shard,
                   mergeVars>>

-----------------------------------------------------------------------------
(* distribute after the workers, and merge_chunk_shards                     *)

WorkersJoined ==
    IF \E w \in Workers : status[w] = "err"
    THEN \A w \in Workers : status[w] # "running"
    ELSE \A w \in Workers : status[w] = "ok"

Join ==
    /\ phase = "distributing"
    /\ WorkersJoined
    /\ phase' = IF \E w \in Workers : status[w] = "err"
                THEN "failed" ELSE "merging"
    /\ UNCHANGED <<chunkOf, workerVars, canonical, merging, stashed>>

\* The shard files of a chunk, by worker number.
ShardsOf(c) == InOrder({w \in Workers : c \in DOMAIN shard[w]})

\* The canonical files with one more, of chunk c.
WithFile(c, points) ==
    [d \in DOMAIN canonical \cup {c} |-> IF d = c THEN points ELSE canonical[d]]

\* No worker met the chunk: its canonical file is created empty.
CreateEmpty(c) ==
    /\ phase = "merging" /\ merging[c].at = "todo"
    /\ ShardsOf(c) = <<>>
    /\ canonical' = WithFile(c, <<>>)
    /\ merging' = [merging EXCEPT ![c] = Merged("ok", <<>>)]
    /\ UNCHANGED <<chunkOf, workerVars, phase, stashed>>

\* The first shard becomes the canonical file by a rename.
RenameFirst(c) ==
    LET shards == ShardsOf(c)
    IN  /\ phase = "merging" /\ merging[c].at = "todo"
        /\ shards # <<>>
        /\ canonical' = WithFile(c, shard[Head(shards)][c])
        /\ shard' = [shard EXCEPT ![Head(shards)] =
                       [d \in DOMAIN @ \ {c} |-> @[d]]]
        /\ merging' = [merging EXCEPT ![c] = Merged("copying", Tail(shards))]
        /\ UNCHANGED <<chunkOf, status, file, next, groups, order, buffered,
                       counts, phase, stashed>>

\* io::copy of the next shard to the end of the canonical file, or the end.
CopyShard(c) ==
    /\ phase = "merging" /\ merging[c].at = "copying"
    /\ IF merging[c].left = <<>>
       THEN /\ merging' = [merging EXCEPT ![c] = Merged("ok", <<>>)]
            /\ UNCHANGED canonical
       ELSE /\ merging' = [merging EXCEPT ![c] = Merged("copying", Tail(@.left))]
            /\ canonical' = [canonical EXCEPT ![c] =
                               @ \o shard[Head(merging[c].left)][c]]
    /\ UNCHANGED <<chunkOf, workerVars, phase, stashed>>

MergeFails(c) ==
    /\ phase = "merging" /\ merging[c].at \notin {"ok", "err"}
    /\ merging' = [merging EXCEPT ![c] = Merged("err", <<>>)]
    /\ UNCHANGED <<chunkOf, workerVars, canonical, phase, stashed>>

\* Every chunk is merged: remove the shards and stash the counts and the plan.
Finish ==
    /\ phase = "merging"
    /\ \A c \in Chunks : merging[c].at = "ok"
    /\ shard' = [w \in Workers |-> None]
    /\ stashed' = counts
    /\ phase' = "done"
    /\ UNCHANGED <<chunkOf, status, file, next, groups, order, buffered, counts,
                   canonical, merging>>

\* The first error stops the merge; the pass returns it and stashes nothing.
GiveUp ==
    /\ phase = "merging"
    /\ \E c \in Chunks : merging[c].at = "err"
    /\ phase' = "failed"
    /\ UNCHANGED <<chunkOf, workerVars, canonical, merging, stashed>>

Returned == phase \in {"done", "failed"} /\ UNCHANGED vars

-----------------------------------------------------------------------------
WorkerStep(w) ==
    \/ Start(w) \/ ReadBatch(w) \/ NextFile(w) \/ FlushAll(w)
    \/ \E c \in Chunks : AppendGroup(w, c)

MergeStep(c) == CreateEmpty(c) \/ RenameFirst(c) \/ CopyShard(c)

MainStep == Join \/ Finish \/ GiveUp

Next ==
    \/ \E w \in Workers : WorkerStep(w) \/ WorkerFails(w)
    \/ \E c \in Chunks : MergeStep(c) \/ MergeFails(c)
    \/ MainStep
    \/ Returned

\* Rayon runs every worker and every chunk of the merge to its end, and the
\* calling thread goes on when they have.
Fairness ==
    /\ \A w \in Workers : WF_vars(WorkerStep(w))
    /\ \A c \in Chunks : WF_vars(MergeStep(c))
    /\ WF_vars(MainStep)

Spec == Init /\ [][Next]_vars /\ Fairness

-----------------------------------------------------------------------------
(* Properties                                                               *)

\* The points of the input up to p that belong to chunk c, in input order.
InputOf(c, first, last) ==
    InOrder({p \in first .. last : chunkOf[p] = c})

Buffered(w, c) == IF c \in DOMAIN buffered[w] THEN buffered[w][c] ELSE <<>>
InShard(w, c)  == IF c \in DOMAIN shard[w] THEN shard[w][c] ELSE <<>>

(***************************************************************************)
(* While the workers run, what worker w has written, buffered and grouped  *)
(* of a chunk is, in order, exactly what it has read of it: evicting a     *)
(* writer and reopening its file at the end loses, repeats and reorders    *)
(* nothing (ChunkWriterCache::append).                                     *)
(***************************************************************************)
NothingLostInCache ==
    phase = "distributing" =>
        \A w \in Workers, c \in Chunks :
            status[w] # "err" /\ FirstFile(w) <= LastFile(w) =>
                InShard(w, c) \o Buffered(w, c) \o groups[w][c]
                    = InputOf(c, FileStart(FirstFile(w)), next[w] - 1)

(***************************************************************************)
(* The list `order` and the map `writers` of the cache never drift apart,  *)
(* and no worker has more than Capacity files open: a chunk missing from   *)
(* `order` could never be evicted, and the loop would give up.  The rest   *)
(* of the state is of its type.                                            *)
(***************************************************************************)
CacheInStep ==
    /\ TypeOK
    /\ \A w \in Workers :
        /\ ToSet(order[w]) = DOMAIN buffered[w]
        /\ Len(order[w]) = Cardinality(DOMAIN buffered[w])
        /\ Len(order[w]) <= Capacity

(***************************************************************************)
(* When the pass succeeds every planned chunk has a canonical file, which  *)
(* holds exactly its points of the whole input, once each and in input     *)
(* order, whatever the workers' slices, batches and interleavings were;    *)
(* and the count the build will choose its path by is exact.               *)
(***************************************************************************)
ChunkFilesExact ==
    phase = "done" =>
        /\ DOMAIN canonical = Chunks
        /\ \A c \in Chunks :
              /\ canonical[c] = InputOf(c, 1, NumPoints)
              /\ stashed[c] = Len(canonical[c])

(***************************************************************************)
(* The pass returns: every worker reaches the end of its slice and every   *)
(* chunk is merged, or the first error is handed to the caller.            *)
(***************************************************************************)
Returns == <>(phase \in {"done", "failed"})
=============================================================================
