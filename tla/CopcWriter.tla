------------------------------ MODULE CopcWriter ------------------------------
(***************************************************************************)
(* The write stage (src/src/writer.rs `write_copc`): the list of nodes is  *)
(* sorted; the nodes with points are read from the node store and encoded  *)
(* in parallel, a window at a time, and each window is handed to the LAZ   *)
(* compressor in order; then the chunk table is read back, and the byte    *)
(* range of every node is found by walking the sorted list and the table   *)
(* side by side; then the hierarchy and, when asked for, the temporal      *)
(* index are appended, and the header is patched with where they are.      *)
(*                                                                         *)
(* A point is its GPS time and its return number; the sizes to which the   *)
(* compressor brings the chunks are its own.  The byte layout of headers   *)
(* and records is left out except for the sizes that offsets depend on.    *)
(***************************************************************************)
EXTENDS HierarchyPages

CONSTANTS NodeLists,    \* node lists that occur: functions from key to points
          MaxReturn,    \* return numbers 1 .. MaxReturn are counted (15)
          WindowPoints, \* WRITER_WINDOW_POINTS
          Strides,      \* what may be asked for as temporal index; 0 for none
          ChunkSize,    \* number of points -> bytes they compress to
          HeaderSize,   \* offset_to_point_data
          TableSize     \* bytes the chunk table takes

ASSUME WriterAssumption ==
    /\ \A nodes \in NodeLists :
          /\ DOMAIN nodes \subseteq Nat \X Nat /\ IsFiniteSet(DOMAIN nodes)
          \* times are finite or NaN; an infinite one is left out
          /\ nodes \in [DOMAIN nodes -> Seq([gps : GpsTimes, ret : Nat])]
          /\ \A k \in DOMAIN nodes : k[1] > 0 => Parent(k) \in DOMAIN nodes
    /\ MaxReturn \in Nat /\ WindowPoints \in Nat /\ Strides \subseteq Nat
    /\ \A nodes \in NodeLists : \A k \in DOMAIN nodes :
          nodes[k] # <<>> => ChunkSize[Len(nodes[k])] \in Nat \ {0}
    /\ HeaderSize \in Nat /\ TableSize \in Nat

EvlrHeader == 60

VARIABLES nodes,        \* key -> its points in the node store, fixed
          stride,       \* every how many points is sampled, fixed
          ordered,      \* the list of nodes, sorted, fixed
          dataKeys,     \* the nodes of it that have points, fixed
          start,        \* win_start: data nodes compressed so far
          end,          \* win_end of the window being encoded
          encoded,      \* index in the window -> what its closure returned
          chunks,       \* the chunks in the file, in order
          sampled,      \* temporal_entries
          stats,        \* return counts and GPS range so far
          hierarchy,    \* the hierarchy payload in the file
          temporal,     \* the temporal payload in the file
          header,       \* the fields patched at the end
          phase         \* what write_copc is at

fixed == <<nodes, stride, ordered, dataKeys>>

vars == <<fixed, start, end, encoded, chunks, sampled, stats, hierarchy,
          temporal, header, phase>>

NoPayload == [records |-> <<>>, start |-> 0, rootOffset |-> 0, rootSize |-> 0]
NoHeader  == [evlrStart |-> 0, rootOffset |-> 0, rootSize |-> 0, total |-> 0,
              returns |-> <<>>, gpsMin |-> 0, gpsMax |-> 0]
NoStats   == [returns |-> [r \in 1 .. MaxReturn |-> 0],
              gpsMin |-> Endless, gpsMax |-> -Endless]

Phases == {"windows", "encoding", "temporal", "patching", "done", "failed"}

Init ==
    /\ nodes \in NodeLists
    /\ stride \in Strides
    \* by level, then by coordinates
    /\ ordered = InOrder(DOMAIN nodes, KeyLess)
    \* those of them that have points, in the same order
    /\ dataKeys = InOrder({k \in DOMAIN nodes : nodes[k] # <<>>}, KeyLess)
    /\ start = 0
    /\ end = 0
    /\ encoded = <<>>
    /\ chunks = <<>>
    /\ sampled = <<>>
    /\ stats = NoStats
    /\ hierarchy = NoPayload
    /\ temporal = NoPayload
    /\ header = NoHeader
    /\ phase = "windows"

PointsOf(keys) == SumOf([i \in DOMAIN keys |-> Len(nodes[keys[i]])])

-----------------------------------------------------------------------------
(* Windows                                                                  *)

\* A slip: a node larger than the window is never taken.
WindowEndStrict ==
    Max({e \in start .. Len(dataKeys) :
           PointsOf(SubSeq(dataKeys, start + 1, e)) <= WindowPoints})

\* A slip: the node that exceeds the window is still taken.
WindowEndAfter ==
    Max({e \in start + 1 .. Len(dataKeys) :
           \/ e = start + 1
           \/ PointsOf(SubSeq(dataKeys, start + 1, e - 1)) <= WindowPoints})

\* As many nodes as fit the window, and always one.
WindowEnd ==
    Max({e \in start + 1 .. Len(dataKeys) :
           \/ e = start + 1
           \/ PointsOf(SubSeq(dataKeys, start + 1, e)) <= WindowPoints})

PackWindow ==
    /\ phase = "windows"
    /\ start < Len(dataKeys)
    /\ end' = WindowEnd
    /\ encoded' = <<>>
    /\ phase' = "encoding"
    /\ UNCHANGED <<fixed, start, chunks, sampled, stats, hierarchy, temporal,
                   header>>

Window == SubSeq(dataKeys, start + 1, end)

\* Every stride-th time of a node, and its last.
Samples(points) ==
    LET picked == {i \in DOMAIN points :
                     (i - 1) % stride = 0 \/ i = Len(points)}
        inOrder == InOrder(picked, <)
    IN  IF stride = 0 THEN <<>>
        ELSE [j \in DOMAIN inOrder |-> points[inOrder[j]].gps]

\* Return numbers outside 1 .. MaxReturn are not counted.
ReturnCounts(points) ==
    [r \in 1 .. MaxReturn |-> Cardinality({i \in DOMAIN points : points[i].ret = r})]

\* The times that are numbers.
TimesIn(points) == {points[i].gps : i \in DOMAIN points} \ {NaN}

Untimed(points) == \E i \in DOMAIN points : points[i].gps = NaN

Ascending(list) ==
    \A i, j \in DOMAIN list : i <= j => list[i].gps <= list[j].gps

\* What sort_unstable_by may make of the points: they ascend.  A NaN is equal to
\* everything, which is no order: then they may be left in any, or the sort may
\* panic, which ends the conversion as an error does.
Arrangements(points) ==
    {list \in {[n \in DOMAIN points |-> points[place[n]]] :
                  place \in Bijection(DOMAIN points, DOMAIN points)} :
        Untimed(points) \/ Ascending(list)}

\* The closure for one node, which it reads, sorts by time to `list`, counts,
\* samples and encodes.  What is counted does not depend on the order.
EncodedNode(key, list) ==
    [chunk |-> key, returns |-> ReturnCounts(list),
     gpsMin |-> Min(TimesIn(list) \cup {Endless}),
     gpsMax |-> Max(TimesIn(list) \cup {-Endless}),
     samples |-> Samples(list)]

\* The closures of a window run in parallel; their results keep its order.
EncodeNode(i) ==
    /\ phase = "encoding"
    /\ i \in DOMAIN Window \ DOMAIN encoded
    /\ \E list \in Arrangements(nodes[Window[i]]) :
          encoded' = [j \in DOMAIN encoded \cup {i} |->
                        IF j = i THEN EncodedNode(Window[i], list) ELSE encoded[j]]
    /\ UNCHANGED <<fixed, start, end, chunks, sampled, stats, hierarchy,
                   temporal, header, phase>>

\* The running statistics with those of a window.
Folded(results) ==
    [returns |-> [n \in 1 .. MaxReturn |-> stats.returns[n] +
                    SumOf([i \in DOMAIN results |-> results[i].returns[n]])],
     gpsMin |-> Min({r.gpsMin : r \in ToSet(results) \cup {stats}}),
     gpsMax |-> Max({r.gpsMax : r \in ToSet(results) \cup {stats}})]

SampledOf(results) ==
    [i \in DOMAIN results |-> [key |-> Window[i], samples |-> results[i].samples]]

NextStart == end

\* All closures have returned: fold their statistics in order, compress the
\* chunks in order, go on behind the window.
CompressWindow ==
    /\ phase = "encoding"
    /\ DOMAIN encoded = DOMAIN Window
    /\ LET results == [i \in DOMAIN Window |-> encoded[i]]
       IN  /\ stats' = Folded(results)
           /\ sampled' = IF stride = 0 THEN sampled ELSE sampled \o SampledOf(results)
           /\ chunks' = chunks \o [i \in DOMAIN Window |->
                                    [key |-> results[i].chunk,
                                     size |-> ChunkSize[Len(nodes[results[i].chunk])]]]
    /\ start' = NextStart
    /\ encoded' = <<>>
    /\ phase' = "windows"
    /\ UNCHANGED <<fixed, end, hierarchy, temporal, header>>

-----------------------------------------------------------------------------
(* The chunk table, the hierarchy, the temporal index, the header           *)

\* Where the compressor puts the n-th chunk: behind the 8 bytes it reserves
\* for the offset of the chunk table, and the chunks before it.
ChunkOffset(n) ==
    HeaderSize + 8 + SumOf([m \in 1 .. n - 1 |-> chunks[m].size])

\* compressor.done() appends the chunk table: the first EVLR starts behind it.
EvlrStart == ChunkOffset(Len(chunks) + 1) + TableSize

\* What the table read back says of the n-th chunk.
ChunkTable == [n \in DOMAIN chunks |-> chunks[n].size]

\* The walk's current_offset before it comes to the n-th chunk.
CurrentOffset(n) ==
    HeaderSize + 8 + SumOf(SubSeq(ChunkTable, 1, n - 1))

\* A slip: an empty node takes a chunk of the table too.
ChunkIndexEach(i) == Min({i, Len(chunks)})

\* An empty node takes no chunk, every other the next one of the table.
ChunkIndex(i) == Cardinality({j \in 1 .. i : nodes[ordered[j]] # <<>>})

ChunkInfo ==
    [i \in DOMAIN ordered |->
       LET k == ordered[i]
           n == ChunkIndex(i)
       IN  IF nodes[k] = <<>>
           THEN [key |-> k, offset |-> 0, byteSize |-> 0, pointCount |-> 0]
           ELSE [key |-> k, offset |-> CurrentOffset(n),
                 byteSize |-> ChunkTable[n], pointCount |-> Len(nodes[k])]]

WriteHierarchy ==
    /\ phase = "windows"
    /\ start = Len(dataKeys)
    /\ hierarchy' = HierarchyPayload(ChunkInfo, EvlrStart + EvlrHeader)
    /\ phase' = IF stride = 0 THEN "patching" ELSE "temporal"
    /\ UNCHANGED <<fixed, start, end, encoded, chunks, sampled, stats, temporal,
                   header>>

\* The temporal EVLR follows the hierarchy's payload.
WriteTemporal ==
    /\ phase = "temporal"
    /\ temporal' = TemporalPayload(sampled,
          hierarchy.start + BytesOf("node", hierarchy.records) + EvlrHeader)
    /\ phase' = "patching"
    /\ UNCHANGED <<fixed, start, end, encoded, chunks, sampled, stats,
                   hierarchy, header>>

\* A slip: the sentinels of an empty range are written out.
GpsRangeAsIs == <<stats.gpsMin, stats.gpsMax>>

\* Without any point the range is 0.
GpsRange == IF stats.gpsMin > stats.gpsMax THEN <<0, 0>>
            ELSE <<stats.gpsMin, stats.gpsMax>>

\* The header and the COPC info are patched, and the file is complete.
PatchHeader ==
    /\ phase = "patching"
    /\ header' = [evlrStart |-> EvlrStart, rootOffset |-> hierarchy.rootOffset,
                  rootSize |-> hierarchy.rootSize, total |-> PointsOf(ordered),
                  returns |-> stats.returns,
                  gpsMin |-> GpsRange[1], gpsMax |-> GpsRange[2]]
    /\ phase' = "done"
    /\ UNCHANGED <<fixed, start, end, encoded, chunks, sampled, stats,
                   hierarchy, temporal>>

\* Reading, compressing or writing fails, or sorting a node with a NaN panics.
Fail ==
    /\ phase \notin {"done", "failed"}
    /\ phase' = "failed"
    /\ UNCHANGED <<fixed, start, end, encoded, chunks, sampled, stats,
                   hierarchy, temporal, header>>

Returned == phase \in {"done", "failed"} /\ UNCHANGED vars

-----------------------------------------------------------------------------
\* An iteration of the loop over windows.
Loop ==
    \/ PackWindow \/ CompressWindow
    \/ \E i \in DOMAIN Window : EncodeNode(i)

Next ==
    \/ Loop
    \/ WriteHierarchy \/ WriteTemporal \/ PatchHeader
    \/ Fail \/ Returned

\* The writer is one thread and the closures it waits for.
Spec == Init /\ [][Next]_vars /\ WF_vars(Loop)

-----------------------------------------------------------------------------
(* Properties                                                               *)

TypeOK ==
    /\ nodes \in [DOMAIN nodes -> Seq([gps : GpsTimes, ret : Nat])]
    /\ 0 <= start /\ start <= Len(dataKeys)
    /\ end \in 0 .. Len(dataKeys)
    /\ DOMAIN encoded \subseteq 1 .. end - start
    /\ chunks \in Seq([key : DOMAIN nodes, size : Nat])
    /\ ToSet(sampled) \subseteq [key : DOMAIN nodes, samples : Seq(GpsTimes)]
    /\ stats.returns \in [1 .. MaxReturn -> Nat]
    /\ phase \in Phases

(***************************************************************************)
(* The window being encoded, with every read buffer and every encoded      *)
(* chunk of it, holds at most WRITER_WINDOW_POINTS points or a single      *)
(* node, and windows neither skip nor repeat a node.  The state is of its  *)
(* type.                                                                   *)
(***************************************************************************)
WindowsBounded ==
    /\ TypeOK
    /\ phase = "encoding" =>
          Len(Window) = 1 \/ PointsOf(Window) <= WindowPoints
    /\ [i \in DOMAIN chunks |-> chunks[i].key] = SubSeq(dataKeys, 1, start)

\* What the hierarchy must say of a node: the byte range of its own chunk.
Describes(record, key) ==
    IF nodes[key] = <<>>
    THEN <<record.offset, record.byteSize, record.pointCount>> = <<0, 0, 0>>
    ELSE \E n \in DOMAIN chunks :
            /\ chunks[n].key = key
            /\ record.offset = ChunkOffset(n)
            /\ record.byteSize = chunks[n].size
            /\ record.pointCount = Len(nodes[key])

(***************************************************************************)
(* When the last window is compressed, the walk over the sorted list and   *)
(* the chunk table read back, side by side, gives every node the bytes of  *)
(* its own chunk, and an empty node none.                                  *)
(***************************************************************************)
EntriesDescribe ==
    phase = "windows" /\ start = Len(dataKeys) =>
        \A i \in DOMAIN ordered :
            ChunkInfo[i].key = ordered[i] /\ Describes(ChunkInfo[i], ordered[i])

IsAncestor(a, key) == a[1] <= key[1] /\ AncestorAt(key, a[1]) = a

(***************************************************************************)
(* A reader that starts at the root page named in the COPC info and goes   *)
(* down to a node, following the pointers to its ancestors, finds exactly  *)
(* one entry for every node of the list, and the entry gives the bytes of  *)
(* that node's chunk: the sorted list, the windows, the chunk table and    *)
(* the pages all agree.                                                    *)
(***************************************************************************)
EveryNodeFound ==
    phase = "done" /\ DOMAIN nodes # {} =>
        LET file == [hierarchy EXCEPT !.rootOffset = header.rootOffset,
                                      !.rootSize = header.rootSize]
        IN  \A k \in DOMAIN nodes :
              LET pages == PagesReached("node", file,
                             {n \in Pointers("node", file) : IsAncestor(file.records[n].key, k)})
                  hits  == {n \in UNION {RecordsIn("node", file, pg) : pg \in pages} :
                              file.records[n].key = k /\ ~IsPointer("node", file.records[n])}
              IN  Cardinality(hits) = 1 /\ \A n \in hits : Describes(file.records[n], k)

AllPages(kind, payload) == PagesReached(kind, payload, Pointers(kind, payload))

\* Following all pointers, a reader comes to every record, and to none in two pages.
Tiles(kind, payload) ==
    LET Held(pg) == RecordsIn(kind, payload, pg)
        pages    == AllPages(kind, payload)
    IN  /\ UNION {Held(pg) : pg \in pages} = DOMAIN payload.records
        /\ \A p, q \in pages : p # q => Held(p) \cap Held(q) = {}

(***************************************************************************)
(* The pages reached by pointers tile the hierarchy's payload and the      *)
(* temporal index's: none overlap and nothing is left over.  In the        *)
(* hierarchy no page has two records for one key either, so that a key in  *)
(* a page is an entry or a pointer (the COPC specification's rule for      *)
(* point_count = -1); in the temporal index a subtree's root is both.      *)
(***************************************************************************)
PagesTile ==
    phase = "done" /\ DOMAIN nodes # {} =>
        /\ Tiles("node", hierarchy)
        /\ stride # 0 => Tiles("time", temporal)
        /\ \A pg \in AllPages("node", hierarchy) :
              \A m, n \in RecordsIn("node", hierarchy, pg) :
                 hierarchy.records[m].key = hierarchy.records[n].key => m = n

(***************************************************************************)
(* A reader that looks for the points of a time span and skips every page  *)
(* whose pointer's range does not meet it still comes to the record of     *)
(* every node with a point in the span, and its first and last samples     *)
(* enclose the point's time.  A node with a NaN among its times is         *)
(* excepted, and no other: nothing keeps a NaN out (octree.rs:1528), the   *)
(* node is then not sorted, and its samples need not enclose its times.    *)
(***************************************************************************)
TimeSearchComplete ==
    phase = "done" /\ stride # 0 =>
        \A k \in {k \in ToSet(dataKeys) : ~Untimed(nodes[k])} : \A t \in TimesIn(nodes[k]) :
            LET pages == PagesReached("time", temporal,
                             {n \in Pointers("time", temporal) :
                                /\ temporal.records[n].range[1] <= t
                                /\ t <= temporal.records[n].range[2]})
                found == UNION {RecordsIn("time", temporal, pg) : pg \in pages}
            IN  \E n \in found :
                    LET r == temporal.records[n]
                    IN  /\ r.key = k /\ ~IsPointer("time", r)
                        /\ Head(r.samples) <= t /\ t <= Last(r.samples)

(***************************************************************************)
(* The counts in the header are those of the points in the chunks, and its *)
(* time range is that of the numbers among their times, 0 to 0 when there  *)
(* are none, wherever a NaN stands among them.                             *)
(***************************************************************************)
HeaderExact ==
    phase = "done" =>
        LET points == UNION {{<<k, i>> : i \in DOMAIN nodes[k]} : k \in DOMAIN nodes}
            Times  == {nodes[e[1]][e[2]].gps : e \in points} \ {NaN}
        IN  /\ header.total = Cardinality(points)
            /\ \A r \in 1 .. MaxReturn : header.returns[r] =
                  Cardinality({e \in points : nodes[e[1]][e[2]].ret = r})
            /\ header.gpsMin = IF Times = {} THEN 0 ELSE Min(Times)
            /\ header.gpsMax = IF Times = {} THEN 0 ELSE Max(Times)

(***************************************************************************)
(* The loop over windows ends, because every window takes at least one     *)
(* node; what follows it is straight-line code.                            *)
(***************************************************************************)
LoopEnds == <>(start = Len(dataKeys) \/ phase = "failed")
=============================================================================
