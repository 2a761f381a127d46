---------------------------- MODULE ChunkPlanner ----------------------------
(***************************************************************************)
(* The chunk planner (src/src/chunking.rs) and the table by which the      *)
(* distribute pass then classifies points (src/src/octree.rs): workers     *)
(* count the points of their files into a grid they share; the grid's      *)
(* cells are merged upwards into the largest voxels that fit the target;   *)
(* cells over the target are split below the grid; and the table leads     *)
(* from a point's cell to its chunk.                                       *)
(*                                                                         *)
(* The files' coordinates are in halves of a step of the output encoding,  *)
(* so that rounding to a step may carry a point across a boundary.  The    *)
(* root voxel is the cube of 2 ^ Span steps from 0; points may lie       *)
(* outside it, since a header may be wrong.  There are Dims axes for the   *)
(* three of the code.                                                      *)
(***************************************************************************)
EXTENDS Lists, FiniteSetsExt

CONSTANTS Dims,
          Inputs,          \* what may be given: the points of all files, and
                           \* for each file the number of its last point
          Headers,         \* combined header bounds that may come with them
          Budgets,         \* memory_budget
          Overrides,       \* chunk_target_override, or NoOverride
          NoOverride,
          Cores,
          GridDepths,      \* depths of the grids to choose from (7, 8, 9)
          Tiers,           \* point counts from which the next one is preferred
          CounterValues,   \* values a cell's counter has (2^32)
          SplitLevelCap,
          MinChunkPoints,
          PerPointOverhead, PerPointPeak, PerCell,          \* bytes
          SafetyPercent, SingleChunkPercent, GridPercent,   \* of the budget
          PerWorker,       \* PARALLELISM_TARGET_PER_WORKER
          Endless          \* an end to the coordinates, for the infinities

ASSUME PlannerAssumption ==
    /\ Dims \in Nat \ {0} /\ Cores \in Nat /\ CounterValues \in Nat \ {0}
    /\ \A input \in Inputs :
          /\ input.points \in Seq([1 .. Dims -> Int])
          /\ input.ends \in Seq(0 .. Len(input.points))
          /\ \A f, g \in DOMAIN input.ends : f <= g => input.ends[f] <= input.ends[g]
          /\ IF input.ends = <<>> THEN input.points = <<>>
             ELSE input.ends[Len(input.ends)] = Len(input.points)
          /\ \A i \in DOMAIN input.points : \A a \in 1 .. Dims :
                input.points[i][a] \in -Endless .. Endless
    /\ Headers \subseteq [low : [1 .. Dims -> Int], high : [1 .. Dims -> Int]]
    /\ Endless \in Nat
    /\ GridDepths \in Seq(Nat \ {0}) /\ GridDepths # <<>>
    /\ \A s, t \in DOMAIN GridDepths : s <= t => GridDepths[s] <= GridDepths[t]
    /\ Tiers \in Seq(Nat) /\ Len(Tiers) + 1 = Len(GridDepths)
    /\ SplitLevelCap \in Nat \ {0} /\ MinChunkPoints \in Nat \ {0}
    /\ Overrides \subseteq Nat \cup {NoOverride} /\ Budgets \subseteq Nat
    /\ {PerPointOverhead, PerPointPeak, PerCell, PerWorker} \subseteq Nat \ {0}
    /\ {SafetyPercent, SingleChunkPercent, GridPercent} \subseteq Nat

VARIABLES files, header, budget, override,   \* what is given, fixed
          counted,   \* worker -> points of its files counted so far
          local,     \* worker -> bounds of those points
          grid,      \* cell -> its counter
          actual,    \* bounds of all points, once the workers ended
          level,     \* the level of `pops`
          pops,      \* voxel of that level -> merged count or Sentinel
          chunks,    \* the plan
          phase

given == <<files, header, budget, override>>
vars  == <<given, counted, local, grid, actual, level, pops, chunks, phase>>

Axes     == 1 .. Dims
Sentinel == -1
Clamp(x, low, high) == IF x < low THEN low ELSE IF x > high THEN high ELSE x

AllPoints   == files.points
TotalPoints == Len(AllPoints)

(***************************************************************************)
(* Target, grid and workers.                                               *)
(***************************************************************************)
MaxChunkPoints ==
    Max({(budget * SingleChunkPercent) \div (100 * PerPointPeak), MinChunkPoints})

Workers ==
    0 .. Max({1, Min({Len(files.ends), Max({2, (Cores * 2) \div 3})})}) - 1

NumWorkers == Cardinality(Workers)

TargetForParallelism ==
    Max({TotalPoints \div (NumWorkers * PerWorker), MinChunkPoints})

\* A slip: the budget of a single chunk does not bound the target.
ChunkTargetUnbounded ==
    IF override # NoOverride THEN override
    ELSE Max({MinChunkPoints,
              Min({(budget * SafetyPercent) \div (100 * NumWorkers * PerPointOverhead),
                   TargetForParallelism})})

ChunkTarget ==
    IF override # NoOverride THEN override
    ELSE Clamp(Min({(budget * SafetyPercent) \div (100 * NumWorkers * PerPointOverhead),
                    TargetForParallelism}),
               MinChunkPoints, MaxChunkPoints)

\* The finest grid that is not above the preferred one and fits the budget,
\* or else the coarsest.
GridDepth ==
    LET preferred == Cardinality({t \in DOMAIN Tiers : TotalPoints >= Tiers[t]}) + 1
        fits == {t \in 1 .. preferred :
                   Pow(Pow(2, GridDepths[t]), Dims) <= ((budget * GridPercent) \div 100) \div PerCell}
    IN  GridDepths[Max(fits \cup {1})]

Span == GridDepths[Len(GridDepths)] + SplitLevelCap

(***************************************************************************)
(* Voxels.  A voxel of a level is the tuple of its coordinates; a grid of  *)
(* n voxels per axis is laid out with the first axis innermost.            *)
(***************************************************************************)
Grid(l) == [Axes -> 0 .. Pow(2, l) - 1]

CellIndex(cell, n) == SumOf([a \in Axes |-> cell[a] * Pow(n, a - 1)])

\* The i-th voxel, from 0, of those k levels below a cell.
Below(cell, k, i) ==
    [a \in Axes |-> cell[a] * Pow(2, k) + ((i \div Pow(Pow(2, k), a - 1)) % Pow(2, k))]

\* How many those are.
Parts(k) == Pow(Pow(2, k), Dims)

\* The voxel k levels up.
Up(cell, k) == [a \in Axes |-> cell[a] \div Pow(2, k)]

\* To the nearest step, halves away from zero.
Encoded(point) ==
    [a \in Axes |-> IF point[a] < 0 THEN -((1 - point[a]) \div 2) ELSE (point[a] + 1) \div 2]

\* point_to_key: halving the cube, a point outside stays at its border.
PointToKey(position, depth) ==
    [a \in Axes |-> Clamp(position[a] \div Pow(2, Span - depth), 0, Pow(2, depth) - 1)]

(***************************************************************************)
(* Counting.                                                               *)
(***************************************************************************)
\* A slip: the bounds of no points are those of the origin.
EmptyBoundsZero == [low |-> [a \in Axes |-> 0], high |-> [a \in Axes |-> 0]]

EmptyBounds == [low |-> [a \in Axes |-> Endless], high |-> [a \in Axes |-> -Endless]]

MergedBounds(b, c) ==
    [low  |-> [a \in Axes |-> Min({b.low[a],  c.low[a]})],
     high |-> [a \in Axes |-> Max({b.high[a], c.high[a]})]]

Init ==
    /\ files \in Inputs /\ header \in Headers
    /\ budget \in Budgets /\ override \in Overrides
    /\ counted = [w \in Workers |-> 0]
    /\ local = [w \in Workers |-> EmptyBounds]
    /\ grid = [cell \in Grid(GridDepth) |-> 0]
    /\ actual = EmptyBounds
    /\ level = GridDepth
    /\ pops = [cell \in Grid(GridDepth) |-> 0]
    /\ chunks = <<>>
    /\ phase = "counting"

\* The files are shared out in runs of equal length, of which the last may
\* be shorter or empty: a worker's points end where those of the next begin.
Edge(w) ==
    LET filesPerWorker == (Len(files.ends) + NumWorkers - 1) \div NumWorkers
        file == Min({w * filesPerWorker, Len(files.ends)})
    IN  IF file = 0 THEN 0 ELSE files.ends[file]

\* A slip: the file's own coordinates are classified.
CountedCellOfFile(point) == PointToKey([a \in Axes |-> point[a] \div 2], GridDepth)

CountedCell(point) == PointToKey(Encoded(point), GridDepth)

\* One fetch_add; the counter wraps.
CountPoint(w) ==
    /\ phase = "counting" /\ Edge(w) + counted[w] < Edge(w + 1)
    /\ LET point == AllPoints[Edge(w) + counted[w] + 1]
       IN  /\ grid' = [grid EXCEPT ![CountedCell(point)] = (@ + 1) % CounterValues]
           /\ local' = [local EXCEPT ![w] =
                          MergedBounds(@, [low |-> Encoded(point), high |-> Encoded(point)])]
    /\ counted' = [counted EXCEPT ![w] = @ + 1]
    /\ UNCHANGED <<given, actual, level, pops, chunks, phase>>

\* A file cannot be opened or read.
CountFails ==
    /\ phase = "counting"
    /\ phase' = "failed"
    /\ UNCHANGED <<given, counted, local, grid, actual, level, pops, chunks>>

\* The bounds of all workers, folded in their order.
FoldedBounds ==
    LET Upto[n \in 0 .. NumWorkers] ==
          IF n = 0 THEN EmptyBounds ELSE MergedBounds(Upto[n - 1], local[n - 1])
    IN  Upto[NumWorkers]

EndCount ==
    /\ phase = "counting" /\ \A w \in Workers : Edge(w) + counted[w] = Edge(w + 1)
    /\ actual' = FoldedBounds
    /\ pops' = grid
    /\ phase' = "merging"
    /\ UNCHANGED <<given, counted, local, grid, level, chunks>>

(***************************************************************************)
(* Merging sparse cells.                                                   *)
(***************************************************************************)
\* The least depth at which an even share fits the target, or the cap.
SplitExtraLevels(pop) ==
    Min({k \in 0 .. SplitLevelCap : pop <= ChunkTarget * Parts(k)} \cup {SplitLevelCap})

\* A slip: the remainder of the division is dropped.
ShareEven(pop, n, i) == pop \div n

\* The estimate of the i-th of n parts.
Share(pop, n, i) == (pop \div n) + (IF i < pop % n THEN 1 ELSE 0)

EmitChunkRoot(l, cell, pop) ==
    LET k == IF l = GridDepth THEN SplitExtraLevels(pop) ELSE 0
    IN  IF k = 0 THEN <<[level |-> l, cell |-> cell, points |-> pop]>>
        ELSE [i \in 1 .. Parts(k) |->
                [level |-> GridDepth + k, cell |-> Below(cell, k, i - 1),
                 points |-> Share(pop, Parts(k), i - 1)]]

Child(parent, i) == Below(parent, 1, i - 1)

Sum(parent) ==
    SumOf([i \in 1 .. Parts(1) |->
             LET pop == pops[Child(parent, i)] IN IF pop = Sentinel THEN 0 ELSE pop])

\* A slip: a blocked child counts for nothing.
BlockedBySum(parent) == Sum(parent) > ChunkTarget

\* A slip: a sum that just fits is not merged.
BlockedAtTarget(parent) ==
    \/ \E i \in 1 .. Parts(1) : pops[Child(parent, i)] = Sentinel
    \/ Sum(parent) >= ChunkTarget

Blocked(parent) ==
    \/ \E i \in 1 .. Parts(1) : pops[Child(parent, i)] = Sentinel
    \/ Sum(parent) > ChunkTarget

\* The children with points of a parent that cannot be merged.
ChunksUnder(parent) ==
    Concat([i \in 1 .. Parts(1) |->
              LET cell == Child(parent, i)
              IN  IF Blocked(parent) /\ pops[cell] > 0
                  THEN EmitChunkRoot(level, cell, pops[cell]) ELSE <<>>])

Root == [a \in Axes |-> 0]

Merged == [parent \in Grid(level - 1) |-> IF Blocked(parent) THEN Sentinel ELSE Sum(parent)]

MergeLevel ==
    /\ phase = "merging" /\ level > 0
    /\ chunks' = chunks \o Concat([i \in 1 .. Parts(level - 1) |->
                                      ChunksUnder(Below(Root, level - 1, i - 1))])
    /\ pops' = Merged
    /\ level' = level - 1
    /\ UNCHANGED <<given, counted, local, grid, actual, phase>>

\* At the root: everything fits one chunk, or there is nothing.
EndMerge ==
    /\ phase = "merging" /\ level = 0
    /\ chunks' = IF pops[Root] > 0 THEN chunks \o EmitChunkRoot(0, Root, pops[Root]) ELSE chunks
    /\ phase' = "planned"
    /\ UNCHANGED <<given, counted, local, grid, actual, level, pops>>

Returned == phase \in {"planned", "failed"} /\ UNCHANGED vars

Next ==
    \/ \E w \in Workers : CountPoint(w)
    \/ CountFails \/ EndCount \/ MergeLevel \/ EndMerge \/ Returned

Spec == Init /\ [][Next]_vars

(***************************************************************************)
(* Classifying a point by the plan, as the distribute pass does.           *)
(***************************************************************************)
NoChunk == [chunk |-> 0]

\* Where a voxel lies among those of its cell.
SubOctantIndex(cell, k) == CellIndex([a \in Axes |-> cell[a] % Pow(2, k)], Pow(2, k))

\* build_chunk_lut, for one cell: the last chunk that fills it, or where the
\* sub-chunks of it begin.
ChunkLut(cell) ==
    LET whole == {i \in DOMAIN chunks : chunks[i].level <= GridDepth
                    /\ Up(cell, GridDepth - chunks[i].level) = chunks[i].cell}
        parts == {i \in DOMAIN chunks : chunks[i].level > GridDepth
                    /\ Up(chunks[i].cell, chunks[i].level - GridDepth) = cell}
    IN  IF whole \cup parts = {} THEN NoChunk
        ELSE IF Max(whole \cup parts) \in whole THEN [chunk |-> Max(whole)]
        ELSE LET first == Min(parts)
                 k     == chunks[first].level - GridDepth
             IN  [k |-> k, base |-> first - SubOctantIndex(chunks[first].cell, k)]

Route(point) ==
    LET cell  == PointToKey(Encoded(point), GridDepth)
        entry == ChunkLut(cell)
    IN  IF "chunk" \in DOMAIN entry THEN entry.chunk
        ELSE LET deep == PointToKey(Encoded(point), GridDepth + entry.k)
                 in   == [a \in Axes |-> Clamp(deep[a] - cell[a] * Pow(2, entry.k),
                                               0, Pow(2, entry.k) - 1)]
             IN  entry.base + CellIndex(in, Pow(2, entry.k))

(***************************************************************************)
(* detect_header_mismatch: an axis by which they differ by more than one   *)
(* and a half steps.                                                       *)
(***************************************************************************)
HeaderMismatch ==
    {<<"low", a>>  : a \in {a \in Axes : 2 * Max({header.low[a] - actual.low[a],
                                                  actual.low[a] - header.low[a]}) > 3}}
    \cup
    {<<"high", a>> : a \in {a \in Axes : 2 * Max({header.high[a] - actual.high[a],
                                                  actual.high[a] - header.high[a]}) > 3}}

(***************************************************************************)
(* Properties.                                                             *)
(***************************************************************************)
TypeOK ==
    /\ \A w \in Workers : counted[w] \in 0 .. Edge(w + 1) - Edge(w)
    /\ DOMAIN grid = Grid(GridDepth)
    /\ \A cell \in DOMAIN grid : grid[cell] \in 0 .. CounterValues - 1
    /\ level \in 0 .. GridDepth
    /\ DOMAIN pops = Grid(level)
    /\ phase \in {"counting", "merging", "planned", "failed"}

\* The points in a voxel of some level.
Population(cell, l) ==
    Cardinality({i \in DOMAIN AllPoints : PointToKey(Encoded(AllPoints[i]), l) = cell})

\* A counter has wrapped.
Wrapped == \E cell \in Grid(GridDepth) : Population(cell, GridDepth) >= CounterValues

Planned == phase = "planned" /\ ~Wrapped

\* "a point's chunk assignment and its leaf's chunk-root ancestor always
\* agree": a point is led to a chunk of the plan whose voxel it lies in, on
\* boundaries, outside the cube and below the grid alike.
RoutedIntoOwnChunk ==
    Planned => \A i \in DOMAIN AllPoints :
        LET n == Route(AllPoints[i])
        IN  /\ n \in DOMAIN chunks
            /\ PointToKey(Encoded(AllPoints[i]), chunks[n].level) = chunks[n].cell

\* No chunk lies in another: what the build of the octree takes for granted.
\* The state is of its type.
ChunksApart ==
    /\ TypeOK
    /\ Planned => \A i, j \in DOMAIN chunks :
        i # j /\ chunks[i].level <= chunks[j].level =>
            Up(chunks[j].cell, chunks[j].level - chunks[i].level) # chunks[i].cell

\* "Total points across all chunks (should equal input total)"; and for a
\* chunk that was not split the estimate is the count.
EstimatesConserve ==
    Planned =>
        /\ SumOf([i \in DOMAIN chunks |-> chunks[i].points]) = TotalPoints
        /\ \A i \in DOMAIN chunks : chunks[i].level <= GridDepth =>
              chunks[i].points = Population(chunks[i].cell, chunks[i].level)

\* The plan has the largest voxels that fit the target, and of the finest
\* cells that do not fit it the parts; level by level the code finds what
\* this says at once.
PlanIsCoarsest ==
    Planned =>
        LET Fits(cell, l)  == Population(cell, l) <= ChunkTarget
            Roots(l) == {cell \in Grid(l) :
                           /\ Population(cell, l) > 0
                           /\ Fits(cell, l) \/ l = GridDepth
                           /\ l = 0 \/ ~Fits(Up(cell, 1), l - 1)}
            InPlan(l) == {chunks[i].cell : i \in {i \in DOMAIN chunks : chunks[i].level = l}}
            Split  == {Up(chunks[i].cell, chunks[i].level - GridDepth) :
                         i \in {i \in DOMAIN chunks : chunks[i].level > GridDepth}}
        IN  /\ \A l \in 0 .. GridDepth - 1 : InPlan(l) = Roots(l)
            /\ InPlan(GridDepth) = {cell \in Roots(GridDepth) : Fits(cell, GridDepth)}
            /\ Split = {cell \in Roots(GridDepth) : ~Fits(cell, GridDepth)}

\* A chunk is planned to fit the share of the memory that one chunk may
\* take, unless it is at the lower bound of the target or as far below the
\* grid as the planner splits.
PlanFitsBudget ==
    Planned /\ override = NoOverride => \A i \in DOMAIN chunks :
        \/ chunks[i].points * PerPointPeak * 100 <= budget * SingleChunkPercent
        \/ chunks[i].points <= MinChunkPoints
        \/ chunks[i].level = GridDepth + SplitLevelCap

\* The bounds that are compared with the headers' are those of all points as
\* they are encoded, however the files are shared out.
BoundsExact ==
    phase = "planned" /\ AllPoints # <<>> => \A a \in Axes :
        LET ends == {Encoded(AllPoints[i])[a] : i \in DOMAIN AllPoints}
        IN  /\ <<"low", a>>  \in HeaderMismatch <=> Min(ends) \notin header.low[a] - 1 .. header.low[a] + 1
            /\ <<"high", a>> \in HeaderMismatch <=> Max(ends) \notin header.high[a] - 1 .. header.high[a] + 1
=============================================================================
