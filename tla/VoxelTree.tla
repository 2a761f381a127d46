------------------------------ MODULE VoxelTree ------------------------------
(***************************************************************************)
(* The octree the points are sorted into, and the two pure algorithms of   *)
(* the build: how deep a subtree starts, and the grid sampling of a parent *)
(* (src/src/octree.rs `chunk_local_extra_levels`, `grid_sample`;           *)
(* src/src/copc_types.rs `VoxelKey::parent`).                              *)
(*                                                                         *)
(* A voxel key is the path of octants from the root to it: halving the     *)
(* coordinates (`parent`) drops the last octant, and `point_to_key` at a   *)
(* depth is the prefix of that length of the point's own path, because it  *)
(* decides one octant per level whatever the depth asked for.  A position  *)
(* is a path of length Depth; points with the same one coincide.           *)
(*                                                                         *)
(* Points are numbered in Morton order, so `p < q` is the order in which   *)
(* grid_sample visits them, ties included.                                 *)
(***************************************************************************)
EXTENDS Naturals, Sequences, FiniteSets

CONSTANTS Points,       \* the points of the input, by Morton order
          Octants,      \* the children of a voxel, in Morton order
          Depth,        \* levels that still tell positions apart
          Positions,    \* the positions that occur
          MaxLeaf,      \* MAX_LEAF_POINTS
          GridBits,     \* log2 of the sampling grid: cells are this much deeper
          GridPos       \* where the sampling grid sees each position

Arity == Cardinality(Octants)

ASSUME VoxelTreeAssumption ==
    /\ Points \subseteq Nat /\ IsFiniteSet(Points)
    /\ Octants \subseteq Nat /\ IsFiniteSet(Octants)
    /\ Depth \in Nat
    /\ Positions \subseteq [1 .. Depth -> Octants] /\ Positions # {}
    /\ MaxLeaf \in Nat
    /\ Arity \in 1 .. MaxLeaf
    /\ GridBits \in Nat \ {0}
    /\ GridPos \in [Positions -> Positions]

Prefix(path, n) == [i \in 1 .. n |-> path[i]]

Level(key)       == Len(key)
Parent(key)      == Prefix(key, Len(key) - 1)
KeyAt(path, lvl) == Prefix(path, lvl)
IsUnder(key, root) == Len(root) <= Len(key) /\ Prefix(key, Len(root)) = root

Root == <<>>
Keys == {KeyAt(path, lvl) : path \in Positions, lvl \in 0 .. Depth}

\* A function that is false or empty everywhere but where S says.
NoPoints == [k \in Keys |-> {}]

\* chunk_local_extra_levels: one level more as long as leaves of the average size
\* do not fit, in floating point there and exactly here, but at most 13.
ExtraLevels(n) ==
    LET Grown == [d \in 0 .. 13 |-> IF n > MaxLeaf * Arity^d THEN d + 1 ELSE d]
        After[i \in 0 .. 13] == IF i = 0 THEN 0 ELSE Grown[After[i - 1]]
    IN  After[13]

-----------------------------------------------------------------------------
(* grid_sample: `got` holds the points gathered from each child             *)

Gathered(got) == UNION {got[c] : c \in DOMAIN got}

\* The cell of the parent's sampling grid that a position falls into.  The grid
\* is laid over rounded integer coordinates, point_to_key halves floating-point
\* ones: a position on a boundary may be seen on its other side, but never
\* outside the parent, because the cell index is clamped.
Cell(parent, path) ==
    LET fine == Len(parent) + GridBits
        seen == IF IsUnder(GridPos[path], parent) THEN GridPos[path] ELSE path
    IN  Prefix(seen, IF fine <= Depth THEN fine ELSE Depth)

\* The first point of each occupied cell.
Accepted(parent, pos, pts) ==
    {p \in pts : \A q \in pts :
        Cell(parent, pos[q]) = Cell(parent, pos[p]) => p <= q}

\* A child that has no point left gets the last of its accepted points back.
GivenBack(parent, pos, got) ==
    LET accepted == Accepted(parent, pos, Gathered(got))
    IN  UNION {{p \in got[c] : \A q \in got[c] : q <= p} :
                 c \in {c \in DOMAIN got : got[c] \subseteq accepted}}

Collapses(got) == Cardinality(Gathered(got)) <= MaxLeaf

\* A slip: the point given back is not taken from the parent.
SampledAndGivenBack(parent, pos, got) ==
    IF Collapses(got)
    THEN Gathered(got) ELSE Accepted(parent, pos, Gathered(got))

\* What the parent keeps ...
Sampled(parent, pos, got) ==
    IF Collapses(got)
    THEN Gathered(got)
    ELSE Accepted(parent, pos, Gathered(got)) \ GivenBack(parent, pos, got)

\* A slip: the remaining points are paired with the wrong child.
RemainingOfSibling(parent, pos, got, c) ==
    LET others  == {d \in DOMAIN got : d # c /\ got[d] # {}}
        sibling == IF others = {} THEN c ELSE CHOOSE d \in others : TRUE
    IN  got[sibling] \ Sampled(parent, pos, got)

\* ... and what goes back to each child.
Remaining(parent, pos, got, c) ==
    IF Collapses(got)
    THEN {}
    ELSE (got[c] \ Accepted(parent, pos, Gathered(got)))
            \cup (got[c] \cap GivenBack(parent, pos, got))
=============================================================================
