--------------------------- MODULE MCChunkPlanner ---------------------------
(***************************************************************************)
(* A quadtree, with grids of two or four cells per axis and two levels     *)
(* below, on a square of 16 steps.  Up to six points are put on six spots: *)
(* two that part one and one that parts two levels below the grid, one     *)
(* that is rounded across the middle, one that is rounded out of the       *)
(* square, and one outside it.  They come in four files, of which one is   *)
(* empty and three workers leave one without any.                          *)
(***************************************************************************)
EXTENDS ChunkPlanner

Spots == <<<<0, 0>>, <<0, 4>>, <<2, 0>>, <<15, 0>>, <<31, 30>>, <<-6, 20>>>>

\* In any order: points only differ in where they are.
Placements(n) == {p \in [1 .. n -> DOMAIN Spots] : \A i \in 1 .. n - 1 : p[i] <= p[i + 1]}

InFiles(points) == [points |-> points, ends |-> <<2, 2, 3, Len(points)>>]

MCInputs ==
    {[points |-> <<>>, ends |-> <<0>>]}
    \cup UNION {{InFiles([i \in 1 .. n |-> Spots[p[i]]]) : p \in Placements(n)} : n \in {4, 6}}

MCHeaders == {[low |-> <<0, 0>>, high |-> <<8, 2>>], [low |-> <<-2, 1>>, high |-> <<15, 15>>]}

MCGridDepths == <<1, 2>>
MCTiers      == <<5>>
=============================================================================
