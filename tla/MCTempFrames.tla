---------------------------- MODULE MCTempFrames ----------------------------
(***************************************************************************)
(* Chunk and node files of up to three batches of up to four points, some  *)
(* of none, and slices of a pack of one batch of up to nine points.  A     *)
(* count takes two units and a point two, a block three, so that points    *)
(* lie across blocks and a batch may fill its blocks exactly.  A length    *)
(* has five values, so that slices are cut in the count, after it, in the  *)
(* points, inside a frame at each of these, or away.                       *)
(***************************************************************************)
EXTENDS TempFrames

MCSources ==
    [sizes : UNION {[1 .. n -> 0 .. 4] : n \in 0 .. 3}, sliced : {FALSE}]
    \cup [sizes : [1 .. 1 -> 0 .. 9], sliced : {TRUE}]
=============================================================================
