-------------------------- MODULE MCPackedNodeStore --------------------------
(***************************************************************************)
(* Two threads, two keys and two lists: the empty one, which is a header   *)
(* only, and one with points.  `OnePack` makes the threads share a pack,   *)
(* as two thread indices that are equal modulo the pack count do;          *)
(* `TwoPacks` gives each its own, as the build pool does.                  *)
(***************************************************************************)
EXTENDS PackedNodeStore, TLC

CONSTANTS t1, t2, p1, p2, none, some

MCPointCount == none :> 0 @@ some :> 2
MCSize       == none :> 1 @@ some :> 2
OnePack      == t1 :> p1 @@ t2 :> p1
TwoPacks     == t1 :> p1 @@ t2 :> p2
=============================================================================
