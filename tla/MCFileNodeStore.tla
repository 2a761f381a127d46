--------------------------- MODULE MCFileNodeStore ---------------------------
(***************************************************************************)
(* Two threads, two keys and three lists: the empty one and two with       *)
(* points, one longer than the other, so that an overwrite may have to     *)
(* shorten the file.                                                       *)
(***************************************************************************)
EXTENDS FileNodeStore, TLC

CONSTANTS none, short, long

MCPointCount == none :> 0 @@ short :> 1 @@ long :> 2
MCSize       == none :> 1 @@ short :> 2 @@ long :> 3
=============================================================================
