---------------------------- MODULE MCDistribute ----------------------------
(***************************************************************************)
(* An instance of the distribute pass: four files over three workers.      *)
(* Rounding the slices up to two files leaves the last worker with none.   *)
(* The first file has four points, enough to reopen a chunk, and the last  *)
(* has one; the others are empty.                                          *)
(***************************************************************************)
EXTENDS Distribute

MixedSlices == <<4, 4, 4, 5>>
=============================================================================
