---------------------------- MODULE MCOctreeBuild ----------------------------
(***************************************************************************)
(* A binary tree stands for the octree.  Positions differ in their first   *)
(* Resolution octants; the levels below only part a leaf from its parent,  *)
(* so that leaves may start, and coincident points be divided, deeper than *)
(* any two positions differ.                                               *)
(***************************************************************************)
EXTENDS OctreeBuild

CONSTANTS Resolution

MCPositions == {[i \in 1 .. Depth |-> IF i <= Resolution THEN path[i] ELSE 1] :
                  path \in [1 .. Resolution -> Octants]}

\* The grid sees every position where it is ...
ExactGrid == [path \in MCPositions |-> path]

\* ... or the lowest position of the voxel <<1, 2>> in the voxel before it.
RoundedGrid ==
    [path \in MCPositions |->
       IF \A i \in 1 .. Depth : path[i] = (IF i = 2 THEN 2 ELSE 1)
       THEN CHOOSE low \in MCPositions :
                /\ Before(low, path) /\ low # path
                /\ \A q \in MCPositions :
                      q # path /\ Before(q, path) => Before(q, low)
       ELSE path]

Halves  == {<<1>>, <<2>>}
Uneven  == {<<1, 1>>, <<1, 2>>, <<2>>}

PlansHalves == {Halves}
PlansMixed  == {{<<>>}, Uneven}
=============================================================================
