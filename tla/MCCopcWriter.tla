----------------------------- MODULE MCCopcWriter -----------------------------
(***************************************************************************)
(* Node lists for the writer.  A list is given by some of its keys, which  *)
(* get points, and has all their ancestors, which get a point when their   *)
(* level is a multiple of `thinning`: empty nodes in between are what the  *)
(* merge leaves behind.  Some lists have points of no GPS time, some have  *)
(* none but points before time 0.                                          *)
(***************************************************************************)
EXTENDS CopcWriter

p1 == [gps |-> 4, ret |-> 1]
p2 == [gps |-> -1, ret |-> 2]
p3 == [gps |-> -9, ret |-> 0]
p4 == [gps |-> 6, ret |-> 1]
p5 == [gps |-> NaN, ret |-> 1]

Single    == {<<p1>>, <<p4, p2>>}
OneOrMore == {<<p3>>, <<p4, p2>>, <<p1, p3, p2>>}
NotTimed  == {<<p1>>, <<p5>>, <<p5, p2>>, <<p4, p5, p2>>}

MCChunkSize == <<5, 8, 6>>

AncestorsOf(S) == {AncestorAt(k, l) : k \in S, l \in 0 .. 7}

\* At most n of the leaves, with one of the point lists each; the ancestors
\* at every thinning-th level have a point.
NodeListsOf(leaves, n, pointLists, thinning) ==
    UNION {{[k \in AncestorsOf(S) |->
               IF k \in S THEN f[k]
               ELSE IF k[1] % thinning = 0 THEN <<p3>> ELSE <<>>] :
              f \in [S -> pointLists]} :
             S \in {S \in SUBSET leaves : Cardinality(S) <= n}}

\* Levels just above, at and below the boundaries, and both ends of a level.
DeepLeaves    == {<<7, 0>>, <<7, 127>>, <<6, 1>>, <<5, 31>>, <<4, 1>>, <<3, 0>>, <<2, 2>>}
ShallowLeaves == {<<1, 0>>, <<2, 1>>, <<2, 3>>, <<0, 0>>}

MCNodeLists == NodeListsOf(DeepLeaves, 3, Single, 3)
               \cup NodeListsOf(ShallowLeaves, 4, OneOrMore, 2)
               \cup NodeListsOf({<<7, 0>>, <<4, 1>>}, 2, NotTimed, 3)
               \cup NodeListsOf({<<0, 0>>, <<1, 0>>, <<1, 1>>}, 3, NotTimed, 1)
=============================================================================
