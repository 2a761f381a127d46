------------------------------- MODULE Lists -------------------------------
(***************************************************************************)
(* Recursion over numbers and lists, as functions of how far it has come,  *)
(* which TLC evaluates and about which facts can be proved.                *)
(***************************************************************************)
EXTENDS Integers, Sequences

\* n to the power of d.
Pow(n, d) ==
    LET Upto[i \in 0 .. d] == IF i = 0 THEN 1 ELSE n * Upto[i - 1]
    IN  Upto[d]

\* The last of the sums of the prefixes.
SumOf(numbers) ==
    LET Upto[n \in 0 .. Len(numbers)] == IF n = 0 THEN 0 ELSE Upto[n - 1] + numbers[n]
    IN  Upto[Len(numbers)]

\* The lists of a list, one behind the other.
Concat(lists) ==
    LET Upto[n \in 0 .. Len(lists)] == IF n = 0 THEN <<>> ELSE Upto[n - 1] \o lists[n]
    IN  Upto[Len(lists)]
=============================================================================
