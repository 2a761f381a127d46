----------------------------- MODULE ExtraBytes -----------------------------
(***************************************************************************)
(* The Extra Bytes VLR (src/src/extra_bytes.rs): what is parsed of each    *)
(* file's descriptors, what of them must agree between files, and the      *)
(* merge of the per-file minimum and maximum into the one VLR that is      *)
(* written.                                                                *)
(*                                                                         *)
(* A statistic is a slot of 2 * HalfRange bit patterns (64 bits in the     *)
(* code), numbered as an unsigned integer reads them.  Name, description,  *)
(* scale, offset and no_data value are one value, `shape`: they are only   *)
(* ever compared.                                                          *)
(***************************************************************************)
EXTENDS Integers, Sequences

CONSTANTS Axes,         \* slots of a statistic; 3 in the format
          HalfRange,    \* half the number of bit patterns of a slot
          Shapes,       \* what else descriptors may say
          FloatOf,      \* bit pattern -> the number a double of it stands for
          WholeDoubles  \* the whole numbers a double can be, as far as slots go

\* Beyond every number a slot can hold, like the code's fold initializers.
Infinity == 2 * HalfRange + 1
NaN      == 2 * HalfRange + 2

Finite(x) == -Infinity < x /\ x < Infinity

\* `<` of two doubles: false when either is not a number.
Less(x, y) == x # NaN /\ y # NaN /\ x < y

Patterns == 0 .. 2 * HalfRange - 1

ASSUME ExtraBytesAssumption ==
    /\ Axes \in Nat \ {0}
    /\ HalfRange \in Nat \ {0}
    /\ FloatOf \in [Patterns -> -Infinity .. NaN]
    /\ WholeDoubles \subseteq -2 * HalfRange .. 2 * HalfRange
    /\ {-2 * HalfRange, 0, 2 * HalfRange} \subseteq WholeDoubles

\* "raw" stands for the undocumented types, whose slots have no meaning.
Types == {"unsigned", "signed", "float", "raw"}

\* An integer `as f64`: the nearest whole number that a double can be; half way
\* between two of them it is the one with the even mantissa.
AsDouble(n) ==
    LET below == CHOOSE d \in WholeDoubles : d <= n /\ \A e \in WholeDoubles : e <= n => e <= d
        above == CHOOSE d \in WholeDoubles : n <= d /\ \A e \in WholeDoubles : n <= e => d <= e
    IN  IF n - below < above - n THEN below
        ELSE IF n - below > above - n THEN above
        ELSE IF below = above \/ below % (2 * (above - below)) = 0 THEN below
        ELSE above

AnytypeToF64(type, raw) ==
    CASE type = "unsigned" -> AsDouble(raw)
      [] type = "signed"   -> AsDouble(IF raw < HalfRange THEN raw ELSE raw - 2 * HalfRange)
      [] type = "float"    -> FloatOf[raw]
      [] type = "raw"      -> NaN

\* Back into a slot, saturating.  What was rounded on the way in stays so.
F64ToAnytype(type, value) ==
    CASE type = "unsigned" -> IF value < 0 \/ value = NaN THEN 0
                              ELSE IF value \in Patterns THEN value ELSE 2 * HalfRange - 1
      [] type = "signed"   -> IF value = NaN THEN 0
                              ELSE IF value >= HalfRange THEN HalfRange - 1
                              ELSE IF value < -HalfRange THEN HalfRange
                              ELSE value % (2 * HalfRange)
      [] type = "float"    -> IF \E raw \in Patterns : FloatOf[raw] = value
                              THEN CHOOSE raw \in Patterns : FloatOf[raw] = value
                              ELSE 0
      [] type = "raw"      -> 0

StatBits       == {"no_data", "min", "max"}
StructuralBits == {"scale", "offset"}

StatMask(type) == IF type = "raw" THEN {"no_data"} ELSE StatBits

\* One field of a payload.
Descriptors ==
    [type : Types, shape : Shapes, options : SUBSET (StatBits \cup StructuralBits),
     min : [1 .. Axes -> Patterns], max : [1 .. Axes -> Patterns]]

(***************************************************************************)
(* A payload is the sequence of its descriptors, and whether its length is *)
(* a multiple of theirs.  Parsing splits a descriptor into what must agree *)
(* and what is merged.                                                     *)
(***************************************************************************)
Parses(payload) == payload.whole

FieldSchema(d) == [type |-> d.type, shape |-> d.shape,
                   options |-> d.options \cap StructuralBits]

FieldStats(d) ==
    [options |-> d.options \cap StatMask(d.type),
     min |-> [a \in 1 .. Axes |-> AnytypeToF64(d.type, d.min[a])],
     max |-> [a \in 1 .. Axes |-> AnytypeToF64(d.type, d.max[a])]]

\* schema_hash: collisions aside, equal exactly when these are.
SchemaHash(payload) == [i \in DOMAIN payload.fields |-> FieldSchema(payload.fields[i])]

(***************************************************************************)
(* merge_stats_into_canonical, for one field: stats are those of each file *)
(* that has extra bytes, in the order of the files.                        *)
(***************************************************************************)
NothingFolded(start) == [value |-> start, folded |-> FALSE]

\* A slip: whatever is flagged counts as folded.
FoldMinUnguarded(acc, x) ==
    [value |-> IF Less(x, acc.value) THEN x ELSE acc.value, folded |-> TRUE]

FoldMin(acc, x) ==
    IF ~Finite(x) THEN acc
    ELSE [value |-> IF Less(x, acc.value) THEN x ELSE acc.value, folded |-> TRUE]

FoldMax(acc, x) ==
    IF ~Finite(x) THEN acc
    ELSE [value |-> IF Less(acc.value, x) THEN x ELSE acc.value, folded |-> TRUE]

MergedMin(stats, a) ==
    LET Upto[n \in 0 .. Len(stats)] ==
          IF n = 0 THEN NothingFolded(Infinity)
          ELSE IF "min" \in stats[n].options THEN FoldMin(Upto[n - 1], stats[n].min[a])
          ELSE Upto[n - 1]
    IN  Upto[Len(stats)]

MergedMax(stats, a) ==
    LET Upto[n \in 0 .. Len(stats)] ==
          IF n = 0 THEN NothingFolded(-Infinity)
          ELSE IF "max" \in stats[n].options THEN FoldMax(Upto[n - 1], stats[n].max[a])
          ELSE Upto[n - 1]
    IN  Upto[Len(stats)]

Slot(type, merged) == IF merged.folded THEN F64ToAnytype(type, merged.value) ELSE 0

\* The stat bits are decided by the first axis.
MergedField(d, stats) ==
    LET anyMin == MergedMin(stats, 1).folded
        anyMax == MergedMax(stats, 1).folded
    IN  [d EXCEPT
           !.options = (@ \cap StructuralBits)
                       \cup {b \in {"no_data"} : \E i \in DOMAIN stats : b \in stats[i].options}
                       \cup {b \in {"min"} : anyMin} \cup {b \in {"max"} : anyMax},
           !.min = IF anyMin THEN [a \in 1 .. Axes |-> Slot(d.type, MergedMin(stats, a))] ELSE @,
           !.max = IF anyMax THEN [a \in 1 .. Axes |-> Slot(d.type, MergedMax(stats, a))] ELSE @]

MergeStats(canonical, payloads) ==
    [canonical EXCEPT
       !.fields = [i \in DOMAIN @ |->
                     MergedField(@[i], [f \in DOMAIN payloads |->
                                          FieldStats(payloads[f].fields[i])])]]
=============================================================================
