----------------------------- MODULE MCPipeline -----------------------------
(***************************************************************************)
(* Instances of Pipeline.  One conversion is given every combination of    *)
(* three files that differ in their CRS, or in the statistics of their     *)
(* extra bytes, and some that differ in the rest of the header.  Three     *)
(* conversions that share a temporary directory are given the same files.  *)
(***************************************************************************)
EXTENDS Pipeline

\* Slots of four bits: 0..15 unsigned, -8..7 signed, of which doubles with a
\* mantissa of two bits are these.
MCWholeDoubles == {m * e : m \in -4 .. 4, e \in {1, 2, 4}}

\* As doubles they are numbers, an infinity and a NaN.
MCFloatOf ==
    [raw \in 0 .. 15 |->
       <<0, 1, 2, 3, 5, 6, 10, 16, -1, -2, -3, -4, -6, -16, Infinity, NaN>>[raw + 1]]

CONSTANTS A,    \* horizontal code 1
          B,    \* horizontal code 1 in other words
          C,    \* horizontal code 2
          D     \* no code

MCWkts     == {A, B, C, D}
MCWktEpsg  == [w \in MCWkts |->
                 IF w = D THEN NoCode ELSE IF w = C THEN <<2, NoCode>> ELSE <<1, NoCode>>]
MCRegistry == [h \in {1} |-> A]

Geo(model, h, v) ==
    [model |-> model, projected |-> IF model = 1 THEN h ELSE NoCode,
     geodetic |-> IF model = 2 THEN h ELSE NoCode, vertical |-> v]

Plain == [wkt |-> NoWkt, geo |-> NoGeo, extras |-> NoExtras, width |-> 0, format |-> 1,
          low |-> 0, high |-> 4, offset |-> 0, scale |-> 1]

WithCrs ==
    {Plain} \cup {[Plain EXCEPT !.wkt = w] : w \in MCWkts}
            \cup {[Plain EXCEPT !.geo = g] :
                    g \in {Geo(1, 1, NoCode), Geo(2, 1, 5), Geo(1, 2, NoCode)}}

Extras(type, shape, options, min, max) ==
    [whole |-> TRUE, fields |-> <<[type |-> type, shape |-> shape, options |-> options,
                                   min |-> <<min, 0>>, max |-> <<max, min>>]>>]

WithExtras(type) ==
    {[Plain EXCEPT !.width = 2, !.extras = Extras(type, "s", o, m[1], m[2])] :
        o \in {{"min", "max", "offset"}, {"max", "no_data", "offset"}},
        m \in {<<5, 10>>, <<9, 7>>, <<15, 14>>}}

Others ==
    {Plain,
     [Plain EXCEPT !.format = 0],
     [Plain EXCEPT !.format = 0, !.wkt = A],
     [Plain EXCEPT !.low = 40, !.high = 44, !.offset = 40],
     [Plain EXCEPT !.low = -20, !.high = 0, !.offset = -20, !.scale = 2],
     [Plain EXCEPT !.width = 1],
     [Plain EXCEPT !.extras = Extras("signed", "s", {}, 0, 0)],
     [Plain EXCEPT !.extras = Extras("signed", "t", {}, 0, 0)],
     [Plain EXCEPT !.extras = Extras("signed", "s", {"scale"}, 0, 0)],
     [Plain EXCEPT !.extras = [whole |-> FALSE, fields |-> <<>>]]}

FileLists(S, n) == [1 .. n -> S]

MixedLists == FileLists(WithCrs, 3) \cup UNION {FileLists(WithExtras(t), 3) : t \in Types}
              \cup FileLists(Others, 1) \cup FileLists(Others, 2)

CrsLists == FileLists(WithCrs, 3)

PlainList == {<<Plain>>}

SameHost   == [r \in Runs |-> 1]

OneMixed == [r \in Runs |-> MixedLists]
OneCrs   == [r \in Runs |-> CrsLists]
AllPlain == [r \in Runs |-> PlainList]
=============================================================================
