----------------------------- MODULE InputChecks -----------------------------
(***************************************************************************)
(* What the converter makes of the headers of its input files: the result  *)
(* of scanning one (src/src/octree.rs `scan`), the verdict on all of them  *)
(* (src/src/validate.rs `validate`), and the encoding of coordinates that  *)
(* is fitted to their bounds (src/src/octree.rs `from_scan`).              *)
(*                                                                         *)
(* A file is a record of what its header carries:                          *)
(*   wkt, geo      a WKT payload or NoWkt; GeoTIFF keys or NoGeo           *)
(*   extras, width an Extra Bytes payload or NoExtras; bytes per point     *)
(*   format        the point format, 0 .. 10                               *)
(*   low, high     the bounds of the points                                *)
(*   offset, scale the encoding of coordinates                             *)
(* Of the three axes, which the code treats alike and apart, there is one. *)
(* Coordinates, and the offset, are even, so that midpoints are whole.     *)
(*                                                                         *)
(* What the text of a WKT says is a constant: WktEpsg gives the codes at   *)
(* its end.  Hashes stand for what is hashed.                              *)
(***************************************************************************)
EXTENDS ExtraBytes, Lists, SequencesExt

CONSTANTS Wkts,         \* the WKT payloads that occur
          WktEpsg,      \* WKT -> its EPSG codes <<horizontal, vertical>>, or NoCode
          Registry,     \* EPSG code -> WKT, for the codes crs-definitions knows
          NoWkt, NoGeo, NoExtras, NoCode,
          Headroom,     \* I32_HEADROOM
          MaxCode       \* i32::MAX

ASSUME InputChecksAssumption ==
    /\ {NoWkt} \cap Wkts = {}
    /\ DOMAIN WktEpsg = Wkts
    /\ Headroom \in Nat \ {0} /\ MaxCode \in Nat /\ Headroom < MaxCode

\* What is assumed of a scanned file.
IsFile(file) ==
    /\ file.wkt \in Wkts \cup {NoWkt}
    /\ file.extras # NoExtras =>
          file.extras \in [whole : BOOLEAN, fields : Seq(Descriptors)]
    /\ {file.low, file.high, file.offset} \subseteq Int /\ file.scale \in Nat \ {0}

First(S, default) == IF S = {} THEN default ELSE CHOOSE i \in S : \A j \in S : i <= j

(***************************************************************************)
(* Scanning one file.                                                      *)
(***************************************************************************)
NoCrs == [kind |-> "none"]

\* A WKT wins over GeoTIFF keys; keys of an unknown model type do not count.
CrsKind(file) ==
    LET horizontal == IF file.geo = NoGeo THEN NoCode
                      ELSE CASE file.geo.model = 1 -> file.geo.projected
                             [] file.geo.model \in {2, 3} -> file.geo.geodetic
                             [] OTHER -> NoCode
    IN  IF file.wkt # NoWkt THEN [kind |-> "wkt", hash |-> file.wkt]
        ELSE IF horizontal # NoCode
             THEN [kind |-> "geo", h |-> horizontal, v |-> file.geo.vertical]
             ELSE NoCrs

\* An Extra Bytes payload that does not parse fails the scan.
Scans(file) == file.extras # NoExtras => Parses(file.extras)

(***************************************************************************)
(* Validation.  files is the sequence of inputs, never empty.              *)
(***************************************************************************)
FormatHasGpsTime(format) == format \notin {0, 2}

InputToCopcFormat(format) ==
    CASE format \in {2, 3, 5, 7} -> 7
      [] format \in {8, 10}      -> 8
      [] OTHER                   -> 6

\* A slip: only the first file's WKT counts.
CanonicalWktOfFirst(files) ==
    IF files[1].wkt # NoWkt THEN files[1].wkt
    ELSE IF CrsKind(files[1]).kind = "geo" /\ CrsKind(files[1]).h \in DOMAIN Registry
         THEN Registry[CrsKind(files[1]).h]
         ELSE NoWkt

\* The first file's WKT that has one, else one looked up for the first
\* file that has GeoTIFF codes.
CanonicalWkt(files) ==
    LET wkt == First({i \in DOMAIN files : files[i].wkt # NoWkt}, 0)
        geo == First({i \in DOMAIN files : CrsKind(files[i]).kind = "geo"}, 0)
    IN  IF wkt # 0 THEN files[wkt].wkt
        ELSE IF geo # 0 /\ CrsKind(files[geo]).h \in DOMAIN Registry
             THEN Registry[CrsKind(files[geo]).h]
             ELSE NoWkt

\* crs_kinds_compatible.  The vertical codes never decide: the code warns
\* when they differ and takes the two for equal.
CrsKindsCompatible(a, b, canonicalWkt) ==
    LET codes == WktEpsg[canonicalWkt]
        \* A GeoTIFF and a WKT are compared through the canonical WKT.
        Crosses(geo) == canonicalWkt # NoWkt /\ codes # NoCode /\ codes[1] = geo.h
    IN  CASE a.kind = "wkt" /\ b.kind = "wkt" -> a.hash = b.hash
          [] a.kind = "geo" /\ b.kind = "geo" -> a.h = b.h
          [] a.kind = "wkt" /\ b.kind = "geo" -> Crosses(b)
          [] a.kind = "geo" /\ b.kind = "wkt" -> Crosses(a)
          [] OTHER -> a = b

CrsFile(files) == First({i \in DOMAIN files : CrsKind(files[i]) # NoCrs}, 1)

\* The files on which the first pass stops, for either reason.
CrsMismatches(files) ==
    {i \in DOMAIN files \ {CrsFile(files)} :
       ~CrsKindsCompatible(CrsKind(files[CrsFile(files)]), CrsKind(files[i]),
                           CanonicalWkt(files))}

FormatMismatches(files) == {i \in DOMAIN files : files[i].format # files[1].format}

ExtrasFile(files) == First({i \in DOMAIN files : files[i].extras # NoExtras}, 1)

Schema(file) == IF file.extras = NoExtras THEN NoExtras ELSE SchemaHash(file.extras)

\* A slip: the bytes per point are not compared.
ExtrasMismatchesOfSchema(files) ==
    {i \in DOMAIN files : Schema(files[i]) # Schema(files[ExtrasFile(files)])}

ExtrasMismatches(files) ==
    {i \in DOMAIN files :
       \/ Schema(files[i]) # Schema(files[ExtrasFile(files)])
       \/ files[i].width # files[ExtrasFile(files)].width}

\* The union of the files' statistics, in the payload of the first.
MergedExtras(files) ==
    LET payloads == Concat([i \in DOMAIN files |->
                       IF files[i].extras = NoExtras THEN <<>> ELSE <<files[i].extras>>])
    IN  IF payloads = <<>> THEN NoExtras ELSE MergeStats(payloads[1], payloads)

Refused(error, a, b) == [ok |-> FALSE, error |-> error, a |-> a, b |-> b]

\* stride is the temporal index's, or NoCode when none is asked for.
Verdict(files, stride) ==
    LET crs    == First(CrsMismatches(files), Len(files) + 1)
        format == First(FormatMismatches(files), Len(files) + 1)
        extras == First(ExtrasMismatches(files), Len(files) + 1)
    IN  IF crs <= Len(files) /\ crs <= format THEN Refused("crs", CrsFile(files), crs)
        ELSE IF format <= Len(files) THEN Refused("format", 1, format)
        ELSE IF extras <= Len(files) THEN Refused("extras", ExtrasFile(files), extras)
        ELSE IF stride = 0 THEN Refused("stride", 1, 1)
        ELSE IF stride # NoCode /\ ~FormatHasGpsTime(files[1].format)
             THEN Refused("no gps time", 1, 1)
        ELSE [ok |-> TRUE, wkt |-> CanonicalWkt(files), extras |-> MergedExtras(files),
              width |-> files[ExtrasFile(files)].width,
              format |-> InputToCopcFormat(files[1].format)]

(***************************************************************************)
(* The encoding: code = round((x - offset) / scale), saturating.           *)
(***************************************************************************)
CombinedLow(files)  == CHOOSE x \in {f.low  : f \in ToSet(files)} : \A f \in ToSet(files) : x <= f.low
CombinedHigh(files) == CHOOSE x \in {f.high : f \in ToSet(files)} : \A f \in ToSet(files) : x >= f.high

Distance(x, y) == IF x < y THEN y - x ELSE x - y

\* A slip: only the upper end is looked at.
FitsAbove(offset, scale, low, high) == Distance(high, offset) <= Headroom * scale

Fits(offset, scale, low, high) ==
    Distance(low, offset) <= Headroom * scale /\ Distance(high, offset) <= Headroom * scale

FitOffset(offset, scale, low, high) ==
    IF Fits(offset, scale, low, high) THEN offset ELSE (low + high) \div 2

\* Doubled until the bounds fit.
FitScale(offset, scale, low, high) ==
    scale * Pow(2, CHOOSE k \in 0 .. Distance(low, high) :
                     /\ Fits(offset, scale * Pow(2, k), low, high)
                     /\ k > 0 => ~Fits(offset, scale * Pow(2, k - 1), low, high))

Encoding(files) ==
    LET low    == CombinedLow(files)
        high   == CombinedHigh(files)
        offset == FitOffset(files[1].offset, files[1].scale, low, high)
    IN  [offset |-> offset, scale |-> FitScale(offset, files[1].scale, low, high)]

\* Rounds half away from zero, then saturates like `as i32`.
Encode(encoding, x) ==
    LET twice   == 2 * Distance(x, encoding.offset)
        nearest == (twice + encoding.scale) \div (2 * encoding.scale)
        code    == IF x < encoding.offset THEN -nearest ELSE nearest
    IN  IF code > MaxCode THEN MaxCode ELSE IF code < -MaxCode - 1 THEN -MaxCode - 1 ELSE code

Decode(encoding, code) == code * encoding.scale + encoding.offset
=============================================================================
