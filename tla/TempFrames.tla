----------------------------- MODULE TempFrames -----------------------------
(***************************************************************************)
(* How the scratch files are read (src/src/octree.rs, "Temp-file frame     *)
(* format"): a file is a sequence of batches, each a point count and its   *)
(* points, bare or as an LZ4 frame of its own.  One reader walks a file,   *)
(* by calls of `read` that give as much as is at hand, to hand the points  *)
(* over or to count them.                                                  *)
(*                                                                         *)
(* A unit <<b, j>> is the j-th of batch b's bytes, HeaderSize for the      *)
(* count and RecordSize for a point.  In a frame there are a unit for the  *)
(* frame's header, one for each block, which holds the units it decodes    *)
(* to, and one for the end mark.  A slice of a pack is cut short when its  *)
(* length does not fit the index (node_store.rs `NodeLocation`).           *)
(***************************************************************************)
EXTENDS Integers, Sequences, FiniteSetsExt, SequencesExt

CONSTANTS Sources,          \* what may be read: [sizes, sliced]
          HeaderSize,       \* of a batch's point count (4 bytes)
          RecordSize,       \* record_size
          BlockSize,        \* of an LZ4 block, decoded
          MaxPointsPerRead, \* MAX_POINTS_PER_READ
          SinkSize,         \* the buffer that counting decodes into
          LengthValues      \* values NodeLocation.byte_len has (2^32)

ASSUME FramesAssumption ==
    /\ {HeaderSize, RecordSize, BlockSize, MaxPointsPerRead, SinkSize, LengthValues}
         \subseteq Nat \ {0}
    /\ \A s \in Sources : s.sizes \in Seq(Nat) /\ s.sliced \in BOOLEAN

VARIABLES source,    \* the batches' sizes; whether it is a slice of a pack
          codec,     \* "none" or "lz4"
          purpose,   \* "points" or "count"
          rest,      \* units of the file not read yet
          framed,    \* the decoder is inside a frame
          block,     \* decoded units not yet asked for
          got,       \* units of the read_exact under way
          remaining, \* units of the payload still to be read, or AtCount
          seen,      \* points handed over
          total,     \* points counted
          status

given == <<source, codec, purpose>>
vars  == <<given, rest, framed, block, got, remaining, seen, total, status>>

AtCount == -1
Sizes   == source.sizes

(***************************************************************************)
(* Writing.                                                                *)
(***************************************************************************)
Batch(b, sizes) ==
    [j \in 1 .. HeaderSize + sizes[b] * RecordSize |-> <<b, j>>]

Frame(units) ==
    LET blocks == (Len(units) + BlockSize - 1) \div BlockSize
    IN  <<<<"magic">>>>
        \o [i \in 1 .. blocks |->
              <<"block", SubSeq(units, (i - 1) * BlockSize + 1, Min({i * BlockSize, Len(units)}))>>]
        \o <<<<"end">>>>

\* write_temp_batch for each batch; byte-wise, shards are concatenated.
Written(sizes, c) ==
    FlattenSeq([b \in DOMAIN sizes |->
                  IF c = "lz4" THEN Frame(Batch(b, sizes)) ELSE Batch(b, sizes)])

Init ==
    /\ source \in Sources
    /\ codec \in {"none", "lz4"}
    /\ purpose \in IF source.sliced THEN {"points"} ELSE {"points", "count"}
    /\ rest = LET all == Written(Sizes, codec)
              IN  IF source.sliced THEN SubSeq(all, 1, Len(all) % LengthValues) ELSE all
    /\ framed = FALSE /\ block = <<>>
    /\ got = <<>> /\ remaining = AtCount
    /\ seen = <<>> /\ total = 0
    /\ status = "reading"

(***************************************************************************)
(* One `read` of up to n units.  FrameDecoder (external) opens the next    *)
(* frame by itself, but says "nothing" at the end of each; a file that     *)
(* stops inside a frame is an error, which read_exact and the readers      *)
(* above cannot tell from a file that stops.                               *)
(***************************************************************************)
Reader == [rest |-> rest, framed |-> framed, block |-> block, units |-> <<>>]

Take(r, n, pending) ==
    LET k == Min({n, Len(pending)})
    IN  [r EXCEPT !.units = SubSeq(pending, 1, k), !.block = SubSeq(pending, k + 1, Len(pending))]

FrameDecoderRead(r, n) ==
    LET opened == ~r.framed /\ r.rest # <<>>
        left   == IF opened THEN Tail(r.rest) ELSE r.rest
    IN  IF r.block # <<>> THEN Take(r, n, r.block)
        ELSE IF left = <<>> THEN [r EXCEPT !.rest = <<>>, !.framed = opened \/ @]
        ELSE IF Head(left)[1] = "end" THEN [r EXCEPT !.rest = Tail(left), !.framed = FALSE]
        ELSE Take([r EXCEPT !.rest = Tail(left), !.framed = TRUE], n, Head(left)[2])

\* A slip: the end of a frame is the end of the file.
OneFrameRead(n) == FrameDecoderRead(Reader, n)

MultiFrameRead(n) ==
    LET first == FrameDecoderRead(Reader, n)
    IN  IF first.units = <<>> THEN FrameDecoderRead(first, n) ELSE first

PlainRead(n) ==
    LET k == Min({n, Len(rest)})
    IN  [Reader EXCEPT !.units = SubSeq(rest, 1, k), !.rest = SubSeq(rest, k + 1, Len(rest))]

(***************************************************************************)
(* Reading the batches.                                                    *)
(***************************************************************************)
\* Units of one read_exact: of the count, of as many points as the buffer
\* takes, or of the sink that counting decodes a payload into.
Need ==
    IF remaining = AtCount THEN HeaderSize
    ELSE Min({remaining, IF purpose = "points" THEN MaxPointsPerRead * RecordSize ELSE SinkSize})

\* A slip: a payload that stops is the end of the file, as a count is.
AtEndAnywhere == "done"

\* A slip: a file that stops is asked again.
AtEndAgain == IF remaining = AtCount THEN "reading" ELSE "error"

\* read_exact found too little.
AtEnd == IF remaining = AtCount THEN "done" ELSE "error"

Read ==
    /\ status = "reading" /\ Len(got) < Need
    /\ remaining = AtCount \/ purpose = "points" \/ codec = "lz4"
    /\ LET n == Need - Len(got)
           r == IF codec = "lz4" THEN MultiFrameRead(n) ELSE PlainRead(n)
       IN  /\ rest' = r.rest /\ framed' = r.framed /\ block' = r.block
           /\ got' = got \o r.units
           /\ status' = IF r.units = <<>> THEN AtEnd ELSE status
    /\ UNCHANGED <<given, remaining, seen, total>>

HaveRead == status = "reading" /\ Len(got) = Need

\* After a payload the next count.
Left(units) == IF units = 0 THEN AtCount ELSE units

TakeCount ==
    /\ HaveRead /\ remaining = AtCount
    /\ LET count == Sizes[got[1][1]]
       IN  /\ remaining' = Left(count * RecordSize)
           /\ total' = total + count
    /\ got' = <<>>
    /\ UNCHANGED <<given, rest, framed, block, seen, status>>

\* The points are handed over as they are decoded.
TakePoints ==
    /\ HaveRead /\ purpose = "points" /\ remaining # AtCount
    /\ seen' = seen \o [i \in 1 .. Need \div RecordSize |->
                          SubSeq(got, (i - 1) * RecordSize + 1, i * RecordSize)]
    /\ remaining' = Left(remaining - Need)
    /\ got' = <<>>
    /\ UNCHANGED <<given, rest, framed, block, total, status>>

\* Counting decodes a compressed payload only to get past it ...
Drain ==
    /\ HaveRead /\ purpose = "count" /\ codec = "lz4" /\ remaining # AtCount
    /\ remaining' = Left(remaining - Need)
    /\ got' = <<>>
    /\ UNCHANGED <<given, rest, framed, block, seen, total, status>>

\* ... and gets past a bare one by a seek, which may go beyond the end.
SeekPast ==
    /\ status = "reading" /\ purpose = "count" /\ codec = "none" /\ remaining # AtCount
    /\ rest' = SubSeq(rest, remaining + 1, Len(rest))
    /\ remaining' = AtCount
    /\ UNCHANGED <<given, framed, block, got, seen, total, status>>

Ended == status # "reading" /\ UNCHANGED vars

Step == Read \/ TakeCount \/ TakePoints \/ Drain \/ SeekPast

Next == Step \/ Ended

\* The thread that reads is not stopped.
Spec == Init /\ [][Next]_vars /\ WF_vars(Step)

(***************************************************************************)
(* Properties.                                                             *)
(***************************************************************************)
TypeOK ==
    /\ status \in {"reading", "done", "error"}
    /\ framed \in BOOLEAN
    /\ remaining = AtCount \/ remaining \in Nat \ {0}
    /\ Len(got) <= Need /\ Len(block) <= BlockSize
    /\ total \in Nat

\* The points of the first n batches, each from the units written for it.
PointsOf(n) ==
    FlattenSeq([b \in 1 .. n |->
       [i \in 1 .. Sizes[b] |->
          [k \in 1 .. RecordSize |-> <<b, HeaderSize + (i - 1) * RecordSize + k>>]]])

Whole == ~source.sliced \/ Len(Written(Sizes, codec)) < LengthValues

\* "Read every batch in a reader to EOF": of a whole file every point is
\* handed over or counted once, in order, past the end of each frame and
\* past batches without points, and reading it does not fail.
AllRead ==
    Whole => /\ status # "error"
             /\ status = "done" /\ purpose = "points" => seen = PointsOf(Len(Sizes))
             /\ status = "done" => total = FoldLeft(LAMBDA n, size : n + size, 0, Sizes)

\* A file that is cut short is taken for a shorter one only at a batch: the
\* reader never ends well on a part of a batch's points.  (That it may end
\* well on fewer batches is how the format ends.)  The state is of its type.
WholeBatches ==
    /\ TypeOK
    /\ status = "done" /\ purpose = "points" => \E n \in 0 .. Len(Sizes) : seen = PointsOf(n)

\* Probing for another frame ends: a reader is not left waiting on a file
\* that has stopped, wherever it stopped.
ReaderEnds == <>(status # "reading")
=============================================================================
