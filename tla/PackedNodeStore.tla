--------------------------- MODULE PackedNodeStore ---------------------------
(***************************************************************************)
(* `PackedNodeStore` (src/src/node_store.rs): a few append-only pack files *)
(* and an index from voxel key to the byte range of its latest list.       *)
(*                                                                         *)
(* A list v is serialised to Size[v] units; the unit <<v, i>> stands for   *)
(* the i-th piece of v, so bytes of two lists can never be confused.       *)
(* stream[p] is every unit handed to the BufWriter of pack p and           *)
(* flushed[p] how many of them have reached the file: BufWriter may push   *)
(* out any prefix of its buffer during a write_all, and all of it on       *)
(* flush.  The file is read without the pack's mutex, up to flushed[p].    *)
(* The critical section of `write` is one step: every access to the writer *)
(* and to the cursor is under the pack's mutex.                            *)
(***************************************************************************)
EXTENDS Naturals, Sequences

CONSTANTS Threads, Keys, Values, Empty, PointCount,
          Size,        \* serialised length of each list (never 0: a header)
          Packs,       \* pack files
          PackOf,      \* thread -> its pack: thread index modulo pack count
          MaxUnits     \* bound: no write begins on a pack this long

ASSUME PackedAssumption ==
    /\ Empty \in Values
    /\ PointCount \in [Values -> Nat]
    /\ PointCount[Empty] = 0
    /\ Size \in [Values -> Nat \ {0}]
    /\ PackOf \in [Threads -> Packs]
    /\ MaxUnits \in Nat

VARIABLES stream,      \* per pack, the units handed to its writer
          flushed,     \* per pack, how many of them are in the file
          cursor,      \* per pack, `pack_offsets`: where the next list goes
          index,       \* key -> location, for the keys written so far
          op,          \* the call each thread is in
          result,      \* the last answer given, and the thread that got it
          torn,        \* history: per pack, the cursors at which a write_all failed
          written      \* history: the list last published under each key

vars == <<stream, flushed, cursor, index, op, result, torn, written>>

NoCall     == [kind |-> "none"]
NoResult   == [kind |-> "none"]
NoLocation == [kind |-> "none"]

Locations == [pack : Packs, offset : Nat, len : Nat, count : Nat]

Ops == {NoCall}
    \cup [kind : {"append"}, key : Keys, val : Values]
    \cup [kind : {"publish"}, key : Keys, val : Values, loc : Locations]
    \cup [kind : {"absent"}, key : Keys, promised : Values]
    \cup [kind : {"flush", "fetch"}, key : Keys, promised : Values,
          loc : Locations]

TypeOK ==
    /\ stream \in [Packs -> Seq(Values \X (Nat \ {0}))]
    /\ flushed \in [Packs -> Nat]
    /\ cursor \in [Packs -> Nat]
    /\ index \in [Keys -> Locations \cup {NoLocation}]
    /\ op \in [Threads -> Ops]
    /\ torn \in [Packs -> SUBSET Nat]
    /\ written \in [Keys -> Values]

Init ==
    /\ stream = [p \in Packs |-> <<>>]
    /\ flushed = [p \in Packs |-> 0]
    /\ cursor = [p \in Packs |-> 0]
    /\ index = [k \in Keys |-> NoLocation]
    /\ op = [t \in Threads |-> NoCall]
    /\ result = NoResult
    /\ torn = [p \in Packs |-> {}]
    /\ written = [k \in Keys |-> Empty]

Points(v) == [kind |-> "points", val |-> v]

Bytes(v) == [i \in 1..Size[v] |-> <<v, i>>]

-----------------------------------------------------------------------------
(* write                                                                   *)

\* The points are serialised before any lock is taken.
BeginWrite(t, k, v) ==
    /\ op[t] = NoCall
    /\ Len(stream[PackOf[t]]) < MaxUnits
    /\ op' = [op EXCEPT ![t] = [kind |-> "append", key |-> k, val |-> v]]
    /\ UNCHANGED <<stream, flushed, cursor, index, result, torn, written>>

\* A slip: the location is made after the cursor has moved.
AppendThenLocate(t) ==
    LET p == PackOf[t]
        v == op[t].val
    IN  /\ op[t].kind = "append"
        /\ stream' = [stream EXCEPT ![p] = @ \o Bytes(v)]
        /\ UNCHANGED flushed
        /\ cursor' = [cursor EXCEPT ![p] = @ + Size[v]]
        /\ op' = [op EXCEPT ![t] =
             [kind |-> "publish", key |-> op[t].key, val |-> v,
              loc |-> [pack |-> p, offset |-> cursor[p] + Size[v],
                       len |-> Size[v], count |-> PointCount[v]]]]
        /\ UNCHANGED <<index, result, torn, written>>

\* Under the mutex: capture the cursor, write_all, advance the cursor.
AppendToPack(t) ==
    LET p == PackOf[t]
        v == op[t].val
    IN  /\ op[t].kind = "append"
        /\ stream' = [stream EXCEPT ![p] = @ \o Bytes(v)]
        /\ \E n \in flushed[p] .. (Len(stream[p]) + Size[v]) :
              flushed' = [flushed EXCEPT ![p] = n]
        /\ cursor' = [cursor EXCEPT ![p] = @ + Size[v]]
        /\ op' = [op EXCEPT ![t] =
             [kind |-> "publish", key |-> op[t].key, val |-> v,
              loc |-> [pack |-> p, offset |-> cursor[p],
                       len |-> Size[v], count |-> PointCount[v]]]]
        /\ UNCHANGED <<index, result, torn, written>>

\* write_all fails part way: some of the bytes were taken, the cursor was not
\* advanced, the error goes to the caller and nothing is published.
AppendFails(t) ==
    LET p == PackOf[t]
        v == op[t].val
    IN  /\ op[t].kind = "append"
        /\ \E m \in 0 .. Size[v] :
              /\ stream' = [stream EXCEPT ![p] = @ \o SubSeq(Bytes(v), 1, m)]
              /\ \E n \in flushed[p] .. (Len(stream[p]) + m) :
                    flushed' = [flushed EXCEPT ![p] = n]
        /\ torn' = [torn EXCEPT ![p] = @ \cup {cursor[p]}]
        /\ op' = [op EXCEPT ![t] = NoCall]
        /\ UNCHANGED <<cursor, index, result, written>>

\* Outside the mutex: the index entry makes the list visible.
InsertIndex(t) ==
    /\ op[t].kind = "publish"
    /\ index' = [index EXCEPT ![op[t].key] = op[t].loc]
    /\ written' = [written EXCEPT ![op[t].key] = op[t].val]
    /\ op' = [op EXCEPT ![t] = NoCall]
    /\ UNCHANGED <<stream, flushed, cursor, result, torn>>

-----------------------------------------------------------------------------
(* read and count                                                          *)

\* index.get: a miss will return the empty list, a hit copies the location.
LookUp(t, k) ==
    /\ op[t] = NoCall
    /\ op' = [op EXCEPT ![t] =
         IF index[k] = NoLocation
         THEN [kind |-> "absent", key |-> k, promised |-> written[k]]
         ELSE [kind |-> "flush", key |-> k, promised |-> written[k],
               loc |-> index[k]]]
    /\ UNCHANGED <<stream, flushed, cursor, index, result, torn, written>>

ReturnEmpty(t) ==
    /\ op[t].kind = "absent"
    /\ result' = [thread |-> t, answer |-> Points(Empty)]
    /\ op' = [op EXCEPT ![t] = NoCall]
    /\ UNCHANGED <<stream, flushed, cursor, index, torn, written>>

\* A slip: the reader flushes its own pack.
FlushOwnPack(t) ==
    LET p == PackOf[t]
    IN  /\ op[t].kind = "flush"
        /\ flushed' = [flushed EXCEPT ![p] = Len(stream[p])]
        /\ op' = [op EXCEPT ![t] = [@ EXCEPT !.kind = "fetch"]]
        /\ UNCHANGED <<stream, cursor, index, result, torn, written>>

\* A slip: the buffer is left to be written when it is full.
FlushNothing(t) ==
    /\ op[t].kind = "flush"
    /\ op' = [op EXCEPT ![t] = [@ EXCEPT !.kind = "fetch"]]
    /\ UNCHANGED <<stream, flushed, cursor, index, result, torn, written>>

\* Under the mutex of the located pack: push the whole buffer to the file.
FlushPack(t) ==
    LET p == op[t].loc.pack
    IN  /\ op[t].kind = "flush"
        /\ flushed' = [flushed EXCEPT ![p] = Len(stream[p])]
        /\ op' = [op EXCEPT ![t] = [@ EXCEPT !.kind = "fetch"]]
        /\ UNCHANGED <<stream, cursor, index, result, torn, written>>

\* What the file holds at a location: it is cut short at the end of the file.
FileBytes(loc) ==
    LET end == loc.offset + loc.len
    IN  SubSeq(stream[loc.pack], loc.offset + 1,
               IF end <= flushed[loc.pack] THEN end ELSE flushed[loc.pack])

\* Decoding succeeds with v exactly on the bytes of v.
Decode(bytes) ==
    IF \E v \in Values : bytes = Bytes(v)
    THEN Points(CHOOSE v \in Values : bytes = Bytes(v))
    ELSE [kind |-> "garbled"]

\* Without the mutex: open the file, seek, take len bytes, decode.
Fetch(t) ==
    /\ op[t].kind = "fetch"
    /\ result' = [thread |-> t, answer |-> Decode(FileBytes(op[t].loc))]
    /\ op' = [op EXCEPT ![t] = NoCall]
    /\ UNCHANGED <<stream, flushed, cursor, index, torn, written>>

\* The flush, the open, the seek or the read returns Err.  A flush that fails
\* has written some of the buffer and keeps the rest.
ReadFails(t) ==
    LET p == op[t].loc.pack
    IN  /\ op[t].kind \in {"flush", "fetch"}
        /\ \E n \in flushed[p] .. Len(stream[p]) :
              flushed' = [flushed EXCEPT ![p] = n]
        /\ op' = [op EXCEPT ![t] = NoCall]
        /\ UNCHANGED <<stream, cursor, index, result, torn, written>>

\* A slip: the length of the range is taken for the number of points.
CountBytes(t, k) ==
    /\ op[t] = NoCall
    /\ result' = [thread |-> t,
                  answer |-> [kind |-> "count",
                              val |-> IF index[k] = NoLocation
                                      THEN 0 ELSE index[k].len]]
    /\ UNCHANGED <<stream, flushed, cursor, index, op, torn, written>>

\* count answers from the index alone.
Count(t, k) ==
    /\ op[t] = NoCall
    /\ result' = [thread |-> t,
                  answer |-> [kind |-> "count",
                              val |-> IF index[k] = NoLocation
                                      THEN 0 ELSE index[k].count]]
    /\ UNCHANGED <<stream, flushed, cursor, index, op, torn, written>>

-----------------------------------------------------------------------------
Next ==
    \/ \E t \in Threads, k \in Keys :
          \/ \E v \in Values : BeginWrite(t, k, v)
          \/ LookUp(t, k)
          \/ Count(t, k)
    \/ \E t \in Threads :
          \/ AppendToPack(t) \/ AppendFails(t) \/ InsertIndex(t)
          \/ ReturnEmpty(t) \/ FlushPack(t) \/ Fetch(t) \/ ReadFails(t)

Spec == Init /\ [][Next]_vars

-----------------------------------------------------------------------------
(* Properties                                                              *)

\* The range of a location was filled before any write_all failed on its pack.
Undamaged(loc) == \A c \in torn[loc.pack] : loc.offset + loc.len <= c

\* The range of a location lies in its pack and holds exactly the list v.
Holds(loc, v) ==
    /\ loc.offset + loc.len <= Len(stream[loc.pack])
    /\ \A i \in 1 .. loc.len : stream[loc.pack][loc.offset + i] = <<v, i>>

\* What a location must say of the list v it was made for.
Locates(loc, v) ==
    /\ loc.len = Size[v]
    /\ loc.count = PointCount[v]
    /\ Undamaged(loc) => Holds(loc, v)

IndexHolds ==
    \A k \in Keys : index[k] # NoLocation => Locates(index[k], written[k])

(***************************************************************************)
(* Every index entry locates the list last published under its key, and a  *)
(* failed append damages nothing written to the pack before it: capturing  *)
(* the offset, appending and advancing the cursor under one mutex          *)
(* (node_store.rs `write`) keep index, cursor and file in step whatever    *)
(* the other threads do in between.                                        *)
(***************************************************************************)
IndexSound == TypeOK /\ IndexHolds

(***************************************************************************)
(* A location copied by a read stays good although the reader holds no     *)
(* lock while other threads append to the pack and overwrite the key: when *)
(* it opens the file, the flush it did has put the whole range on disk.    *)
(***************************************************************************)
ReadersSafe ==
    \A t \in Threads :
        /\ op[t].kind \in {"flush", "fetch"} =>
              Locates(op[t].loc, op[t].promised)
        /\ op[t].kind = "fetch" /\ Undamaged(op[t].loc) =>
              op[t].loc.offset + op[t].loc.len <= flushed[op[t].loc.pack]

\* The call of the trait that an operation in progress is.
CallOf(o) ==
    CASE o.kind \in {"append", "publish"} ->
           [kind |-> "write", key |-> o.key, val |-> o.val]
      [] o.kind \in {"absent", "flush", "fetch"} ->
           [kind |-> "read", key |-> o.key, promised |-> o.promised]
      [] OTHER -> NoCall

Abstract == INSTANCE NodeStore WITH
    contents <- written,
    call <- [t \in Threads |-> CallOf(op[t])],
    failed <- \E p \in Packs : torn[p] # {}

(***************************************************************************)
(* The packed store keeps the trait's promise: calls of several threads,   *)
(* on shared packs and on the same key, behave as calls on a map.          *)
(***************************************************************************)
ImplementsNodeStore == Abstract!Spec
=============================================================================
