---------------------------- MODULE FileNodeStore ----------------------------
(***************************************************************************)
(* `FileNodeStore` (src/src/node_store.rs): one file per voxel key.  A     *)
(* write creates or truncates the file and fills it through a BufWriter    *)
(* that may push out any part of the list before the final flush; a read   *)
(* decodes whatever the file holds.  No lock protects a file.              *)
(*                                                                         *)
(* The store keeps the trait's promise only because its callers never have *)
(* a write and another call on the same key in progress: a key belongs to  *)
(* one subtree build or one merge task at a time (OneTaskPerNode of        *)
(* OctreeBuild.tla), and the writer stage only reads.  That discipline is  *)
(* the guard `Mine`.                                                       *)
(*                                                                         *)
(* As in PackedNodeStore.tla the unit <<v, i>> is the i-th piece of the    *)
(* serialised list v, the first one being the batch header.                *)
(***************************************************************************)
EXTENDS Naturals, Sequences

CONSTANTS Threads, Keys, Values, Empty, PointCount,
          Size,        \* serialised length of each list (never 0: a header)
          MaxWrites    \* bound: writes begun in a run

ASSUME FileStoreAssumption ==
    /\ Empty \in Values
    /\ PointCount \in [Values -> Nat]
    /\ PointCount[Empty] = 0
    /\ Size \in [Values -> Nat \ {0}]
    /\ MaxWrites \in Nat

VARIABLES exists,      \* the keys that have a file
          file,        \* key -> the units in its file
          op,          \* the call each thread is in
          result,      \* the last answer given, and the thread that got it
          failed,      \* history: some write returned Err
          written,     \* history: the list last written under each key
          writes       \* writes begun so far, for the bound

vars == <<exists, file, op, result, failed, written, writes>>

NoCall   == [kind |-> "none"]
NoResult == [kind |-> "none"]

Units == Values \X (Nat \ {0})

Ops == {NoCall} \cup [kind : {"create", "fill"}, key : Keys, val : Values]
                \cup [kind : {"absent", "fetch"}, key : Keys, promised : Values]

TypeOK ==
    /\ exists \subseteq Keys
    /\ file \in [Keys -> Seq(Units)]
    /\ op \in [Threads -> Ops]
    /\ failed \in BOOLEAN
    /\ written \in [Keys -> Values]

Init ==
    /\ exists = {}
    /\ file = [k \in Keys |-> <<>>]
    /\ op = [t \in Threads |-> NoCall]
    /\ result = NoResult
    /\ failed = FALSE
    /\ written = [k \in Keys |-> Empty]
    /\ writes = 0

Points(v) == [kind |-> "points", val |-> v]

Bytes(v) == [i \in 1 .. Size[v] |-> <<v, i>>]

\* No other call on k is in progress, or, to read, no write.
Mine(k, kinds) ==
    \A t \in Threads : op[t] # NoCall /\ op[t].key = k => op[t].kind \notin kinds

-----------------------------------------------------------------------------
BeginWrite(t, k, v) ==
    /\ op[t] = NoCall
    /\ Mine(k, {"create", "fill", "absent", "fetch"})
    /\ writes < MaxWrites
    /\ writes' = writes + 1
    /\ op' = [op EXCEPT ![t] = [kind |-> "create", key |-> k, val |-> v]]
    /\ UNCHANGED <<exists, file, result, failed, written>>

\* A slip: the file is opened for writing but not truncated.
CreateWithoutTruncate(t) ==
    /\ op[t].kind = "create"
    /\ exists' = exists \cup {op[t].key}
    /\ op' = [op EXCEPT ![t] =
                [kind |-> "fill", key |-> op[t].key, val |-> op[t].val]]
    /\ UNCHANGED <<file, result, failed, written, writes>>

\* File::create: the file exists from here on, and is empty.
Create(t) ==
    /\ op[t].kind = "create"
    /\ exists' = exists \cup {op[t].key}
    /\ file' = [file EXCEPT ![op[t].key] = <<>>]
    /\ op' = [op EXCEPT ![t] =
                [kind |-> "fill", key |-> op[t].key, val |-> op[t].val]]
    /\ UNCHANGED <<result, failed, written, writes>>

\* The file after the first n units of v are written over its start.
Overwritten(old, v, n) ==
    SubSeq(Bytes(v), 1, n) \o SubSeq(old, n + 1, Len(old))

\* write_temp_batch overflows the buffer: part of the list is in the file.
Spill(t) ==
    LET k == op[t].key
        v == op[t].val
    IN  /\ op[t].kind = "fill"
        /\ \E n \in 1 .. Size[v] - 1 :
              file' = [file EXCEPT ![k] = Overwritten(@, v, n)]
        /\ UNCHANGED <<exists, op, result, failed, written, writes>>

\* The flush puts the whole list into the file, and the write returns.
Flush(t) ==
    LET k == op[t].key
        v == op[t].val
    IN  /\ op[t].kind = "fill"
        /\ file' = [file EXCEPT ![k] = Overwritten(@, v, Size[v])]
        /\ written' = [written EXCEPT ![k] = v]
        /\ op' = [op EXCEPT ![t] = NoCall]
        /\ UNCHANGED <<exists, result, failed, writes>>

\* Creating or filling the file fails, and leaves it as it is.
WriteFails(t) ==
    /\ op[t].kind \in {"create", "fill"}
    /\ failed' = TRUE
    /\ op' = [op EXCEPT ![t] = NoCall]
    /\ UNCHANGED <<exists, file, result, written, writes>>

-----------------------------------------------------------------------------
\* File::open: a missing file will be the empty list.
Open(t, k) ==
    /\ op[t] = NoCall
    /\ Mine(k, {"create", "fill"})
    /\ op' = [op EXCEPT ![t] =
                [kind |-> IF k \in exists THEN "fetch" ELSE "absent",
                 key |-> k, promised |-> written[k]]]
    /\ UNCHANGED <<exists, file, result, failed, written, writes>>

ReturnEmpty(t) ==
    /\ op[t].kind = "absent"
    /\ result' = [thread |-> t, answer |-> Points(Empty)]
    /\ op' = [op EXCEPT ![t] = NoCall]
    /\ UNCHANGED <<exists, file, failed, written, writes>>

\* read_temp_batches: a file without a complete header is an empty list, a
\* file cut short in its payload an error.
Decode(units) ==
    IF units = <<>> THEN Points(Empty)
    ELSE IF \E v \in Values : units = Bytes(v)
         THEN Points(CHOOSE v \in Values : units = Bytes(v))
         ELSE [kind |-> "garbled"]

Fetch(t) ==
    /\ op[t].kind = "fetch"
    /\ result' = [thread |-> t, answer |-> Decode(file[op[t].key])]
    /\ op' = [op EXCEPT ![t] = NoCall]
    /\ UNCHANGED <<exists, file, failed, written, writes>>

\* Opening or reading the file returns Err.
ReadFails(t) ==
    /\ op[t].kind = "fetch"
    /\ op' = [op EXCEPT ![t] = NoCall]
    /\ UNCHANGED <<exists, file, result, failed, written, writes>>

\* count_temp_file_points walks the batch headers of the file.
Count(t, k) ==
    /\ op[t] = NoCall
    /\ Mine(k, {"create", "fill"})
    /\ result' = [thread |-> t,
                  answer |-> [kind |-> "count",
                              val |-> IF k \in exists /\ file[k] # <<>>
                                      THEN PointCount[file[k][1][1]] ELSE 0]]
    /\ UNCHANGED <<exists, file, op, failed, written, writes>>

-----------------------------------------------------------------------------
Next ==
    \/ \E t \in Threads, k \in Keys :
          \/ \E v \in Values : BeginWrite(t, k, v)
          \/ Open(t, k)
          \/ Count(t, k)
    \/ \E t \in Threads :
          \/ Create(t) \/ Spill(t) \/ Flush(t) \/ WriteFails(t)
          \/ ReturnEmpty(t) \/ Fetch(t) \/ ReadFails(t)

Spec == Init /\ [][Next]_vars

-----------------------------------------------------------------------------
(* Properties                                                               *)

CallOf(o) ==
    CASE o.kind \in {"create", "fill"} ->
           [kind |-> "write", key |-> o.key, val |-> o.val]
      [] o.kind \in {"absent", "fetch"} ->
           [kind |-> "read", key |-> o.key, promised |-> o.promised]
      [] OTHER -> NoCall

Abstract == INSTANCE NodeStore WITH
    contents <- written,
    call <- [t \in Threads |-> CallOf(op[t])]

(***************************************************************************)
(* Used by callers that keep each key to themselves while they write it,   *)
(* the file store keeps the same promise as the packed one.                *)
(***************************************************************************)
ImplementsNodeStore == Abstract!Spec
=============================================================================
