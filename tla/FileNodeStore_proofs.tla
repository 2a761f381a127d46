------------------------- MODULE FileNodeStore_proofs -------------------------
(***************************************************************************)
(* For every number of threads, keys and lists, however long each list is  *)
(* and whatever part of it BufWriter pushes out early: called as the build *)
(* calls it, the unlocked file store implements the trait NodeStore.       *)
(*                                                                         *)
(* While no write is filling the file of a key, and none has failed, the   *)
(* file is that of the list last written under the key; while one is, the  *)
(* file is the start of the list it writes, because File::create truncated *)
(* what was there.  A call that reads a key keeps writes of it out.        *)
(***************************************************************************)
EXTENDS FileNodeStore, SequenceTheorems, TLAPS

Writes(o) == o.kind \in {"create", "fill"}

\* While a key is being written, no other call on it is in progress.
WritersAlone ==
    \A s, t \in Threads :
        Writes(op[s]) /\ op[t] # NoCall /\ op[t].key = op[s].key => s = t

\* units is the start of the serialised list v.
StartOf(units, v) ==
    /\ Len(units) <= Size[v]
    /\ \A i \in 1 .. Len(units) : units[i] = <<v, i>>

\* A file that is being filled holds the start of the list.
Filling ==
    \A t \in Threads : op[t].kind = "fill" =>
        op[t].key \in exists /\ StartOf(file[op[t].key], op[t].val)

\* A read in progress was promised what the key still holds.
ReadersCurrent ==
    \A t \in Threads : op[t].kind \in {"absent", "fetch"} =>
        /\ op[t].promised = written[op[t].key]
        /\ op[t].kind = "fetch" <=> op[t].key \in exists

\* The file of k is that of the list last written under k.
Holds(k) ==
    IF k \in exists THEN file[k] = Bytes(written[k]) ELSE written[k] = Empty

FilesHold ==
    ~failed => \A k \in Keys :
        (\A t \in Threads : op[t].kind = "fill" => op[t].key # k) => Holds(k)

IInv == TypeOK /\ WritersAlone /\ Filling /\ ReadersCurrent /\ FilesHold

-----------------------------------------------------------------------------
(* Calls, and the bytes of a list                                          *)

\* What the kind of a call says of its fields.
LEMMA OpFields ==
    ASSUME NEW o \in Ops
    PROVE  /\ o.kind \in {"none", "create", "fill", "absent", "fetch"}
           /\ o.kind = "none" <=> o = NoCall
           /\ Writes(o) => o.key \in Keys /\ o.val \in Values
           /\ o.kind \in {"absent", "fetch"} => o.key \in Keys /\ o.promised \in Values
<1>1. CASE o = NoCall
  BY <1>1 DEF NoCall, Writes
<1>2. CASE o \in [kind : {"create", "fill"}, key : Keys, val : Values]
  BY <1>2 DEF NoCall, Writes
<1>3. CASE o \in [kind : {"absent", "fetch"}, key : Keys, promised : Values]
  BY <1>3 DEF NoCall, Writes
<1> QED
  BY <1>1, <1>2, <1>3 DEF Ops

\* The units of a list, in order.
LEMMA BytesType ==
    ASSUME NEW v \in Values
    PROVE  /\ Bytes(v) \in Seq(Units) /\ Len(Bytes(v)) = Size[v]
           /\ Size[v] \in Nat \ {0}
           /\ \A i \in 1 .. Size[v] : Bytes(v)[i] = <<v, i>>
<1>1. Size[v] \in Nat \ {0}
  BY FileStoreAssumption
<1>2. Bytes(v) \in [1 .. Size[v] -> Units]
  BY <1>1 DEF Bytes, Units
<1>3. Bytes(v) \in Seq(Units) /\ Len(Bytes(v)) = Size[v]
  BY <1>1, <1>2
<1> QED
  BY <1>1, <1>3 DEF Bytes

\* A file that holds all of a list reads as that list: its first unit names it.
LEMMA DecodeBytes ==
    ASSUME NEW v \in Values
    PROVE  /\ Bytes(v) # <<>> /\ Bytes(v)[1] = <<v, 1>>
           /\ Decode(Bytes(v)) = Points(v)
<1>1. \A w \in Values : Len(Bytes(w)) # 0 /\ Bytes(w)[1] = <<w, 1>>
  <2>1. ASSUME NEW w \in Values PROVE Len(Bytes(w)) # 0 /\ Bytes(w)[1] = <<w, 1>>
    <3>1. 1 \in 1 .. Size[w] /\ Len(Bytes(w)) = Size[w] /\ Size[w] # 0
      BY BytesType
    <3> QED
      BY <3>1, BytesType
  <2> QED
    BY <2>1
<1>2. Bytes(v) # <<>>
  BY <1>1
<1>3. \A w \in Values : Bytes(v) = Bytes(w) => w = v
  BY <1>1
<1>4. (CHOOSE w \in Values : Bytes(v) = Bytes(w)) = v
  BY <1>3
<1> QED
  BY <1>1, <1>2, <1>4 DEF Decode

\* Writing more of a list over its start leaves a start of it, no shorter.
LEMMA OverwrittenIs ==
    ASSUME NEW v \in Values, NEW old \in Seq(Units), NEW n \in 0 .. Size[v]
    PROVE  /\ Overwritten(old, v, n) \in Seq(Units)
           /\ StartOf(old, v) => StartOf(Overwritten(old, v, n), v)
           /\ StartOf(old, v) => n <= Len(Overwritten(old, v, n))
<1> DEFINE head == SubSeq(Bytes(v), 1, n)
           tail == SubSeq(old, n + 1, Len(old))
           new  == head \o tail
<1>1. /\ Bytes(v) \in Seq(Units) /\ Len(Bytes(v)) = Size[v] /\ Size[v] \in Nat
      /\ n \in Nat /\ n <= Size[v] /\ Len(old) \in Nat
      /\ \A i \in 1 .. Size[v] : Bytes(v)[i] = <<v, i>>
  <2>1. Size[v] \in Nat
    BY BytesType
  <2> QED
    BY <2>1, BytesType
<1>2. head \in Seq(Units) /\ Len(head) = n /\ \A i \in 1 .. n : head[i] = <<v, i>>
  <2>1. \A i \in 1 .. n : Bytes(v)[i] \in Units /\ Bytes(v)[i] = <<v, i>>
    BY <1>1
  <2>2. /\ head \in Seq(Units)
        /\ Len(head) = IF 1 <= n THEN n - 1 + 1 ELSE 0
        /\ \A i \in 1 .. n - 1 + 1 : head[i] = Bytes(v)[1 + i - 1]
    BY <1>1, <2>1, SubSeqProperties
  <2> HIDE DEF head
  <2> QED
    BY <1>1, <2>1, <2>2
<1>3. /\ tail \in Seq(Units)
      /\ Len(tail) = IF n + 1 <= Len(old) THEN Len(old) - n ELSE 0
      /\ \A i \in 1 .. Len(tail) : tail[i] = old[n + i]
  <2>1. \A i \in n + 1 .. Len(old) : old[i] \in Units
    BY <1>1
  <2>2. /\ tail \in Seq(Units)
        /\ Len(tail) = IF n + 1 <= Len(old) THEN Len(old) - (n + 1) + 1 ELSE 0
        /\ \A i \in 1 .. Len(old) - (n + 1) + 1 : tail[i] = old[n + 1 + i - 1]
    BY <1>1, <2>1, SubSeqProperties
  <2> HIDE DEF tail
  <2>3. CASE n + 1 <= Len(old)
    <3>1. Len(tail) = Len(old) - n
      BY <1>1, <2>2, <2>3
    <3>2. ASSUME NEW i \in 1 .. Len(tail) PROVE tail[i] = old[n + i]
      <4>1. i \in 1 .. Len(old) - (n + 1) + 1 /\ n + 1 + i - 1 = n + i
        BY <1>1, <2>3, <3>1
      <4> QED
        BY <2>2, <4>1
    <3> QED
      BY <2>2, <2>3, <3>1, <3>2
  <2>4. CASE ~(n + 1 <= Len(old))
    BY <2>2, <2>4
  <2> QED
    BY <2>3, <2>4, Zenon
<1> HIDE DEF head, tail
<1>4. /\ new \in Seq(Units) /\ Len(new) = n + Len(tail)
      /\ \A i \in 1 .. n + Len(tail) : new[i] = IF i <= n THEN head[i] ELSE tail[i - n]
  <2>1. head \in Seq(Units) /\ tail \in Seq(Units) /\ Len(head) = n
    BY <1>2, <1>3
  <2>2. /\ new \in Seq(Units)
        /\ Len(new) = Len(head) + Len(tail)
        /\ \A i \in 1 .. Len(head) + Len(tail) :
              new[i] = IF i <= Len(head) THEN head[i] ELSE tail[i - Len(head)]
    BY <2>1, ConcatProperties
  <2> QED
    BY <2>1, <2>2
<1> HIDE DEF new
<1>5. ASSUME StartOf(old, v) PROVE StartOf(new, v) /\ n <= Len(new)
  <2>1. Len(old) <= Size[v] /\ \A i \in 1 .. Len(old) : old[i] = <<v, i>>
    BY <1>5 DEF StartOf
  <2>2. Len(tail) \in Nat /\ Len(new) <= Size[v] /\ n <= Len(new)
    BY <1>1, <1>3, <1>4, <2>1
  <2>3. ASSUME NEW i \in 1 .. Len(new) PROVE new[i] = <<v, i>>
    <3>1. CASE i <= n
      BY <1>1, <1>2, <1>4, <2>2, <3>1
    <3>2. CASE ~(i <= n)
      <4>1. i - n \in 1 .. Len(tail) /\ n + (i - n) = i /\ i \in 1 .. Len(old)
        BY <1>1, <1>3, <1>4, <2>2, <3>2
      <4>2. new[i] = tail[i - n] /\ tail[i - n] = old[n + (i - n)]
        BY <1>3, <1>4, <2>2, <3>2, <4>1
      <4> QED
        BY <2>1, <4>1, <4>2
    <3> QED
      BY <3>1, <3>2
  <2> QED
    BY <2>2, <2>3 DEF StartOf
<1> QED
  BY <1>4, <1>5 DEF Overwritten, new, head, tail

\* A start of a list that is as long is the list.
LEMMA WholeIs ==
    ASSUME NEW v \in Values, NEW units \in Seq(Units), StartOf(units, v),
           Size[v] <= Len(units)
    PROVE  units = Bytes(v)
<1>1. /\ Len(units) \in Nat /\ Bytes(v) \in Seq(Units) /\ Len(Bytes(v)) = Size[v]
      /\ Size[v] \in Nat
  BY BytesType
<1>2. Len(units) = Len(Bytes(v))
  BY <1>1 DEF StartOf
<1>3. \A i \in 1 .. Len(units) : units[i] = Bytes(v)[i]
  BY <1>1, <1>2, BytesType DEF StartOf
<1> QED
  BY <1>1, <1>2, <1>3, SeqEqual

-----------------------------------------------------------------------------
(* The invariant                                                            *)

\* A step changes the call of one thread.
LEMMA OpStep ==
    ASSUME TypeOK, NEW t \in Threads, NEW o \in Ops, op' = [op EXCEPT ![t] = o]
    PROVE  /\ op' \in [Threads -> Ops] /\ op'[t] = o
           /\ \A s \in Threads : s # t => op'[s] = op[s]
BY DEF TypeOK

\* A call that begins, and no write of the key is in progress, keeps the
\* invariant.
LEMMA BeginKeeps ==
    ASSUME IInv, NEW t \in Threads, NEW o \in Ops, op[t] = NoCall,
           op' = [op EXCEPT ![t] = o],
           UNCHANGED <<exists, file, failed, written>>,
           o.kind \in {"create", "absent", "fetch"},
           Mine(o.key, {"create", "fill"}),
           o.kind = "create" => Mine(o.key, {"absent", "fetch"}),
           o.kind \in {"absent", "fetch"} =>
              /\ o.promised = written[o.key]
              /\ o.kind = "fetch" <=> o.key \in exists
    PROVE  IInv'
<1>1. /\ op' \in [Threads -> Ops] /\ op'[t] = o /\ op[t].kind = "none"
      /\ \A s \in Threads : s # t => op'[s] = op[s]
      /\ \A s \in Threads : op[s] \in Ops
  BY OpStep DEF IInv, NoCall, TypeOK
<1>2. TypeOK'
  BY <1>1 DEF IInv, TypeOK
<1>3. WritersAlone'
  <2> SUFFICES ASSUME NEW r \in Threads, NEW s \in Threads, Writes(op'[r]),
                      op'[s] # NoCall, op'[s].key = op'[r].key, r # s
               PROVE  FALSE
    BY DEF WritersAlone, Writes
  <2>1. CASE r = t
    <3>1. s # t /\ op[s] # NoCall /\ op[s].key = o.key /\ o.kind = "create"
      BY <1>1, <2>1 DEF Writes
    <3>2. op[s].kind \in {"create", "fill", "absent", "fetch"}
      BY <1>1, <3>1, OpFields
    <3> QED
      BY <3>1, <3>2 DEF Mine
  <2>2. CASE s = t
    <3>1. r # t /\ Writes(op[r]) /\ op[r].key = o.key /\ op[r] # NoCall
      BY <1>1, <2>2 DEF Writes, NoCall
    <3> QED
      BY <3>1 DEF Mine, Writes
  <2>3. CASE r # t /\ s # t
    BY <1>1, <2>3 DEF IInv, WritersAlone, Writes
  <2> QED
    BY <2>1, <2>2, <2>3
<1>4. Filling'
  BY <1>1 DEF IInv, Filling, StartOf
<1>5. ReadersCurrent'
  BY <1>1 DEF IInv, ReadersCurrent
<1>6. FilesHold'
  BY <1>1 DEF IInv, FilesHold, Holds, Bytes
<1> QED
  BY <1>2, <1>3, <1>4, <1>5, <1>6 DEF IInv

\* A call that ends without touching a file.
LEMMA EndKeeps ==
    ASSUME IInv, NEW t \in Threads, op' = [op EXCEPT ![t] = NoCall],
           UNCHANGED <<exists, file, written>>,
           \/ failed' = failed /\ op[t].kind \in {"absent", "fetch"}
           \/ failed' = TRUE
    PROVE  IInv'
<1>1. NoCall \in Ops
  BY DEF Ops
<1>2. /\ op' \in [Threads -> Ops] /\ op'[t] = NoCall /\ op'[t].kind = "none"
      /\ \A s \in Threads : s # t => op'[s] = op[s]
  BY <1>1, OpStep DEF IInv, NoCall
<1>3. TypeOK'
  BY <1>2 DEF IInv, TypeOK
<1>4. WritersAlone'
  BY <1>2 DEF IInv, WritersAlone, Writes
<1>5. Filling' /\ ReadersCurrent'
  BY <1>2 DEF IInv, Filling, StartOf, ReadersCurrent
<1>6. FilesHold'
  BY <1>2 DEF IInv, FilesHold, Holds, Bytes
<1> QED
  BY <1>3, <1>4, <1>5, <1>6 DEF IInv

\* A step of a write changes the file of its own key only, to which no one else
\* has a call.
LEMMA WriteKeeps ==
    ASSUME IInv, NEW t \in Threads, Writes(op[t]), NEW o \in Ops,
           op' = [op EXCEPT ![t] = o],
           NEW units \in Seq(Units), file' = [file EXCEPT ![op[t].key] = units],
           exists' = exists \cup {op[t].key}, failed' = failed,
           \/ /\ o.kind = "fill" /\ o.key = op[t].key /\ o.val = op[t].val
              /\ StartOf(units, o.val) /\ written' = written
           \/ /\ o = NoCall /\ units = Bytes(op[t].val)
              /\ written' = [written EXCEPT ![op[t].key] = op[t].val]
    PROVE  IInv'
<1> DEFINE k == op[t].key
           v == op[t].val
<1>1. /\ op' \in [Threads -> Ops] /\ op'[t] = o
      /\ \A s \in Threads : s # t => op'[s] = op[s]
      /\ op[t] # NoCall /\ k \in Keys /\ v \in Values
  BY OpStep, OpFields DEF IInv, TypeOK, NoCall, Writes
<1>2. /\ file' \in [Keys -> Seq(Units)] /\ file'[k] = units
      /\ \A m \in Keys : m # k => file'[m] = file[m]
  BY <1>1 DEF IInv, TypeOK
<1>3. /\ written' \in [Keys -> Values]
      /\ \A m \in Keys : m # k => written'[m] = written[m]
      /\ o = NoCall => written'[k] = v
  BY <1>1 DEF IInv, TypeOK, NoCall
<1>4. ASSUME NEW s \in Threads, s # t
      PROVE  op[s] # NoCall => op[s].key \in Keys /\ op[s].key # k
  BY <1>1, <1>4, OpFields DEF IInv, TypeOK, WritersAlone, Writes
<1>5. o.kind \in {"fill", "none"} /\ (o.kind = "fill" => o.key = k /\ o.val = v)
      /\ (o.kind = "none" <=> o = NoCall)
  BY OpFields DEF NoCall
<1> HIDE DEF k, v
<1>6. TypeOK'
  BY <1>1, <1>2, <1>3 DEF IInv, TypeOK, k
<1>7. WritersAlone'
  <2> SUFFICES ASSUME NEW r \in Threads, NEW s \in Threads, Writes(op'[r]),
                      op'[s] # NoCall, op'[s].key = op'[r].key, r # s
               PROVE  FALSE
    BY DEF WritersAlone, Writes
  <2>1. op'[r] # NoCall
    BY DEF Writes, NoCall
  <2>2. CASE r # t /\ s # t
    BY <1>1, <2>2 DEF IInv, WritersAlone, Writes
  <2>3. CASE r = t
    BY <1>1, <1>4, <1>5, <2>1, <2>3
  <2>4. CASE s = t
    BY <1>1, <1>4, <1>5, <2>1, <2>4
  <2> QED
    BY <2>2, <2>3, <2>4
<1>8. Filling'
  <2> SUFFICES ASSUME NEW s \in Threads, op'[s].kind = "fill"
               PROVE  op'[s].key \in exists' /\ StartOf(file'[op'[s].key], op'[s].val)
    BY DEF Filling, StartOf
  <2>1. CASE s = t
    BY <1>1, <1>2, <1>5, <2>1 DEF NoCall, k
  <2>2. CASE s # t
    <3>1. op[s].kind = "fill" /\ op'[s] = op[s] /\ op[s] # NoCall
      BY <1>1, <2>2 DEF NoCall
    <3>2. file'[op[s].key] = file[op[s].key]
      BY <1>2, <1>4, <2>2, <3>1
    <3> QED
      BY <3>1, <3>2 DEF IInv, Filling
  <2> QED
    BY <2>1, <2>2
<1>9. ReadersCurrent'
  <2> SUFFICES ASSUME NEW s \in Threads, op'[s].kind \in {"absent", "fetch"}
               PROVE  /\ op'[s].promised = written'[op'[s].key]
                      /\ op'[s].kind = "fetch" <=> op'[s].key \in exists'
    BY DEF ReadersCurrent
  <2>1. s # t /\ op'[s] = op[s] /\ op[s] # NoCall
    BY <1>1, <1>5 DEF NoCall
  <2>2. op[s].key \in Keys /\ op[s].key # k
    BY <1>4, <2>1
  <2>3. written'[op[s].key] = written[op[s].key]
        /\ (op[s].key \in exists' <=> op[s].key \in exists)
    BY <1>3, <2>2 DEF k
  <2> QED
    BY <2>1, <2>3 DEF IInv, ReadersCurrent
<1>10. FilesHold'
  <2> SUFFICES ASSUME ~failed, NEW m \in Keys,
                      \A s \in Threads : op'[s].kind = "fill" => op'[s].key # m
               PROVE  Holds(m)'
    BY DEF FilesHold
  <2>1. CASE m = k
    <3>1. o = NoCall
      BY <1>1, <1>5, <2>1
    <3> QED
      BY <1>2, <1>3, <2>1, <3>1 DEF Holds, Bytes, NoCall, k, v
  <2>2. CASE m # k
    <3>1. \A s \in Threads : op[s].kind = "fill" => op[s].key # m
      BY <1>1, <2>2 DEF k
    <3>2. Holds(m)
      BY <3>1 DEF IInv, FilesHold
    <3>3. /\ file'[m] = file[m] /\ written'[m] = written[m]
          /\ m \in exists' <=> m \in exists
      BY <1>2, <1>3, <2>2 DEF k
    <3> QED
      BY <3>2, <3>3 DEF Holds, Bytes
  <2> QED
    BY <2>1, <2>2
<1> QED
  BY <1>6, <1>7, <1>8, <1>9, <1>10 DEF IInv

\* The steps of a write.
LEMMA WriteStep ==
    ASSUME IInv, NEW t \in Threads, Create(t) \/ Spill(t) \/ Flush(t)
    PROVE  IInv'
<1> DEFINE k == op[t].key
           v == op[t].val
           filling == [kind |-> "fill", key |-> k, val |-> v]
<1>1. /\ Writes(op[t]) /\ k \in Keys /\ v \in Values /\ op[t] \in Ops
      /\ file[k] \in Seq(Units) /\ Size[v] \in Nat \ {0}
  BY OpFields, BytesType DEF IInv, TypeOK, Create, Spill, Flush, Writes
<1>2. filling \in Ops /\ NoCall \in Ops /\ NoCall.kind = "none"
  BY <1>1 DEF Ops, NoCall
<1>3. CASE Create(t)
  <2>1. /\ op' = [op EXCEPT ![t] = filling] /\ file' = [file EXCEPT ![k] = <<>>]
        /\ exists' = exists \cup {k} /\ UNCHANGED <<failed, written>>
    BY <1>3 DEF Create
  <2>2. <<>> \in Seq(Units) /\ StartOf(<<>>, v)
    BY <1>1, EmptySeq DEF StartOf
  <2>3. filling.kind = "fill" /\ filling.key = k /\ filling.val = v
    OBVIOUS
  <2> HIDE DEF filling
  <2> QED
    BY <1>1, <1>2, <2>1, <2>2, <2>3, WriteKeeps
<1>4. ASSUME op[t].kind = "fill"
      PROVE  /\ op[t] = filling /\ op = [op EXCEPT ![t] = filling]
             /\ exists = exists \cup {k} /\ StartOf(file[k], v)
  <2>1. op[t] \in [kind : {"create", "fill"}, key : Keys, val : Values]
    BY <1>1, <1>4 DEF Ops, NoCall
  <2>2. op[t] = filling
    BY <1>4, <2>1
  <2> HIDE DEF filling
  <2> QED
    BY <1>4, <2>2 DEF IInv, TypeOK, Filling
<1>5. ASSUME Spill(t) PROVE IInv'
  <2>1. PICK n \in 1 .. Size[v] - 1 : file' = [file EXCEPT ![k] = Overwritten(file[k], v, n)]
    BY <1>1, <1>5 DEF Spill, IInv, TypeOK
  <2>2. n \in 0 .. Size[v]
    BY <1>1
  <2>3. op[t].kind = "fill" /\ UNCHANGED <<exists, op, failed, written>>
    BY <1>5 DEF Spill
  <2> DEFINE units == Overwritten(file[k], v, n)
  <2>4. units \in Seq(Units) /\ StartOf(units, v)
    BY <1>1, <1>4, <2>2, <2>3, OverwrittenIs
  <2>5. filling.kind = "fill" /\ filling.key = k /\ filling.val = v
    OBVIOUS
  <2>6. op' = [op EXCEPT ![t] = filling] /\ exists' = exists \cup {k}
    BY <1>4, <2>3
  <2>7. file' = [file EXCEPT ![k] = units]
    BY <2>1
  <2> HIDE DEF filling, units
  <2> QED
    BY <1>1, <1>2, <2>3, <2>4, <2>5, <2>6, <2>7, WriteKeeps
<1>6. CASE Flush(t)
  <2>1. /\ op[t].kind = "fill" /\ op' = [op EXCEPT ![t] = NoCall]
        /\ written' = [written EXCEPT ![k] = v]
        /\ file' = [file EXCEPT ![k] = Overwritten(file[k], v, Size[v])]
        /\ UNCHANGED <<exists, failed>>
    BY <1>1, <1>6 DEF Flush, IInv, TypeOK
  <2> DEFINE units == Overwritten(file[k], v, Size[v])
  <2>2. Size[v] \in 0 .. Size[v]
    BY <1>1
  <2>3. units \in Seq(Units) /\ StartOf(units, v) /\ Size[v] <= Len(units)
    BY <1>1, <1>4, <2>1, <2>2, OverwrittenIs
  <2>4. file' = [file EXCEPT ![k] = units]
    BY <2>1
  <2> HIDE DEF units
  <2>5. units = Bytes(v)
    BY <1>1, <2>3, WholeIs
  <2>6. exists' = exists \cup {k}
    BY <1>4, <2>1
  <2> QED
    BY <1>1, <1>2, <2>1, <2>3, <2>4, <2>5, <2>6, WriteKeeps
<1> QED
  BY <1>3, <1>5, <1>6

\* The beginning of a call.
LEMMA BeginStep ==
    ASSUME IInv, NEW t \in Threads, NEW k \in Keys,
           Open(t, k) \/ \E v \in Values : BeginWrite(t, k, v)
    PROVE  IInv'
<1>1. ASSUME NEW v \in Values, BeginWrite(t, k, v) PROVE IInv'
  <2> DEFINE o == [kind |-> "create", key |-> k, val |-> v]
  <2>1. o \in Ops /\ o.kind = "create" /\ o.key = k
    BY DEF Ops
  <2>2. /\ op[t] = NoCall /\ op' = [op EXCEPT ![t] = o]
        /\ UNCHANGED <<exists, file, failed, written>>
        /\ Mine(k, {"create", "fill"}) /\ Mine(k, {"absent", "fetch"})
    BY <1>1 DEF BeginWrite, Mine
  <2> HIDE DEF o
  <2> QED
    BY <2>1, <2>2, BeginKeeps
<1>2. CASE Open(t, k)
  <2> DEFINE o == [kind |-> IF k \in exists THEN "fetch" ELSE "absent",
                   key |-> k, promised |-> written[k]]
  <2>1. written[k] \in Values
    BY DEF IInv, TypeOK
  <2>2. /\ o \in Ops /\ o.kind \in {"absent", "fetch"} /\ o.key = k
        /\ o.promised = written[k]
        /\ o.kind = "fetch" <=> k \in exists
    BY <2>1 DEF Ops
  <2>3. /\ op[t] = NoCall /\ op' = [op EXCEPT ![t] = o]
        /\ UNCHANGED <<exists, file, failed, written>>
        /\ Mine(k, {"create", "fill"})
    BY <1>2 DEF Open
  <2> HIDE DEF o
  <2> QED
    BY <2>2, <2>3, BeginKeeps
<1> QED
  BY <1>1, <1>2

\* The end of a read, or of a write that failed.
LEMMA EndStep ==
    ASSUME IInv, NEW t \in Threads,
           ReturnEmpty(t) \/ Fetch(t) \/ ReadFails(t) \/ WriteFails(t)
    PROVE  IInv'
BY EndKeeps DEF ReturnEmpty, Fetch, ReadFails, WriteFails

\* The invariant holds at first ...
LEMMA InvInit == Init => IInv
<1> SUFFICES ASSUME Init PROVE IInv
  OBVIOUS
<1>1. \A t \in Threads : op[t] = NoCall /\ op[t].kind = "none"
  BY DEF Init, NoCall
<1>2. TypeOK
  BY FileStoreAssumption, EmptySeq DEF Init, TypeOK, Ops
<1> QED
  BY <1>1, <1>2 DEF Init, IInv, WritersAlone, Writes, Filling, ReadersCurrent, FilesHold,
                    Holds

\* ... and every step keeps it.
LEMMA InvStep == IInv /\ [Next]_vars => IInv'
<1> SUFFICES ASSUME IInv, [Next]_vars PROVE IInv'
  OBVIOUS
<1>1. CASE UNCHANGED <<exists, file, op, failed, written>>
  BY <1>1 DEF IInv, TypeOK, WritersAlone, Filling, StartOf, ReadersCurrent, FilesHold, Holds,
              Bytes
<1>2. CASE UNCHANGED vars \/ \E t \in Threads, k \in Keys : Count(t, k)
  BY <1>1, <1>2 DEF vars, Count
<1> QED
  BY <1>2, WriteStep, BeginStep, EndStep DEF Next

\* What the files hold at every moment of a run.
THEOREM FilesAreSound == Spec => []IInv
BY InvInit, InvStep, PTL DEF Spec

-----------------------------------------------------------------------------
(* The refinement of the trait                                              *)

\* The call of the trait that every thread is in.
call == [t \in Threads |-> CallOf(op[t])]

\* The call of the trait that an operation in progress is.
LEMMA CallIs ==
    ASSUME NEW o \in Ops
    PROVE  /\ Writes(o) =>
                 CallOf(o) = [kind |-> "write", key |-> o.key, val |-> o.val]
           /\ o.kind \in {"absent", "fetch"} =>
                 CallOf(o) = [kind |-> "read", key |-> o.key, promised |-> o.promised]
           /\ o = NoCall => CallOf(o) = Abstract!NoCall
BY DEF CallOf, Writes, NoCall, Abstract!NoCall

\* A step that changes the call of one thread changes that thread's call of
\* the trait, and no other.
LEMMA CallStep ==
    ASSUME TypeOK, NEW t \in Threads, NEW o \in Ops, op' = [op EXCEPT ![t] = o]
    PROVE  /\ call' = [call EXCEPT ![t] = CallOf(o)]
           /\ call[t] = CallOf(op[t])
           /\ CallOf(o) = CallOf(op[t]) => call' = call
<1>1. \A u \in Threads : op'[u] = IF u = t THEN o ELSE op[u]
  BY DEF TypeOK
<1>2. call' = [u \in Threads |-> CallOf(op'[u])]
  BY DEF call
<1>3. \A u \in Threads : CallOf(op'[u]) = IF u = t THEN CallOf(o) ELSE CallOf(op[u])
  BY <1>1
<1>4. call' = [u \in Threads |-> IF u = t THEN CallOf(o) ELSE CallOf(op[u])]
  BY <1>2, <1>3
<1>5. \A u \in Threads : call[u] = CallOf(op[u])
  BY DEF call
<1>6. [call EXCEPT ![t] = CallOf(o)]
        = [u \in Threads |-> IF u = t THEN CallOf(o) ELSE CallOf(op[u])]
  BY <1>5 DEF call
<1>7. CallOf(o) = CallOf(op[t]) => call' = call
  BY <1>4 DEF call
<1> QED
  BY <1>4, <1>5, <1>6, <1>7

\* Which operation an operation in progress is, and its call of the trait.
LEMMA CallOfOp ==
    ASSUME TypeOK, NEW t \in Threads
    PROVE  /\ op[t] = NoCall => call[t] = Abstract!NoCall
           /\ Writes(op[t]) => /\ call[t].kind = "write"
                               /\ call[t].key = op[t].key /\ call[t].val = op[t].val
           /\ op[t].kind \in {"absent", "fetch"} =>
                 call[t].kind = "read" /\ call[t].promised = op[t].promised
<1>1. call[t] = CallOf(op[t]) /\ op[t] \in Ops
  BY DEF call, TypeOK
<1> QED
  BY <1>1, CallIs

\* A step that ends the call of t ends its call of the trait.
LEMMA EndRefines ==
    ASSUME TypeOK, NEW t \in Threads, op' = [op EXCEPT ![t] = NoCall]
    PROVE  call' = [call EXCEPT ![t] = Abstract!NoCall]
<1> DEFINE o == NoCall
<1>1. o \in Ops /\ CallOf(o) = Abstract!NoCall
  BY CallIs DEF Ops
<1> HIDE DEF o
<1> QED
  BY <1>1, CallStep DEF o

\* The call begins.
LEMMA BeginWriteRefines ==
    ASSUME TypeOK, NEW t \in Threads, NEW k \in Keys, NEW v \in Values,
           BeginWrite(t, k, v)
    PROVE  Abstract!BeginWrite(t, k, v)
<1> DEFINE o == [kind |-> "create", key |-> k, val |-> v]
<1>1. o \in Ops /\ CallOf(o) = [kind |-> "write", key |-> k, val |-> v]
  BY DEF CallOf, Ops
<1>2. call[t] = Abstract!NoCall
  BY CallOfOp DEF BeginWrite
<1>3. op' = [op EXCEPT ![t] = o] /\ UNCHANGED <<written, result, failed>>
  BY DEF BeginWrite
<1>4. call' = [call EXCEPT ![t] = CallOf(o)]
  <2> HIDE DEF o
  <2> QED
    BY <1>1, <1>3, CallStep
<1> QED
  BY <1>1, <1>2, <1>3, <1>4 DEF Abstract!BeginWrite, call

\* Creating the file and filling it are no steps of the trait.
LEMMA FillRefines ==
    ASSUME TypeOK, NEW t \in Threads, Create(t) \/ Spill(t)
    PROVE  UNCHANGED Abstract!storeVars
<1>1. UNCHANGED <<written, result, failed>>
  BY DEF Create, Spill
<1>2. CASE Spill(t)
  BY <1>1, <1>2 DEF Spill, Abstract!storeVars
<1>3. CASE Create(t)
  <2> DEFINE o == [kind |-> "fill", key |-> op[t].key, val |-> op[t].val]
  <2>1. /\ op[t] \in Ops /\ Writes(op[t])
        /\ op' = [op EXCEPT ![t] = o]
    BY <1>3 DEF Create, Writes, TypeOK
  <2>2. CallOf(op[t]) = [kind |-> "write", key |-> op[t].key, val |-> op[t].val]
    BY <2>1, CallIs
  <2>3. o \in Ops /\ CallOf(o) = [kind |-> "write", key |-> op[t].key, val |-> op[t].val]
    BY <2>1, OpFields DEF CallOf, Ops
  <2> HIDE DEF o
  <2>4. call' = call
    BY <2>1, <2>2, <2>3, CallStep
  <2> QED
    BY <1>1, <2>4 DEF Abstract!storeVars, call
<1> QED
  BY <1>2, <1>3

\* The flush is where the list is in the store.
LEMMA FlushRefines ==
    ASSUME TypeOK, NEW t \in Threads, Flush(t)
    PROVE  Abstract!EndWrite(t)
<1>1. call' = [call EXCEPT ![t] = Abstract!NoCall]
  BY EndRefines DEF Flush
<1>2. call[t].kind = "write" /\ call[t].key = op[t].key /\ call[t].val = op[t].val
  BY CallOfOp DEF Flush, Writes
<1>3. /\ written' = [written EXCEPT ![op[t].key] = op[t].val]
      /\ UNCHANGED <<result, failed>>
  BY DEF Flush
<1> QED
  BY <1>1, <1>2, <1>3 DEF Abstract!EndWrite, call

\* A failed write is one of the trait.
LEMMA WriteFailsRefines ==
    ASSUME TypeOK, NEW t \in Threads, WriteFails(t)
    PROVE  Abstract!WriteFails(t)
<1>1. call' = [call EXCEPT ![t] = Abstract!NoCall]
  BY EndRefines DEF WriteFails
<1>2. call[t].kind = "write"
  BY CallOfOp DEF WriteFails, Writes
<1>3. failed' = TRUE /\ UNCHANGED <<written, result>>
  BY DEF WriteFails
<1> QED
  BY <1>1, <1>2, <1>3 DEF Abstract!WriteFails, call

\* Opening the file fixes what the read will answer.
LEMMA OpenRefines ==
    ASSUME TypeOK, NEW t \in Threads, NEW k \in Keys, Open(t, k)
    PROVE  Abstract!BeginRead(t, k)
<1> DEFINE o == [kind |-> IF k \in exists THEN "fetch" ELSE "absent",
                 key |-> k, promised |-> written[k]]
<1>1. o \in Ops /\ CallOf(o) = [kind |-> "read", key |-> k, promised |-> written[k]]
  <2>1. written[k] \in Values
    BY DEF TypeOK
  <2> QED
    BY <2>1 DEF CallOf, Ops
<1>2. call[t] = Abstract!NoCall
  BY CallOfOp DEF Open
<1>3. op' = [op EXCEPT ![t] = o] /\ UNCHANGED <<written, result, failed>>
  BY DEF Open
<1>4. call' = [call EXCEPT ![t] = CallOf(o)]
  <2> HIDE DEF o
  <2> QED
    BY <1>1, <1>3, CallStep
<1> QED
  BY <1>1, <1>2, <1>3, <1>4 DEF Abstract!BeginRead, call

\* No write has failed and none is filling the file: it holds the list promised.
LEMMA ReadHolds ==
    ASSUME IInv, ~failed, NEW t \in Threads, op[t].kind \in {"absent", "fetch"}
    PROVE  /\ op[t].key \in Keys /\ op[t].promised \in Values
           /\ op[t].kind = "absent" => op[t].promised = Empty
           /\ op[t].kind = "fetch" => file[op[t].key] = Bytes(op[t].promised)
<1>1. op[t] \in Ops /\ op[t] # NoCall /\ op[t].key \in Keys /\ op[t].promised \in Values
  BY OpFields DEF IInv, TypeOK, NoCall
<1>2. \A s \in Threads : op[s].kind = "fill" => op[s].key # op[t].key
  BY <1>1 DEF IInv, WritersAlone, Writes
<1>3. Holds(op[t].key)
  BY <1>1, <1>2 DEF IInv, FilesHold
<1> QED
  BY <1>1, <1>3 DEF IInv, ReadersCurrent, Holds

\* A read returns what the key held when it was opened.
LEMMA ReturnRefines ==
    ASSUME IInv, ~failed, NEW t \in Threads, ReturnEmpty(t) \/ Fetch(t)
    PROVE  Abstract!EndRead(t)
<1>1. call' = [call EXCEPT ![t] = Abstract!NoCall]
  BY EndRefines DEF ReturnEmpty, Fetch, IInv
<1>2. call[t].kind = "read" /\ call[t].promised = op[t].promised
  BY CallOfOp DEF ReturnEmpty, Fetch, IInv
<1>3. result' = [thread |-> t, answer |-> Points(op[t].promised)]
  <2>1. CASE ReturnEmpty(t)
    BY <2>1, ReadHolds DEF ReturnEmpty
  <2>2. CASE Fetch(t)
    <3>1. op[t].promised \in Values /\ file[op[t].key] = Bytes(op[t].promised)
      BY <2>2, ReadHolds DEF Fetch
    <3>2. Decode(file[op[t].key]) = Points(op[t].promised)
      BY <3>1, DecodeBytes
    <3> QED
      BY <2>2, <3>2 DEF Fetch
  <2> QED
    BY <2>1, <2>2
<1>4. UNCHANGED <<written, failed>>
  BY DEF ReturnEmpty, Fetch
<1> QED
  BY <1>1, <1>2, <1>3, <1>4 DEF Abstract!EndRead, call, Points

\* A read that fails has no answer.
LEMMA ReadFailsRefines ==
    ASSUME TypeOK, NEW t \in Threads, ReadFails(t)
    PROVE  Abstract!ReadFails(t)
<1>1. call' = [call EXCEPT ![t] = Abstract!NoCall]
  BY EndRefines DEF ReadFails
<1>2. call[t].kind = "read"
  BY CallOfOp DEF ReadFails
<1>3. UNCHANGED <<written, result, failed>>
  BY DEF ReadFails
<1> QED
  BY <1>1, <1>2, <1>3 DEF Abstract!ReadFails, call

\* The header of the file names the list last written.
LEMMA CountRefines ==
    ASSUME IInv, ~failed, NEW t \in Threads, NEW k \in Keys, Count(t, k)
    PROVE  Abstract!Count(t, k)
<1>1. \A s \in Threads : op[s].kind = "fill" => op[s].key # k
  BY DEF Count, Mine, NoCall
<1>2. Holds(k) /\ written[k] \in Values
  BY <1>1 DEF IInv, FilesHold, TypeOK
<1>3. (IF k \in exists /\ file[k] # <<>> THEN PointCount[file[k][1][1]] ELSE 0)
        = PointCount[written[k]]
  <2>1. CASE k \in exists
    <3>1. file[k] = Bytes(written[k]) /\ file[k] # <<>> /\ file[k][1] = <<written[k], 1>>
      BY <1>2, <2>1, DecodeBytes DEF Holds
    <3>2. file[k][1][1] = written[k]
      BY <3>1
    <3> QED
      BY <2>1, <3>1, <3>2
  <2>2. CASE k \notin exists
    BY <1>2, <2>2, FileStoreAssumption DEF Holds
  <2> QED
    BY <2>1, <2>2
<1>4. call[t] = Abstract!NoCall
  BY CallOfOp DEF Count, IInv
<1>5. /\ result' = [thread |-> t,
                    answer |-> [kind |-> "count", val |-> PointCount[written[k]]]]
      /\ UNCHANGED <<written, failed, op>>
  BY <1>3 DEF Count
<1> QED
  BY <1>4, <1>5 DEF Abstract!Count, call

\* An empty scratch directory is an empty node store with no caller in a call.
LEMMA RefinementInit == Init => Abstract!Init
<1> SUFFICES ASSUME Init PROVE Abstract!Init
  OBVIOUS
<1>1. \A t \in Threads : CallOf(op[t]) = Abstract!NoCall
  BY CallIs DEF Init, Ops
<1> QED
  BY <1>1 DEF Init, Abstract!Init, Abstract!NoCall, Abstract!NoResult, NoResult

\* Once a write has failed the trait promises nothing more.
LEMMA AfterFailureRefines ==
    ASSUME failed, [Next]_vars
    PROVE  Abstract!Next \/ UNCHANGED Abstract!storeVars
<1>1. CASE UNCHANGED vars
  BY <1>1 DEF vars, Abstract!storeVars, call
<1>2. failed'
  BY DEF Next, vars, BeginWrite, Open, Count, Create, Spill, Flush, WriteFails, ReturnEmpty,
         Fetch, ReadFails
<1> QED
  BY <1>2 DEF Abstract!Next, Abstract!AfterFailure

\* Every step of the file backend is a step of the abstract store or changes
\* nothing a caller can see: creating the file, and a read or a count that fails
\* before it has answered, are told apart by what is left under the key.
LEMMA RefinementStep ==
    IInv /\ [Next]_vars => [Abstract!Next]_(Abstract!storeVars)
<1> SUFFICES ASSUME IInv, [Next]_vars
             PROVE  Abstract!Next \/ UNCHANGED Abstract!storeVars
  OBVIOUS
<1> USE DEF IInv
<1>1. CASE failed
  BY <1>1, AfterFailureRefines
<1>2. ASSUME NEW t \in Threads, NEW k \in Keys, NEW v \in Values, BeginWrite(t, k, v)
      PROVE  Abstract!Next
  BY <1>2, BeginWriteRefines DEF Abstract!Next
<1>3. ASSUME NEW t \in Threads, Create(t) \/ Spill(t)
      PROVE  UNCHANGED Abstract!storeVars
  BY <1>3, FillRefines
<1>4. ASSUME NEW t \in Threads, Flush(t) PROVE Abstract!Next
  BY <1>4, FlushRefines DEF Abstract!Next
<1>5. ASSUME NEW t \in Threads, WriteFails(t) PROVE Abstract!Next
  BY <1>5, WriteFailsRefines DEF Abstract!Next
<1>6. ASSUME NEW t \in Threads, NEW k \in Keys, Open(t, k) PROVE Abstract!Next
  BY <1>6, OpenRefines DEF Abstract!Next
<1>7. ASSUME ~failed, NEW t \in Threads, ReturnEmpty(t) \/ Fetch(t) PROVE Abstract!Next
  BY <1>7, ReturnRefines DEF Abstract!Next
<1>8. ASSUME NEW t \in Threads, ReadFails(t) PROVE Abstract!Next
  BY <1>8, ReadFailsRefines DEF Abstract!Next
<1>9. ASSUME ~failed, NEW t \in Threads, NEW k \in Keys, Count(t, k) PROVE Abstract!Next
  BY <1>9, CountRefines DEF Abstract!Next
<1>10. CASE UNCHANGED vars
  BY <1>10 DEF vars, Abstract!storeVars
<1> QED
  BY <1>1, <1>2, <1>3, <1>4, <1>5, <1>6, <1>7, <1>8, <1>9, <1>10 DEF Next

\* The file store implements the trait `NodeStore` for callers that keep a key
\* to themselves while they write it: a read or a count answers with the list
\* last written under the key, however the write reached the file.
THEOREM FileStoreRefines == Spec => ImplementsNodeStore
BY RefinementInit, RefinementStep, FilesAreSound, PTL
   DEF Spec, ImplementsNodeStore, Abstract!Spec
=============================================================================
