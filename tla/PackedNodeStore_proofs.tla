------------------------ MODULE PackedNodeStore_proofs ------------------------
(***************************************************************************)
(* For every number of threads, packs, keys and lists, and whatever prefix *)
(* of its buffer BufWriter pushes out: the index of the packed store is    *)
(* sound, its readers are safe, and it implements the trait NodeStore.     *)
(***************************************************************************)
EXTENDS PackedNodeStore, SequenceTheorems, TLAPS

\* The cursor is the length of a pack no write has failed on, a failure is
\* recorded at a position the cursor had, and the file is part of the stream.
PacksInStep ==
    \A p \in Packs :
        /\ torn[p] = {} => cursor[p] = Len(stream[p])
        /\ \A c \in torn[p] : c <= cursor[p]
        /\ flushed[p] <= Len(stream[p])

\* A location not yet in the index is already good.
WritersSafe ==
    \A t \in Threads :
        op[t].kind = "publish" => Locates(op[t].loc, op[t].val)

\* Keys without a location hold the empty list.
AbsentEmpty ==
    /\ \A k \in Keys : index[k] = NoLocation => written[k] = Empty
    /\ \A t \in Threads : op[t].kind = "absent" => op[t].promised = Empty

IInv == TypeOK /\ PacksInStep /\ IndexHolds /\ WritersSafe /\ ReadersSafe
               /\ AbsentEmpty

-----------------------------------------------------------------------------
(* What the kind of a call says of its fields.                             *)

LEMMA OpFields ==
    ASSUME NEW o \in Ops
    PROVE  /\ o.kind \in {"none", "append", "publish", "absent", "flush",
                          "fetch"}
           /\ o.kind = "none" => o = NoCall
           /\ o.kind \in {"append", "publish"} =>
                 o.key \in Keys /\ o.val \in Values
           /\ o.kind \in {"absent", "flush", "fetch"} =>
                 o.key \in Keys /\ o.promised \in Values
           /\ o.kind \in {"publish", "flush", "fetch"} => o.loc \in Locations
<1>1. CASE o = NoCall
  BY <1>1 DEF NoCall
<1>2. CASE o \in [kind : {"append"}, key : Keys, val : Values]
  BY <1>2
<1>3. CASE o \in [kind : {"publish"}, key : Keys, val : Values, loc : Locations]
  BY <1>3
<1>4. CASE o \in [kind : {"absent"}, key : Keys, promised : Values]
  BY <1>4
<1>5. CASE o \in [kind : {"flush", "fetch"}, key : Keys, promised : Values,
                  loc : Locations]
  BY <1>5
<1> QED
  BY <1>1, <1>2, <1>3, <1>4, <1>5 DEF Ops

-----------------------------------------------------------------------------
(* Packs only grow, so what a location holds it holds for ever.            *)

\* The packs after a step begin with the packs before it.
Grows ==
    \A p \in Packs :
        /\ Len(stream[p]) <= Len(stream'[p])
        /\ \A i \in 1 .. Len(stream[p]) : stream'[p][i] = stream[p][i]
        /\ torn[p] \subseteq torn'[p]
        /\ flushed[p] <= flushed'[p]

LEMMA BytesType ==
    ASSUME NEW v \in Values
    PROVE  /\ Bytes(v) \in Seq(Values \X (Nat \ {0}))
           /\ Len(Bytes(v)) = Size[v]
           /\ \A i \in 1 .. Size[v] : Bytes(v)[i] = <<v, i>>
<1>1. Size[v] \in Nat \ {0}
  BY PackedAssumption
<1>2. Bytes(v) \in [1 .. Size[v] -> Values \X (Nat \ {0})]
  BY <1>1 DEF Bytes
<1>3. Bytes(v) \in Seq(Values \X (Nat \ {0})) /\ Len(Bytes(v)) = Size[v]
  BY <1>1, <1>2
<1> QED
  BY <1>1, <1>3 DEF Bytes

\* Different lists have different bytes: the first unit names its list.
LEMMA BytesInjective ==
    ASSUME NEW v \in Values, NEW w \in Values, Bytes(v) = Bytes(w)
    PROVE  v = w
<1>1. 1 \in 1 .. Size[v] /\ 1 \in 1 .. Size[w]
  BY PackedAssumption
<1>2. Bytes(v)[1] = <<v, 1>> /\ Bytes(w)[1] = <<w, 1>>
  BY <1>1, BytesType
<1> QED
  BY <1>2

LEMMA DecodeBytes ==
    ASSUME NEW v \in Values
    PROVE  Decode(Bytes(v)) = Points(v)
<1>1. \E w \in Values : Bytes(v) = Bytes(w)
  OBVIOUS
<1>2. (CHOOSE w \in Values : Bytes(v) = Bytes(w)) = v
  BY <1>1, BytesInjective
<1> QED
  BY <1>1, <1>2 DEF Decode

\* Locates, said of the packs after the step.
LocatesNext(loc, v) ==
    /\ loc.len = Size[v]
    /\ loc.count = PointCount[v]
    /\ (\A c \in torn'[loc.pack] : loc.offset + loc.len <= c) =>
          /\ loc.offset + loc.len <= Len(stream'[loc.pack])
          /\ \A i \in 1 .. loc.len :
                stream'[loc.pack][loc.offset + i] = <<v, i>>

\* The range of a location is in the file after the step, unless damaged.
InFileNext(loc) ==
    (\A c \in torn'[loc.pack] : loc.offset + loc.len <= c) =>
        loc.offset + loc.len <= flushed'[loc.pack]

LEMMA LocatesStable ==
    ASSUME TypeOK, TypeOK', Grows
    PROVE  \A loc \in Locations, v \in Values :
              Locates(loc, v) => LocatesNext(loc, v)
<1> SUFFICES ASSUME NEW loc \in Locations, NEW v \in Values, Locates(loc, v)
             PROVE  LocatesNext(loc, v)
  OBVIOUS
<1>1. loc.pack \in Packs /\ loc.offset \in Nat /\ loc.len \in Nat
  BY DEF Locations
<1>2. ASSUME \A c \in torn'[loc.pack] : loc.offset + loc.len <= c
      PROVE  Undamaged(loc)
  BY <1>1, <1>2 DEF Undamaged, Grows
<1>3. ASSUME Holds(loc, v)
      PROVE  /\ loc.offset + loc.len <= Len(stream'[loc.pack])
             /\ \A i \in 1 .. loc.len :
                   stream'[loc.pack][loc.offset + i] = <<v, i>>
  <2>1. Len(stream[loc.pack]) \in Nat /\ Len(stream'[loc.pack]) \in Nat
    BY <1>1 DEF TypeOK
  <2>2. ASSUME NEW i \in 1 .. loc.len
        PROVE  stream'[loc.pack][loc.offset + i] = <<v, i>>
    <3>1. loc.offset + i \in 1 .. Len(stream[loc.pack])
      BY <1>1, <1>3, <2>1 DEF Holds
    <3> QED
      BY <1>1, <1>3, <3>1 DEF Holds, Grows
  <2>3. loc.offset + loc.len <= Len(stream'[loc.pack])
    BY <1>1, <1>3, <2>1 DEF Holds, Grows
  <2> QED
    BY <2>2, <2>3
<1> QED
  BY <1>2, <1>3 DEF Locates, LocatesNext

-----------------------------------------------------------------------------
(* The two steps that write to a pack.                                     *)

LEMMA StreamGrows ==
    ASSUME TypeOK, NEW p \in Packs, NEW s \in Seq(Values \X (Nat \ {0})),
           stream' = [stream EXCEPT ![p] = @ \o s],
           \A q \in Packs : torn[q] \subseteq torn'[q],
           \A q \in Packs : flushed[q] <= flushed'[q]
    PROVE  /\ stream' \in [Packs -> Seq(Values \X (Nat \ {0}))]
           /\ Len(stream'[p]) = Len(stream[p]) + Len(s)
           /\ \A i \in 1 .. Len(s) : stream'[p][Len(stream[p]) + i] = s[i]
           /\ Grows
<1> DEFINE U == Values \X (Nat \ {0})
<1>1. stream[p] \in Seq(U) /\ stream'[p] = stream[p] \o s
  BY DEF TypeOK
<1>2. /\ stream[p] \o s \in Seq(U)
      /\ Len(stream[p] \o s) = Len(stream[p]) + Len(s)
      /\ \A i \in 1 .. Len(stream[p]) : (stream[p] \o s)[i] = stream[p][i]
      /\ \A i \in 1 .. Len(s) : (stream[p] \o s)[Len(stream[p]) + i] = s[i]
  <2>1. stream[p] \in Seq(U) /\ s \in Seq(U)
    BY <1>1
  <2> HIDE DEF U
  <2> QED
    BY <2>1, ConcatProperties
<1>3. Len(stream[p]) \in Nat /\ Len(s) \in Nat
  BY <1>1
<1>4. ASSUME NEW q \in Packs
      PROVE  /\ Len(stream[q]) <= Len(stream'[q])
             /\ \A i \in 1 .. Len(stream[q]) : stream'[q][i] = stream[q][i]
  <2>1. CASE q = p
    BY <1>1, <1>2, <1>3, <2>1
  <2>2. CASE q # p
    <3>1. stream'[q] = stream[q] /\ Len(stream[q]) \in Nat
      BY <2>2 DEF TypeOK
    <3> QED
      BY <3>1
  <2> QED
    BY <2>1, <2>2
<1>5. stream' \in [Packs -> Seq(U)]
  BY <1>2 DEF TypeOK
<1> QED
  BY <1>1, <1>2, <1>4, <1>5 DEF Grows

LEMMA AppendGrows ==
    ASSUME TypeOK, NEW t \in Threads, AppendToPack(t)
    PROVE  /\ stream' \in [Packs -> Seq(Values \X (Nat \ {0}))]
           /\ Len(stream'[PackOf[t]]) = Len(stream[PackOf[t]]) + Size[op[t].val]
           /\ \A i \in 1 .. Size[op[t].val] :
                 stream'[PackOf[t]][Len(stream[PackOf[t]]) + i] = <<op[t].val, i>>
           /\ Grows
<1> DEFINE p == PackOf[t]
           v == op[t].val
<1>1. p \in Packs /\ v \in Values
  BY OpFields, PackedAssumption DEF AppendToPack, TypeOK
<1>2. /\ Bytes(v) \in Seq(Values \X (Nat \ {0})) /\ Len(Bytes(v)) = Size[v]
      /\ \A i \in 1 .. Size[v] : Bytes(v)[i] = <<v, i>>
  BY <1>1, BytesType
<1>3. \A q \in Packs : torn[q] \subseteq torn'[q]
  BY DEF AppendToPack
<1>4. \A q \in Packs : flushed[q] <= flushed'[q]
  <2>1. PICK n \in flushed[p] .. (Len(stream[p]) + Size[v]) :
           flushed' = [flushed EXCEPT ![p] = n]
    BY DEF AppendToPack
  <2>2. \A q \in Packs : flushed[q] \in Nat
    BY DEF TypeOK
  <2>3. flushed'[p] = n /\ flushed[p] <= n
    BY <1>1, <2>1, <2>2, PackedAssumption DEF TypeOK
  <2> QED
    BY <2>1, <2>2, <2>3 DEF TypeOK
<1>5. stream' = [stream EXCEPT ![p] = @ \o Bytes(v)]
  BY DEF AppendToPack
<1> HIDE DEF p, v
<1>6. /\ stream' \in [Packs -> Seq(Values \X (Nat \ {0}))]
      /\ Len(stream'[p]) = Len(stream[p]) + Len(Bytes(v))
      /\ \A i \in 1 .. Len(Bytes(v)) :
            stream'[p][Len(stream[p]) + i] = Bytes(v)[i]
      /\ Grows
  BY <1>1, <1>2, <1>3, <1>4, <1>5, StreamGrows
<1> QED
  BY <1>2, <1>6 DEF p, v

LEMMA AppendFailsGrows ==
    ASSUME TypeOK, NEW t \in Threads, AppendFails(t)
    PROVE  /\ stream' \in [Packs -> Seq(Values \X (Nat \ {0}))]
           /\ \A p \in Packs : flushed[p] <= Len(stream[p]) =>
                                flushed'[p] <= Len(stream'[p])
           /\ Grows
<1> DEFINE p == PackOf[t]
           v == op[t].val
<1>1. p \in Packs /\ v \in Values
  BY OpFields, PackedAssumption DEF AppendFails, TypeOK
<1>2. PICK m \in 0 .. Size[v] :
         /\ stream' = [stream EXCEPT ![p] = @ \o SubSeq(Bytes(v), 1, m)]
         /\ \E n \in flushed[p] .. (Len(stream[p]) + m) :
               flushed' = [flushed EXCEPT ![p] = n]
  BY DEF AppendFails
<1>3. PICK n \in flushed[p] .. (Len(stream[p]) + m) :
         flushed' = [flushed EXCEPT ![p] = n]
  BY <1>2
<1>4. /\ Size[v] \in Nat /\ m \in Nat /\ m <= Size[v]
      /\ \A q \in Packs : Len(stream[q]) \in Nat /\ flushed[q] \in Nat
  BY <1>1, PackedAssumption DEF TypeOK
<1>5. /\ SubSeq(Bytes(v), 1, m) \in Seq(Values \X (Nat \ {0}))
      /\ Len(SubSeq(Bytes(v), 1, m)) = m
  BY <1>1, <1>4, BytesType
<1>6. \A q \in Packs : torn[q] \subseteq torn'[q]
  BY DEF AppendFails, TypeOK
<1>7. flushed'[p] = n /\ flushed[p] <= n /\ n <= Len(stream[p]) + m
  BY <1>1, <1>3, <1>4 DEF TypeOK
<1>8. \A q \in Packs : flushed[q] <= flushed'[q]
  BY <1>3, <1>4, <1>7 DEF TypeOK
<1> HIDE DEF p, v
<1>9. /\ stream' \in [Packs -> Seq(Values \X (Nat \ {0}))]
      /\ Len(stream'[p]) = Len(stream[p]) + m
      /\ Grows
  BY <1>1, <1>2, <1>5, <1>6, <1>8, StreamGrows
<1>10. \A q \in Packs : q # p => /\ stream'[q] = stream[q]
                                 /\ flushed'[q] = flushed[q]
  BY <1>2, <1>3 DEF TypeOK
<1> QED
  BY <1>7, <1>9, <1>10

\* An index entry, and the location of a call in progress, that a step leaves
\* alone stay sound when the packs only grow.
LEMMA EntriesStable ==
    ASSUME IInv, TypeOK', Grows
    PROVE  /\ \A k \in Keys :
                 /\ index'[k] = index[k] /\ written'[k] = written[k]
                 /\ index[k] # NoLocation
                 => LocatesNext(index'[k], written'[k])
           /\ \A t \in Threads :
                 /\ op'[t] = op[t]
                 /\ op[t].kind = "publish"
                 => LocatesNext(op'[t].loc, op'[t].val)
           /\ \A t \in Threads :
                 /\ op'[t] = op[t]
                 /\ op[t].kind \in {"flush", "fetch"}
                 => LocatesNext(op'[t].loc, op'[t].promised)
           /\ \A t \in Threads :
                 /\ op'[t] = op[t]
                 /\ op[t].kind = "fetch"
                 => InFileNext(op'[t].loc)
<1> USE DEF IInv
<1>1. ASSUME NEW k \in Keys, index[k] # NoLocation
      PROVE  LocatesNext(index[k], written[k])
  <2>1. index[k] \in Locations /\ written[k] \in Values
    BY <1>1 DEF TypeOK
  <2> QED
    BY <1>1, <2>1, LocatesStable DEF IndexHolds
<1>2. ASSUME NEW t \in Threads, op[t].kind = "publish"
      PROVE  LocatesNext(op[t].loc, op[t].val)
  <2>1. op[t].loc \in Locations /\ op[t].val \in Values
    BY <1>2, OpFields DEF TypeOK
  <2> QED
    BY <1>2, <2>1, LocatesStable DEF WritersSafe
<1>3. ASSUME NEW t \in Threads, op[t].kind \in {"flush", "fetch"}
      PROVE  LocatesNext(op[t].loc, op[t].promised)
  <2>1. op[t].loc \in Locations /\ op[t].promised \in Values
    BY <1>3, OpFields DEF TypeOK
  <2> QED
    BY <1>3, <2>1, LocatesStable DEF ReadersSafe
<1>4. ASSUME NEW t \in Threads, op[t].kind = "fetch"
      PROVE  InFileNext(op[t].loc)
  <2>1. op[t].loc \in Locations
    BY <1>4, OpFields DEF TypeOK
  <2>2. /\ op[t].loc.pack \in Packs
        /\ op[t].loc.offset \in Nat /\ op[t].loc.len \in Nat
    BY <2>1 DEF Locations
  <2>3. Undamaged(op[t].loc) =>
           op[t].loc.offset + op[t].loc.len <= flushed[op[t].loc.pack]
    BY <1>4 DEF ReadersSafe
  <2>4. flushed[op[t].loc.pack] \in Nat /\ flushed'[op[t].loc.pack] \in Nat
    BY <2>2 DEF TypeOK
  <2>5. ASSUME \A c \in torn'[op[t].loc.pack] :
                  op[t].loc.offset + op[t].loc.len <= c
        PROVE  Undamaged(op[t].loc)
    BY <2>2, <2>5 DEF Undamaged, Grows
  <2>6. flushed[op[t].loc.pack] <= flushed'[op[t].loc.pack]
    BY <2>2 DEF Grows
  <2> QED
    BY <2>2, <2>3, <2>4, <2>5, <2>6 DEF InFileNext
<1> QED
  BY <1>1, <1>2, <1>3, <1>4

-----------------------------------------------------------------------------
(* Type correctness.                                                       *)

LEMMA TypeStep == TypeOK /\ [Next]_vars => TypeOK'
<1> SUFFICES ASSUME TypeOK, [Next]_vars PROVE TypeOK'
  OBVIOUS
<1>1. ASSUME NEW t \in Threads, NEW k \in Keys, NEW v \in Values,
             BeginWrite(t, k, v)
      PROVE  TypeOK'
  BY <1>1 DEF BeginWrite, TypeOK, Ops
<1>2. ASSUME NEW t \in Threads, AppendToPack(t) PROVE TypeOK'
  <2> DEFINE p == PackOf[t]
             v == op[t].val
  <2>1. p \in Packs /\ v \in Values /\ op[t].key \in Keys
    BY <1>2, OpFields, PackedAssumption DEF AppendToPack, TypeOK
  <2>2. Bytes(v) \in Seq(Values \X (Nat \ {0})) /\ Len(stream[p]) \in Nat
    BY <2>1, BytesType DEF TypeOK
  <2>3. stream' \in [Packs -> Seq(Values \X (Nat \ {0}))]
    BY <1>2, AppendGrows
  <2>4. Size[v] \in Nat /\ PointCount[v] \in Nat /\ cursor[p] \in Nat
    BY <2>1, PackedAssumption DEF TypeOK
  <2>5. flushed' \in [Packs -> Nat] /\ cursor' \in [Packs -> Nat]
    BY <1>2, <2>1, <2>2, <2>4 DEF AppendToPack, TypeOK
  <2>6. [pack |-> p, offset |-> cursor[p], len |-> Size[v],
         count |-> PointCount[v]] \in Locations
    BY <2>1, <2>4 DEF Locations
  <2>7. op' \in [Threads -> Ops]
    BY <1>2, <2>1, <2>6 DEF AppendToPack, TypeOK, Ops
  <2> QED
    BY <1>2, <2>3, <2>5, <2>7 DEF AppendToPack, TypeOK
<1>3. ASSUME NEW t \in Threads, AppendFails(t) PROVE TypeOK'
  <2> DEFINE p == PackOf[t]
             v == op[t].val
  <2>1. p \in Packs /\ v \in Values
    BY <1>3, OpFields, PackedAssumption DEF AppendFails, TypeOK
  <2>2. PICK m \in 0 .. Size[v] :
           /\ stream' = [stream EXCEPT ![p] = @ \o SubSeq(Bytes(v), 1, m)]
           /\ \E n \in flushed[p] .. (Len(stream[p]) + m) :
                 flushed' = [flushed EXCEPT ![p] = n]
    BY <1>3 DEF AppendFails
  <2>3. Size[v] \in Nat /\ m \in Nat /\ Len(stream[p]) \in Nat
    BY <2>1, PackedAssumption DEF TypeOK
  <2>6. stream' \in [Packs -> Seq(Values \X (Nat \ {0}))]
    BY <1>3, AppendFailsGrows
  <2>7. flushed' \in [Packs -> Nat]
    BY <2>1, <2>2, <2>3 DEF TypeOK
  <2>8. torn' \in [Packs -> SUBSET Nat] /\ op' \in [Threads -> Ops]
    BY <1>3, <2>1 DEF AppendFails, TypeOK, Ops
  <2> QED
    BY <1>3, <2>6, <2>7, <2>8 DEF AppendFails, TypeOK
<1>4. ASSUME NEW t \in Threads, InsertIndex(t) PROVE TypeOK'
  <2>1. op[t].loc \in Locations /\ op[t].val \in Values /\ op[t].key \in Keys
    BY <1>4, OpFields DEF InsertIndex, TypeOK
  <2> QED
    BY <1>4, <2>1 DEF InsertIndex, TypeOK, Ops
<1>5. ASSUME NEW t \in Threads, NEW k \in Keys, LookUp(t, k) PROVE TypeOK'
  <2>1. CASE index[k] = NoLocation
    BY <1>5, <2>1 DEF LookUp, TypeOK, Ops
  <2>2. CASE index[k] # NoLocation
    <3>1. index[k] \in Locations
      BY <2>2 DEF TypeOK
    <3> QED
      BY <1>5, <2>2, <3>1 DEF LookUp, TypeOK, Ops
  <2> QED
    BY <2>1, <2>2
<1>6. ASSUME NEW t \in Threads, ReturnEmpty(t) PROVE TypeOK'
  BY <1>6 DEF ReturnEmpty, TypeOK, Ops
<1>7. ASSUME NEW t \in Threads, FlushPack(t) PROVE TypeOK'
  <2>1. op[t].loc \in Locations /\ op[t].promised \in Values /\ op[t].key \in Keys
    BY <1>7, OpFields DEF FlushPack, TypeOK
  <2>2. op[t].loc.pack \in Packs /\ Len(stream[op[t].loc.pack]) \in Nat
    BY <2>1 DEF Locations, TypeOK
  <2>3. [op[t] EXCEPT !.kind = "fetch"] \in Ops
    <3>1. op[t] \in [kind : {"flush", "fetch"}, key : Keys,
                     promised : Values, loc : Locations]
      <4>1. op[t] \in Ops /\ op[t].kind = "flush"
        BY <1>7 DEF FlushPack, TypeOK
      <4> QED
        BY <4>1 DEF Ops, NoCall
    <3> QED
      BY <3>1 DEF Ops
  <2> QED
    BY <1>7, <2>2, <2>3 DEF FlushPack, TypeOK
<1>8. ASSUME NEW t \in Threads, Fetch(t) PROVE TypeOK'
  BY <1>8 DEF Fetch, TypeOK, Ops
<1>9. ASSUME NEW t \in Threads, NEW k \in Keys, Count(t, k) PROVE TypeOK'
  BY <1>9 DEF Count, TypeOK
<1>10. ASSUME NEW t \in Threads, ReadFails(t) PROVE TypeOK'
  <2>1. op[t].loc.pack \in Packs
    BY <1>10, OpFields DEF ReadFails, TypeOK, Locations
  <2>2. flushed' \in [Packs -> Nat]
    BY <1>10, <2>1 DEF ReadFails, TypeOK
  <2> QED
    BY <1>10, <2>2 DEF ReadFails, TypeOK, Ops
<1>11. CASE UNCHANGED vars
  BY <1>11 DEF vars, TypeOK
<1> QED
  BY <1>1, <1>2, <1>3, <1>4, <1>5, <1>6, <1>7, <1>8, <1>9, <1>10, <1>11
  DEF Next

LEMMA TypeInit == Init => TypeOK
BY PackedAssumption DEF Init, TypeOK, Ops

\* Every variable keeps its type: the cursors, the byte ranges and the calls in
\* progress of node_store.rs are well formed in every reachable state.
THEOREM TypeCorrect == Spec => []TypeOK
BY TypeInit, TypeStep, PTL DEF Spec

-----------------------------------------------------------------------------
(* The inductive invariant.                                                *)

LEMMA InvInit == Init => IInv
<1> SUFFICES ASSUME Init PROVE IInv
  OBVIOUS
<1>1. TypeOK
  BY TypeInit
<1>2. PacksInStep
  BY DEF Init, PacksInStep
<1>3. IndexHolds /\ WritersSafe /\ ReadersSafe /\ AbsentEmpty
  BY DEF Init, IndexHolds, WritersSafe, ReadersSafe, AbsentEmpty, NoCall
<1> QED
  BY <1>1, <1>2, <1>3 DEF IInv

LEMMA LocationIsSome ==
    ASSUME NEW loc \in Locations
    PROVE  loc # NoLocation
<1>1. "pack" \in DOMAIN loc
  BY DEF Locations
<1>2. DOMAIN NoLocation = {"kind"}
  BY DEF NoLocation
<1> QED
  BY <1>1, <1>2

\* A step that leaves the packs alone.
LEMMA GrowsTrivially ==
    ASSUME TypeOK, UNCHANGED <<stream, flushed, torn>>
    PROVE  Grows
BY DEF TypeOK, Grows

\* The primed invariants, said of what the step leaves in the variables.
LEMMA SoundnessNext ==
    ASSUME TypeOK', NEW t \in Threads,
           \A k \in Keys : index'[k] # NoLocation =>
                              LocatesNext(index'[k], written'[k]),
           \A u \in Threads : op'[u].kind = "publish" =>
                              LocatesNext(op'[u].loc, op'[u].val),
           \A u \in Threads : op'[u].kind \in {"flush", "fetch"} =>
                              LocatesNext(op'[u].loc, op'[u].promised),
           \A u \in Threads : op'[u].kind = "fetch" => InFileNext(op'[u].loc)
    PROVE  IndexHolds' /\ WritersSafe' /\ ReadersSafe'
<1>1. IndexHolds'
  BY DEF IndexHolds, Locates, Undamaged, Holds, LocatesNext
<1>2. WritersSafe'
  BY DEF WritersSafe, Locates, Undamaged, Holds, LocatesNext
<1>3. ReadersSafe'
  BY DEF ReadersSafe, Locates, Undamaged, Holds, LocatesNext, InFileNext
<1> QED
  BY <1>1, <1>2, <1>3

\* A step of thread t that leaves the index alone and after which t has neither
\* a location to publish nor one to read.
LEMMA QuietStep ==
    ASSUME IInv, TypeOK', Grows, NEW t \in Threads,
           UNCHANGED <<index, written>>,
           \A u \in Threads : u # t => op'[u] = op[u],
           op'[t].kind \notin {"publish", "flush", "fetch"}
    PROVE  IndexHolds' /\ WritersSafe' /\ ReadersSafe'
<1>1. \A k \in Keys : index'[k] # NoLocation =>
                         LocatesNext(index'[k], written'[k])
  BY EntriesStable
<1>2. \A u \in Threads : op'[u].kind = "publish" =>
                         LocatesNext(op'[u].loc, op'[u].val)
  BY EntriesStable
<1>3. \A u \in Threads : op'[u].kind \in {"flush", "fetch"} =>
                         LocatesNext(op'[u].loc, op'[u].promised)
  BY EntriesStable
<1>4. \A u \in Threads : op'[u].kind = "fetch" => InFileNext(op'[u].loc)
  BY EntriesStable
<1> QED
  BY <1>1, <1>2, <1>3, <1>4, SoundnessNext

LEMMA AppendStep ==
    ASSUME IInv, TypeOK', NEW t \in Threads, AppendToPack(t)
    PROVE  IInv'
<1> USE DEF IInv
<1> DEFINE p == PackOf[t]
           v == op[t].val
           loc == [pack |-> p, offset |-> cursor[p], len |-> Size[v],
                   count |-> PointCount[v]]
<1>1. /\ p \in Packs /\ v \in Values
      /\ Size[v] \in Nat \ {0} /\ cursor[p] \in Nat /\ Len(stream[p]) \in Nat
  BY OpFields, PackedAssumption DEF AppendToPack, TypeOK
<1>2. /\ Len(stream'[p]) = Len(stream[p]) + Size[v]
      /\ \A i \in 1 .. Size[v] : stream'[p][Len(stream[p]) + i] = <<v, i>>
      /\ Grows
  BY AppendGrows
<1>3. op'[t].kind = "publish" /\ op'[t].loc = loc /\ op'[t].val = v
  BY DEF AppendToPack, TypeOK
<1>4. \A u \in Threads : u # t => op'[u] = op[u]
  BY DEF AppendToPack, TypeOK
<1>5. UNCHANGED <<index, written, torn>>
  BY DEF AppendToPack
<1>6. PacksInStep'
  <2>1. cursor'[p] = cursor[p] + Size[v]
    BY <1>1 DEF AppendToPack, TypeOK
  <2>2. flushed'[p] <= Len(stream[p]) + Size[v]
    BY <1>1 DEF AppendToPack, TypeOK
  <2>3. ASSUME NEW q \in Packs, q # p
        PROVE  /\ stream'[q] = stream[q] /\ flushed'[q] = flushed[q]
               /\ cursor'[q] = cursor[q]
    BY <2>3 DEF AppendToPack, TypeOK
  <2>4. \A c \in torn[p] : c \in Nat
    BY <1>1 DEF TypeOK
  <2> QED
    BY <1>1, <1>2, <1>5, <2>1, <2>2, <2>3, <2>4 DEF PacksInStep
<1>7. LocatesNext(loc, v)
  <2>1. ASSUME \A c \in torn'[p] : cursor[p] + Size[v] <= c
        PROVE  cursor[p] = Len(stream[p])
    <3>1. \A c \in torn[p] : c \in Nat /\ c <= cursor[p]
      BY <1>1 DEF TypeOK, PacksInStep
    <3>2. torn[p] = {}
      BY <1>1, <1>5, <2>1, <3>1
    <3> QED
      BY <1>1, <3>2 DEF PacksInStep
  <2>2. /\ loc.pack = p /\ loc.offset = cursor[p] /\ loc.len = Size[v]
        /\ loc.count = PointCount[v]
    OBVIOUS
  <2> HIDE DEF loc, p, v
  <2>3. ASSUME \A c \in torn'[p] : cursor[p] + Size[v] <= c
        PROVE  /\ cursor[p] + Size[v] <= Len(stream'[p])
               /\ \A i \in 1 .. Size[v] : stream'[p][cursor[p] + i] = <<v, i>>
    <3>1. cursor[p] = Len(stream[p])
      BY <2>1, <2>3
    <3>2. cursor[p] + Size[v] <= Len(stream'[p])
      BY <1>1, <1>2, <3>1
    <3>3. \A i \in 1 .. Size[v] : stream'[p][cursor[p] + i] = <<v, i>>
      BY <1>2, <3>1
    <3> QED
      BY <3>2, <3>3
  <2> QED
    BY <2>2, <2>3 DEF LocatesNext
<1>8. IndexHolds' /\ WritersSafe' /\ ReadersSafe'
  <2> HIDE DEF loc, v, p
  <2>1. \A k \in Keys : index'[k] # NoLocation =>
                           LocatesNext(index'[k], written'[k])
    BY <1>2, <1>5, EntriesStable
  <2>2. \A u \in Threads : op'[u].kind = "publish" =>
                           LocatesNext(op'[u].loc, op'[u].val)
    BY <1>2, <1>3, <1>4, <1>7, EntriesStable
  <2>3. \A u \in Threads : op'[u].kind \in {"flush", "fetch"} =>
                           LocatesNext(op'[u].loc, op'[u].promised)
    BY <1>2, <1>3, <1>4, EntriesStable
  <2>4. \A u \in Threads : op'[u].kind = "fetch" => InFileNext(op'[u].loc)
    BY <1>2, <1>3, <1>4, EntriesStable
  <2> QED
    BY <2>1, <2>2, <2>3, <2>4, SoundnessNext
<1>9. AbsentEmpty'
  BY <1>3, <1>4, <1>5 DEF AbsentEmpty
<1> QED
  BY <1>6, <1>8, <1>9

LEMMA AppendFailsStep ==
    ASSUME IInv, TypeOK', NEW t \in Threads, AppendFails(t)
    PROVE  IInv'
<1> USE DEF IInv
<1>1. /\ \A q \in Packs : flushed'[q] <= Len(stream'[q])
      /\ Grows
  BY AppendFailsGrows DEF PacksInStep
<1>2. /\ op'[t] = NoCall
      /\ \A u \in Threads : u # t => op'[u] = op[u]
      /\ UNCHANGED <<index, written, cursor>>
  BY DEF AppendFails, TypeOK
<1>3. PacksInStep'
  <2> DEFINE p == PackOf[t]
  <2>1. p \in Packs
    BY PackedAssumption
  <2>2. torn'[p] = torn[p] \cup {cursor[p]}
    BY <2>1 DEF AppendFails, TypeOK
  <2>3. ASSUME NEW q \in Packs, q # p
        PROVE  stream'[q] = stream[q] /\ torn'[q] = torn[q]
    BY <2>3 DEF AppendFails, TypeOK
  <2>4. cursor[p] \in Nat
    BY <2>1 DEF TypeOK
  <2> QED
    BY <1>1, <1>2, <2>1, <2>2, <2>3, <2>4 DEF PacksInStep
<1>4. IndexHolds' /\ WritersSafe' /\ ReadersSafe'
  BY <1>1, <1>2, QuietStep DEF NoCall
<1>5. AbsentEmpty'
  BY <1>2 DEF AbsentEmpty, NoCall
<1> QED
  BY <1>3, <1>4, <1>5

LEMMA InsertStep ==
    ASSUME IInv, TypeOK', NEW t \in Threads, InsertIndex(t)
    PROVE  IInv'
<1> USE DEF IInv
<1>1. /\ op[t].loc \in Locations /\ op[t].val \in Values /\ op[t].key \in Keys
  BY OpFields DEF InsertIndex, TypeOK
<1>2. /\ op'[t] = NoCall
      /\ \A u \in Threads : u # t => op'[u] = op[u]
      /\ UNCHANGED <<stream, flushed, cursor, torn>>
  BY DEF InsertIndex, TypeOK
<1>3. Grows
  BY <1>2, GrowsTrivially
<1>4. PacksInStep'
  BY <1>2 DEF PacksInStep
<1>5. LocatesNext(op[t].loc, op[t].val)
  BY <1>1, <1>3, LocatesStable DEF InsertIndex, WritersSafe
<1>6. ASSUME NEW k \in Keys, index'[k] # NoLocation
      PROVE  LocatesNext(index'[k], written'[k])
  <2>1. CASE k = op[t].key
    <3>1. index'[k] = op[t].loc /\ written'[k] = op[t].val
      BY <1>1, <2>1 DEF InsertIndex, TypeOK
    <3> QED
      BY <1>5, <3>1
  <2>2. CASE k # op[t].key
    <3>1. index'[k] = index[k] /\ written'[k] = written[k]
      BY <2>2 DEF InsertIndex, TypeOK
    <3> QED
      BY <1>3, <1>6, <3>1, EntriesStable
  <2> QED
    BY <2>1, <2>2
<1>7. \A u \in Threads : op'[u].kind = "publish" =>
                         LocatesNext(op'[u].loc, op'[u].val)
  BY <1>2, <1>3, EntriesStable DEF NoCall
<1>8. \A u \in Threads : op'[u].kind \in {"flush", "fetch"} =>
                         LocatesNext(op'[u].loc, op'[u].promised)
  BY <1>2, <1>3, EntriesStable DEF NoCall
<1>9. \A u \in Threads : op'[u].kind = "fetch" => InFileNext(op'[u].loc)
  BY <1>2, <1>3, EntriesStable DEF NoCall
<1>10. IndexHolds' /\ WritersSafe' /\ ReadersSafe'
  BY <1>6, <1>7, <1>8, <1>9, SoundnessNext
<1>11. AbsentEmpty'
  <2>1. ASSUME NEW k \in Keys, index'[k] = NoLocation
        PROVE  written'[k] = Empty
    <3>1. k # op[t].key
      BY <1>1, <2>1, LocationIsSome DEF InsertIndex, TypeOK
    <3> QED
      BY <2>1, <3>1 DEF InsertIndex, TypeOK, AbsentEmpty
  <2>2. \A u \in Threads : op'[u].kind = "absent" => op'[u].promised = Empty
    BY <1>2 DEF AbsentEmpty, NoCall
  <2> QED
    BY <2>1, <2>2 DEF AbsentEmpty
<1> QED
  BY <1>4, <1>10, <1>11

LEMMA LookUpStep ==
    ASSUME IInv, TypeOK', NEW t \in Threads, NEW k \in Keys, LookUp(t, k)
    PROVE  IInv'
<1> USE DEF IInv
<1>1. /\ \A u \in Threads : u # t => op'[u] = op[u]
      /\ UNCHANGED <<stream, flushed, cursor, index, torn, written>>
  BY DEF LookUp, TypeOK
<1>2. Grows
  BY <1>1, GrowsTrivially
<1>3. PacksInStep'
  BY <1>1 DEF PacksInStep
<1>4. CASE index[k] = NoLocation
  <2>1. op'[t].kind = "absent" /\ op'[t].promised = written[k]
    BY <1>4 DEF LookUp, TypeOK
  <2>2. IndexHolds' /\ WritersSafe' /\ ReadersSafe'
    BY <1>1, <1>2, <2>1, QuietStep
  <2>3. AbsentEmpty'
    BY <1>1, <1>4, <2>1 DEF AbsentEmpty
  <2> QED
    BY <1>3, <2>2, <2>3
<1>5. CASE index[k] # NoLocation
  <2>1. /\ op'[t].kind = "flush" /\ op'[t].promised = written[k]
        /\ op'[t].loc = index[k]
    BY <1>5 DEF LookUp, TypeOK
  <2>2. LocatesNext(op'[t].loc, op'[t].promised)
    BY <1>1, <1>2, <1>5, <2>1, EntriesStable
  <2>3. \A u \in Threads : op'[u].kind = "publish" =>
                           LocatesNext(op'[u].loc, op'[u].val)
    BY <1>1, <1>2, <2>1, EntriesStable
  <2>4. \A u \in Threads : op'[u].kind \in {"flush", "fetch"} =>
                           LocatesNext(op'[u].loc, op'[u].promised)
    BY <1>1, <1>2, <2>2, EntriesStable
  <2>5. \A u \in Threads : op'[u].kind = "fetch" => InFileNext(op'[u].loc)
    BY <1>1, <1>2, <2>1, EntriesStable
  <2>6. \A j \in Keys : index'[j] # NoLocation =>
                           LocatesNext(index'[j], written'[j])
    BY <1>1, <1>2, EntriesStable
  <2>7. IndexHolds' /\ WritersSafe' /\ ReadersSafe'
    BY <2>3, <2>4, <2>5, <2>6, SoundnessNext
  <2>8. AbsentEmpty'
    BY <1>1, <2>1 DEF AbsentEmpty
  <2> QED
    BY <1>3, <2>7, <2>8
<1> QED
  BY <1>4, <1>5

LEMMA FlushStep ==
    ASSUME IInv, TypeOK', NEW t \in Threads, FlushPack(t)
    PROVE  IInv'
<1> USE DEF IInv
<1> DEFINE p == op[t].loc.pack
<1>1. op[t].loc \in Locations /\ op[t].promised \in Values
  BY OpFields DEF FlushPack, TypeOK
<1>2. /\ p \in Packs /\ op[t].loc.offset \in Nat /\ op[t].loc.len \in Nat
      /\ \A q \in Packs : Len(stream[q]) \in Nat /\ flushed[q] \in Nat
  BY <1>1 DEF Locations, TypeOK
<1>3. /\ \A u \in Threads : u # t => op'[u] = op[u]
      /\ UNCHANGED <<stream, cursor, index, torn, written>>
      /\ flushed'[p] = Len(stream[p])
      /\ \A q \in Packs : q # p => flushed'[q] = flushed[q]
  BY <1>2 DEF FlushPack, TypeOK
<1>4. Grows
  BY <1>2, <1>3 DEF Grows, PacksInStep
<1>5. PacksInStep'
  BY <1>2, <1>3 DEF PacksInStep
<1>6. /\ op'[t].kind = "fetch" /\ op'[t].loc = op[t].loc
      /\ op'[t].promised = op[t].promised
  <2>1. op'[t] = [op[t] EXCEPT !.kind = "fetch"]
    BY DEF FlushPack, TypeOK
  <2>2. op[t] \in [kind : {"flush", "fetch"}, key : Keys, promised : Values,
                   loc : Locations]
    <3>1. op[t] \in Ops /\ op[t].kind = "flush"
      BY DEF FlushPack, TypeOK
    <3> QED
      BY <3>1 DEF Ops, NoCall
  <2> QED
    BY <2>1, <2>2
<1>7. LocatesNext(op[t].loc, op[t].promised)
  BY <1>1, <1>4, LocatesStable DEF FlushPack, ReadersSafe
<1>8. InFileNext(op[t].loc)
  BY <1>3, <1>7 DEF LocatesNext, InFileNext
<1> HIDE DEF p
<1>9. \A k \in Keys : index'[k] # NoLocation =>
                         LocatesNext(index'[k], written'[k])
  BY <1>3, <1>4, EntriesStable
<1>10. \A u \in Threads : op'[u].kind = "publish" =>
                          LocatesNext(op'[u].loc, op'[u].val)
  BY <1>3, <1>4, <1>6, EntriesStable
<1>11. \A u \in Threads : op'[u].kind \in {"flush", "fetch"} =>
                          LocatesNext(op'[u].loc, op'[u].promised)
  BY <1>3, <1>4, <1>6, <1>7, EntriesStable
<1>12. \A u \in Threads : op'[u].kind = "fetch" => InFileNext(op'[u].loc)
  BY <1>3, <1>4, <1>6, <1>8, EntriesStable
<1>13. IndexHolds' /\ WritersSafe' /\ ReadersSafe'
  BY <1>9, <1>10, <1>11, <1>12, SoundnessNext
<1>14. AbsentEmpty'
  BY <1>3, <1>6 DEF AbsentEmpty
<1> QED
  BY <1>5, <1>13, <1>14

LEMMA ReadFailsStep ==
    ASSUME IInv, TypeOK', NEW t \in Threads, ReadFails(t)
    PROVE  IInv'
<1> USE DEF IInv
<1> DEFINE p == op[t].loc.pack
<1>1. p \in Packs
  BY OpFields DEF ReadFails, TypeOK, Locations
<1>2. PICK n \in flushed[p] .. Len(stream[p]) :
         flushed' = [flushed EXCEPT ![p] = n]
  BY DEF ReadFails
<1>3. /\ flushed[p] <= flushed'[p] /\ flushed'[p] <= Len(stream[p])
      /\ \A q \in Packs : q # p => flushed'[q] = flushed[q]
      /\ \A q \in Packs : flushed[q] \in Nat /\ Len(stream[q]) \in Nat
  BY <1>1, <1>2 DEF TypeOK
<1>4. /\ UNCHANGED <<stream, cursor, index, torn, written>>
      /\ op'[t].kind = "none" /\ \A u \in Threads : u # t => op'[u] = op[u]
  BY DEF ReadFails, TypeOK, NoCall
<1> HIDE DEF p
<1>5. Grows
  BY <1>1, <1>3, <1>4 DEF Grows
<1>6. IndexHolds' /\ WritersSafe' /\ ReadersSafe'
  BY <1>4, <1>5, QuietStep
<1>7. PacksInStep'
  BY <1>1, <1>3, <1>4 DEF PacksInStep
<1>8. AbsentEmpty'
  BY <1>4 DEF AbsentEmpty
<1> QED
  BY <1>6, <1>7, <1>8

\* A step that only ends or begins a call of t, or only answers it.
LEMMA LocalStep ==
    ASSUME IInv, TypeOK', NEW t \in Threads,
           UNCHANGED <<stream, flushed, cursor, index, torn, written>>,
           \A u \in Threads : u # t => op'[u] = op[u],
           op'[t].kind \in {"none", "append"}
    PROVE  IInv'
<1> USE DEF IInv
<1>1. Grows
  BY GrowsTrivially
<1>2. IndexHolds' /\ WritersSafe' /\ ReadersSafe'
  BY <1>1, QuietStep
<1>3. PacksInStep' /\ AbsentEmpty'
  BY DEF PacksInStep, AbsentEmpty
<1> QED
  BY <1>2, <1>3

LEMMA StutterStep ==
    ASSUME IInv, TypeOK',
           UNCHANGED <<stream, flushed, cursor, index, op, torn, written>>
    PROVE  IInv'
<1> USE DEF IInv
<1>1. Grows
  BY GrowsTrivially
<1>2. \A k \in Keys : index'[k] # NoLocation =>
                         LocatesNext(index'[k], written'[k])
  BY <1>1, EntriesStable
<1>3. \A u \in Threads : op'[u].kind = "publish" =>
                         LocatesNext(op'[u].loc, op'[u].val)
  BY <1>1, EntriesStable
<1>4. \A u \in Threads : op'[u].kind \in {"flush", "fetch"} =>
                         LocatesNext(op'[u].loc, op'[u].promised)
  BY <1>1, EntriesStable
<1>5. \A u \in Threads : op'[u].kind = "fetch" => InFileNext(op'[u].loc)
  BY <1>1, EntriesStable
<1>6. IndexHolds'
  BY <1>2 DEF IndexHolds, Locates, Undamaged, Holds, LocatesNext
<1>7. WritersSafe'
  BY <1>3 DEF WritersSafe, Locates, Undamaged, Holds, LocatesNext
<1>8. ReadersSafe'
  BY <1>4, <1>5 DEF ReadersSafe, Locates, Undamaged, Holds, LocatesNext,
                    InFileNext
<1>9. PacksInStep' /\ AbsentEmpty'
  BY DEF PacksInStep, AbsentEmpty
<1> QED
  BY <1>6, <1>7, <1>8, <1>9

LEMMA InvStep == IInv /\ [Next]_vars => IInv'
<1> SUFFICES ASSUME IInv, [Next]_vars PROVE IInv'
  OBVIOUS
<1>0. TypeOK /\ TypeOK'
  BY TypeStep DEF IInv
<1>1. ASSUME NEW t \in Threads, NEW k \in Keys, NEW v \in Values,
             BeginWrite(t, k, v)
      PROVE  IInv'
  <2>1. op'[t].kind = "append" /\ \A u \in Threads : u # t => op'[u] = op[u]
    BY <1>0, <1>1 DEF BeginWrite, TypeOK
  <2> QED
    BY <1>0, <1>1, <2>1, LocalStep DEF BeginWrite
<1>2. ASSUME NEW t \in Threads, AppendToPack(t) PROVE IInv'
  BY <1>0, <1>2, AppendStep
<1>3. ASSUME NEW t \in Threads, AppendFails(t) PROVE IInv'
  BY <1>0, <1>3, AppendFailsStep
<1>4. ASSUME NEW t \in Threads, InsertIndex(t) PROVE IInv'
  BY <1>0, <1>4, InsertStep
<1>5. ASSUME NEW t \in Threads, NEW k \in Keys, LookUp(t, k) PROVE IInv'
  BY <1>0, <1>5, LookUpStep
<1>6. ASSUME NEW t \in Threads, ReturnEmpty(t) \/ Fetch(t) PROVE IInv'
  <2>1. op'[t].kind = "none" /\ \A u \in Threads : u # t => op'[u] = op[u]
    BY <1>0, <1>6 DEF ReturnEmpty, Fetch, TypeOK, NoCall
  <2> QED
    BY <1>0, <1>6, <2>1, LocalStep DEF ReturnEmpty, Fetch
<1>7. ASSUME NEW t \in Threads, FlushPack(t) PROVE IInv'
  BY <1>0, <1>7, FlushStep
<1>8. ASSUME NEW t \in Threads, NEW k \in Keys, Count(t, k) PROVE IInv'
  BY <1>0, <1>8, StutterStep DEF Count
<1>9. ASSUME NEW t \in Threads, ReadFails(t) PROVE IInv'
  BY <1>0, <1>9, ReadFailsStep
<1>10. CASE UNCHANGED vars
  BY <1>0, <1>10, StutterStep DEF vars
<1> QED
  BY <1>1, <1>2, <1>3, <1>4, <1>5, <1>6, <1>7, <1>8, <1>9, <1>10 DEF Next

LEMMA Invariance == Spec => []IInv
BY InvInit, InvStep, PTL DEF Spec

\* Every index entry points at the bytes of the list last published under its
\* key, and a failed append damages nothing written before it.
THEOREM IndexIsSound == Spec => []IndexSound
<1>1. IInv => IndexSound
  BY DEF IInv, IndexSound
<1> QED
  BY <1>1, Invariance, PTL

\* A read that copied a location may use it without a lock.
THEOREM ReadersAreSafe == Spec => []ReadersSafe
<1>1. IInv => ReadersSafe
  BY DEF IInv
<1> QED
  BY <1>1, Invariance, PTL

-----------------------------------------------------------------------------
(* The refinement of the trait.                                            *)

\* The call of the trait that every thread is in.
call == [t \in Threads |-> CallOf(op[t])]

failed == \E p \in Packs : torn[p] # {}

LEMMA CallOfKinds ==
    ASSUME NEW o \in Ops
    PROVE  /\ o.kind \in {"append", "publish"} =>
                 CallOf(o) = [kind |-> "write", key |-> o.key, val |-> o.val]
           /\ o.kind \in {"absent", "flush", "fetch"} =>
                 CallOf(o) = [kind |-> "read", key |-> o.key,
                              promised |-> o.promised]
           /\ o.kind = "none" => CallOf(o) = NoCall
BY DEF CallOf

LEMMA CallNone == CallOf(NoCall) = NoCall
BY DEF CallOf, NoCall

\* A step that changes the call of one thread changes that thread's call of
\* the trait, and no other.
LEMMA CallStep ==
    ASSUME TypeOK, NEW t \in Threads, NEW o, op' = [op EXCEPT ![t] = o]
    PROVE  /\ call' = [call EXCEPT ![t] = CallOf(o)]
           /\ call[t] = CallOf(op[t])
           /\ CallOf(o) = CallOf(op[t]) => call' = call
<1>1. \A u \in Threads : op'[u] = IF u = t THEN o ELSE op[u]
  BY DEF TypeOK
<1>2. call' = [u \in Threads |-> CallOf(op'[u])]
  BY DEF call
<1>3. call' = [u \in Threads |-> IF u = t THEN CallOf(o) ELSE CallOf(op[u])]
  <2>1. \A u \in Threads :
           CallOf(op'[u]) = IF u = t THEN CallOf(o) ELSE CallOf(op[u])
    BY <1>1
  <2> QED
    BY <1>2, <2>1
<1>4. \A u \in Threads : call[u] = CallOf(op[u])
  BY DEF call
<1>5. [call EXCEPT ![t] = CallOf(o)]
        = [u \in Threads |-> IF u = t THEN CallOf(o) ELSE CallOf(op[u])]
  BY <1>4 DEF call
<1>6. CallOf(o) = CallOf(op[t]) => call' = call
  BY <1>3 DEF call
<1> QED
  BY <1>3, <1>4, <1>5, <1>6

\* A range of a sequence that agrees with b at every place is b.
LEMMA SubSeqIs ==
    ASSUME NEW S, NEW s \in Seq(S), NEW b \in Seq(S),
           NEW a \in Nat, NEW len \in Nat,
           a + len <= Len(s), Len(b) = len,
           \A i \in 1 .. len : s[a + i] = b[i]
    PROVE  SubSeq(s, a + 1, a + len) = b
<1> DEFINE m == a + 1
           n == a + len
           part == SubSeq(s, m, n)
<1>1. m \in Int /\ n \in Int /\ n - m + 1 = len
  OBVIOUS
<1>2. \A i \in m .. n : s[i] \in S
  OBVIOUS
<1>3. (IF m <= n THEN n - m + 1 ELSE 0) = len
  OBVIOUS
<1> HIDE DEF m, n
<1>4. /\ part \in Seq(S) /\ Len(part) = len
      /\ \A i \in 1 .. len : part[i] = s[m + i - 1]
  BY <1>1, <1>2, <1>3, SubSeqProperties
<1>5. \A i \in 1 .. len : m + i - 1 = a + i
  BY DEF m
<1> HIDE DEF part
<1>6. \A i \in 1 .. Len(part) : part[i] = b[i]
  BY <1>4, <1>5
<1>7. part = b
  BY <1>4, <1>6, SeqEqual
<1> QED
  BY <1>7 DEF part, m, n

\* A reader that holds a good location of an undamaged pack decodes the list
\* it was promised.
LEMMA FetchDecodes ==
    ASSUME TypeOK, ReadersSafe, ~failed,
           NEW t \in Threads, op[t].kind = "fetch"
    PROVE  Decode(FileBytes(op[t].loc)) = Points(op[t].promised)
<1> DEFINE loc == op[t].loc
           v   == op[t].promised
<1>1. loc \in Locations /\ v \in Values
  BY OpFields DEF TypeOK
<1>2. loc.pack \in Packs /\ loc.offset \in Nat /\ loc.len \in Nat
  BY <1>1 DEF Locations
<1>3. Undamaged(loc)
  BY <1>2 DEF Undamaged, failed
<1>4. /\ loc.len = Size[v] /\ Holds(loc, v)
      /\ loc.offset + loc.len <= flushed[loc.pack]
  BY <1>3 DEF ReadersSafe, Locates
<1> HIDE DEF loc, v
<1>5. FileBytes(loc) = SubSeq(stream[loc.pack], loc.offset + 1,
                              loc.offset + loc.len)
  BY <1>4 DEF FileBytes
<1>6. stream[loc.pack] \in Seq(Values \X (Nat \ {0}))
  BY <1>2 DEF TypeOK
<1>7. /\ Bytes(v) \in Seq(Values \X (Nat \ {0})) /\ Len(Bytes(v)) = loc.len
      /\ \A i \in 1 .. loc.len : Bytes(v)[i] = <<v, i>>
  BY <1>1, <1>4, BytesType DEF v
<1>8. \A i \in 1 .. loc.len : stream[loc.pack][loc.offset + i] = Bytes(v)[i]
  BY <1>4, <1>7 DEF Holds
<1>9. SubSeq(stream[loc.pack], loc.offset + 1, loc.offset + loc.len) = Bytes(v)
  <2> DEFINE S == Values \X (Nat \ {0})
             units == stream[loc.pack]
             bytes == Bytes(v)
             a == loc.offset
             len == loc.len
  <2>1. /\ units \in Seq(S) /\ bytes \in Seq(S) /\ a \in Nat /\ len \in Nat
        /\ a + len <= Len(units) /\ Len(bytes) = len
        /\ \A i \in 1 .. len : units[a + i] = bytes[i]
    BY <1>2, <1>4, <1>6, <1>7, <1>8 DEF Holds
  <2> HIDE DEF S, units, bytes, a, len
  <2>2. SubSeq(units, a + 1, a + len) = bytes
    BY <2>1, SubSeqIs
  <2> QED
    BY <2>2 DEF units, bytes, a, len
<1> QED
  BY <1>1, <1>5, <1>9, DecodeBytes DEF loc, v

\* Which operation an operation in progress is, and its call of the trait.
LEMMA CallOfOp ==
    ASSUME TypeOK, NEW t \in Threads
    PROVE  /\ call[t] = CallOf(op[t])
           /\ op[t] = NoCall => call[t] = NoCall
           /\ op[t].kind \in {"append", "publish"} =>
                 /\ call[t].kind = "write"
                 /\ call[t].key = op[t].key /\ call[t].val = op[t].val
           /\ op[t].kind \in {"absent", "flush", "fetch"} =>
                 call[t].kind = "read" /\ call[t].promised = op[t].promised
<1>1. call[t] = CallOf(op[t]) /\ op[t] \in Ops
  BY DEF call, TypeOK
<1> QED
  BY <1>1, CallOfKinds, CallNone

LEMMA BeginWriteRefines ==
    ASSUME TypeOK, NEW t \in Threads, NEW k \in Keys, NEW v \in Values,
           BeginWrite(t, k, v)
    PROVE  Abstract!BeginWrite(t, k, v)
<1> DEFINE o == [kind |-> "append", key |-> k, val |-> v]
<1>1. CallOf(o) = [kind |-> "write", key |-> k, val |-> v]
  BY DEF CallOf
<1>2. call[t] = NoCall
  BY CallOfOp DEF BeginWrite
<1>3. op' = [op EXCEPT ![t] = o] /\ UNCHANGED <<written, result, torn>>
  BY DEF BeginWrite
<1>4. call' = [call EXCEPT ![t] = CallOf(o)]
  <2> HIDE DEF o
  <2> QED
    BY <1>3, CallStep
<1> QED
  BY <1>1, <1>2, <1>3, <1>4 DEF Abstract!BeginWrite, Abstract!NoCall, NoCall, call

\* A step that leaves the map, the answers and the torn packs alone, and the
\* call of every thread what it was, is a stutter of the trait.
LEMMA StutterRefines ==
    ASSUME call' = call, UNCHANGED <<written, result, torn>>
    PROVE  UNCHANGED Abstract!storeVars
BY DEF Abstract!storeVars, call

LEMMA AppendRefines ==
    ASSUME TypeOK, NEW t \in Threads, AppendToPack(t)
    PROVE  UNCHANGED Abstract!storeVars
<1> DEFINE o == [kind |-> "publish", key |-> op[t].key, val |-> op[t].val,
                 loc |-> [pack |-> PackOf[t], offset |-> cursor[PackOf[t]],
                          len |-> Size[op[t].val],
                          count |-> PointCount[op[t].val]]]
<1>1. op[t] \in Ops /\ op[t].kind = "append"
  BY DEF TypeOK, AppendToPack
<1>2. CallOf(o) = CallOf(op[t])
  BY <1>1, CallOfKinds DEF CallOf
<1>3. op' = [op EXCEPT ![t] = o] /\ UNCHANGED <<written, result, torn>>
  BY DEF AppendToPack
<1> HIDE DEF o
<1> QED
  BY <1>2, <1>3, CallStep, StutterRefines

LEMMA FlushRefines ==
    ASSUME TypeOK, NEW t \in Threads, FlushPack(t)
    PROVE  UNCHANGED Abstract!storeVars
<1> DEFINE o == [op[t] EXCEPT !.kind = "fetch"]
<1>1. op[t] \in Ops /\ op[t].kind = "flush"
  BY DEF TypeOK, FlushPack
<1>2. op[t] \in [kind : {"flush", "fetch"}, key : Keys, promised : Values,
                 loc : Locations]
  BY <1>1 DEF Ops, NoCall
<1>3. o \in Ops /\ o.kind = "fetch" /\ o.key = op[t].key
      /\ o.promised = op[t].promised
  BY <1>2 DEF Ops
<1>4. op' = [op EXCEPT ![t] = o] /\ UNCHANGED <<written, result, torn>>
  BY DEF FlushPack
<1> HIDE DEF o
<1>5. CallOf(o) = CallOf(op[t])
  BY <1>1, <1>3, CallOfKinds
<1> QED
  BY <1>4, <1>5, CallStep, StutterRefines

\* A step that ends the call of t, and what it does to the call of the trait.
LEMMA EndRefines ==
    ASSUME TypeOK, NEW t \in Threads, op' = [op EXCEPT ![t] = NoCall]
    PROVE  call' = [call EXCEPT ![t] = Abstract!NoCall]
<1> DEFINE o == NoCall
<1>1. CallOf(o) = Abstract!NoCall
  BY CallNone DEF Abstract!NoCall, NoCall
<1> HIDE DEF o
<1>2. call' = [call EXCEPT ![t] = CallOf(o)]
  BY CallStep DEF o
<1> QED
  BY <1>1, <1>2

LEMMA InsertRefines ==
    ASSUME TypeOK, NEW t \in Threads, InsertIndex(t)
    PROVE  Abstract!EndWrite(t)
<1>1. call' = [call EXCEPT ![t] = Abstract!NoCall]
  BY EndRefines DEF InsertIndex
<1>2. /\ call[t].kind = "write" /\ call[t].key = op[t].key
      /\ call[t].val = op[t].val
  BY CallOfOp DEF InsertIndex
<1>3. /\ written' = [written EXCEPT ![op[t].key] = op[t].val]
      /\ UNCHANGED <<result, torn>>
  BY DEF InsertIndex
<1> QED
  BY <1>1, <1>2, <1>3 DEF Abstract!EndWrite, call

LEMMA AppendFailsRefines ==
    ASSUME TypeOK, NEW t \in Threads, AppendFails(t)
    PROVE  Abstract!WriteFails(t)
<1>1. call' = [call EXCEPT ![t] = Abstract!NoCall]
  BY EndRefines DEF AppendFails
<1>2. call[t].kind = "write"
  BY CallOfOp DEF AppendFails
<1>3. failed'
  <2>1. PackOf[t] \in Packs
    BY PackedAssumption
  <2>2. torn'[PackOf[t]] = torn[PackOf[t]] \cup {cursor[PackOf[t]]}
    BY <2>1 DEF AppendFails, TypeOK
  <2> QED
    BY <2>1, <2>2 DEF failed
<1>4. UNCHANGED <<written, result>>
  BY DEF AppendFails
<1> QED
  BY <1>1, <1>2, <1>3, <1>4 DEF Abstract!WriteFails, call, failed

LEMMA LookUpRefines ==
    ASSUME TypeOK, NEW t \in Threads, NEW k \in Keys, LookUp(t, k)
    PROVE  Abstract!BeginRead(t, k)
<1> DEFINE o == IF index[k] = NoLocation
                THEN [kind |-> "absent", key |-> k, promised |-> written[k]]
                ELSE [kind |-> "flush", key |-> k, promised |-> written[k],
                      loc |-> index[k]]
<1>1. CallOf(o) = [kind |-> "read", key |-> k, promised |-> written[k]]
  BY DEF CallOf
<1>2. call[t] = NoCall
  BY CallOfOp DEF LookUp
<1>3. op' = [op EXCEPT ![t] = o] /\ UNCHANGED <<written, result, torn>>
  BY DEF LookUp
<1>4. call' = [call EXCEPT ![t] = CallOf(o)]
  <2> HIDE DEF o
  <2> QED
    BY <1>3, CallStep
<1> QED
  BY <1>1, <1>2, <1>3, <1>4 DEF Abstract!BeginRead, Abstract!NoCall, NoCall, call

LEMMA ReturnEmptyRefines ==
    ASSUME TypeOK, AbsentEmpty, NEW t \in Threads, ReturnEmpty(t)
    PROVE  Abstract!EndRead(t)
<1>1. call' = [call EXCEPT ![t] = Abstract!NoCall]
  BY EndRefines DEF ReturnEmpty
<1>2. call[t].kind = "read" /\ call[t].promised = Empty
  BY CallOfOp DEF ReturnEmpty, AbsentEmpty
<1>3. /\ result' = [thread |-> t, answer |-> [kind |-> "points", val |-> Empty]]
      /\ UNCHANGED <<written, torn>>
  BY DEF ReturnEmpty, Points
<1> QED
  BY <1>1, <1>2, <1>3 DEF Abstract!EndRead, call

LEMMA FetchRefines ==
    ASSUME TypeOK, ReadersSafe, ~failed, NEW t \in Threads, Fetch(t)
    PROVE  Abstract!EndRead(t)
<1>1. call' = [call EXCEPT ![t] = Abstract!NoCall]
  BY EndRefines DEF Fetch
<1>2. call[t].kind = "read" /\ call[t].promised = op[t].promised
  BY CallOfOp DEF Fetch
<1>3. Decode(FileBytes(op[t].loc)) = Points(op[t].promised)
  BY FetchDecodes DEF Fetch
<1>4. /\ result' = [thread |-> t,
                    answer |-> [kind |-> "points", val |-> op[t].promised]]
      /\ UNCHANGED <<written, torn>>
  BY <1>3 DEF Fetch, Points
<1> QED
  BY <1>1, <1>2, <1>4 DEF Abstract!EndRead, call

LEMMA ReadFailsRefines ==
    ASSUME TypeOK, NEW t \in Threads, ReadFails(t)
    PROVE  Abstract!ReadFails(t)
<1>1. call' = [call EXCEPT ![t] = Abstract!NoCall]
  BY EndRefines DEF ReadFails
<1>2. call[t].kind = "read"
  BY CallOfOp DEF ReadFails
<1>3. UNCHANGED <<written, result, torn>>
  BY DEF ReadFails
<1> QED
  BY <1>1, <1>2, <1>3 DEF Abstract!ReadFails, call

\* The index alone answers with the count of the list last published.
LEMMA CountRefines ==
    ASSUME IndexHolds, AbsentEmpty, TypeOK,
           NEW t \in Threads, NEW k \in Keys, Count(t, k)
    PROVE  Abstract!Count(t, k)
<1>1. (IF index[k] = NoLocation THEN 0 ELSE index[k].count)
        = PointCount[written[k]]
  <2>1. CASE index[k] = NoLocation
    BY <2>1, PackedAssumption DEF AbsentEmpty
  <2>2. CASE index[k] # NoLocation
    BY <2>2 DEF IndexHolds, Locates
  <2> QED
    BY <2>1, <2>2
<1>2. call[t] = NoCall
  BY CallOfOp DEF Count
<1>3. /\ result' = [thread |-> t,
                    answer |-> [kind |-> "count",
                                val |-> PointCount[written[k]]]]
      /\ UNCHANGED <<written, torn, op>>
  BY <1>1 DEF Count
<1> QED
  BY <1>2, <1>3 DEF Abstract!Count, Abstract!NoCall, NoCall, call

LEMMA RefinementInit == Init => Abstract!Init
<1> SUFFICES ASSUME Init PROVE Abstract!Init
  OBVIOUS
<1>1. \A t \in Threads : CallOf(op[t]) = NoCall
  BY CallNone DEF Init
<1> QED
  BY <1>1 DEF Init, Abstract!Init, Abstract!NoCall, NoCall,
              Abstract!NoResult, NoResult

LEMMA RefinementStep ==
    IInv /\ [Next]_vars => [Abstract!Next]_(Abstract!storeVars)
<1> SUFFICES ASSUME IInv, [Next]_vars
             PROVE  Abstract!Next \/ UNCHANGED Abstract!storeVars
  OBVIOUS
<1> USE DEF IInv
<1>1. ASSUME NEW t \in Threads, NEW k \in Keys, NEW v \in Values,
             BeginWrite(t, k, v)
      PROVE  Abstract!Next
  BY <1>1, BeginWriteRefines DEF Abstract!Next
<1>2. ASSUME NEW t \in Threads, AppendToPack(t) \/ FlushPack(t)
      PROVE  UNCHANGED Abstract!storeVars
  BY <1>2, AppendRefines, FlushRefines
<1>3. ASSUME NEW t \in Threads, AppendFails(t) PROVE Abstract!Next
  BY <1>3, AppendFailsRefines DEF Abstract!Next
<1>4. ASSUME NEW t \in Threads, InsertIndex(t) PROVE Abstract!Next
  BY <1>4, InsertRefines DEF Abstract!Next
<1>5. ASSUME NEW t \in Threads, NEW k \in Keys, LookUp(t, k)
      PROVE  Abstract!Next
  BY <1>5, LookUpRefines DEF Abstract!Next
<1>6. ASSUME NEW t \in Threads, ReturnEmpty(t) PROVE Abstract!Next
  BY <1>6, ReturnEmptyRefines DEF Abstract!Next
<1>7. ASSUME NEW t \in Threads, Fetch(t) PROVE Abstract!Next
  <2>1. CASE failed
    BY <1>7, <2>1 DEF failed, Fetch, Abstract!Next, Abstract!AfterFailure
  <2>2. CASE ~failed
    BY <1>7, <2>2, FetchRefines DEF Abstract!Next
  <2> QED
    BY <2>1, <2>2
<1>8. ASSUME NEW t \in Threads, NEW k \in Keys, Count(t, k)
      PROVE  Abstract!Next
  BY <1>8, CountRefines DEF Abstract!Next
<1>9. ASSUME NEW t \in Threads, ReadFails(t) PROVE Abstract!Next
  BY <1>9, ReadFailsRefines DEF Abstract!Next
<1>10. CASE UNCHANGED vars
  BY <1>10, StutterRefines DEF vars, call
<1> QED
  BY <1>1, <1>2, <1>3, <1>4, <1>5, <1>6, <1>7, <1>8, <1>9, <1>10 DEF Next

\* The packed store implements the trait `NodeStore`: whatever the threads do,
\* and until a write fails, its calls behave as calls on a map.
THEOREM Refinement == Spec => ImplementsNodeStore
BY RefinementInit, RefinementStep, Invariance, PTL
   DEF Spec, ImplementsNodeStore, Abstract!Spec

=============================================================================
