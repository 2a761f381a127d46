---------------------------- MODULE HierarchyPages ----------------------------
(***************************************************************************)
(* The two page trees at the end of a COPC file (src/src/writer.rs         *)
(* `build_hierarchy_payload` and `build_temporal_payload`): the list of    *)
(* entries is cut at every third level into pages, a page holds its own    *)
(* entries and then one pointer per subtree that continues in a page of    *)
(* its own, all pages are laid out one after the other, and the pointers   *)
(* are patched with the offset and the size of the page they mean.         *)
(*                                                                         *)
(* A voxel key is <<level, x>>: one coordinate stands for x, y and z,      *)
(* which the code treats alike.  A record is one field group in the file,  *)
(* a payload the sequence of them; where a record lies is counted in       *)
(* bytes.                                                                  *)
(***************************************************************************)
EXTENDS Lists, SequencesExt, FiniteSetsExt

CONSTANTS Endless       \* f64::MAX as a GPS time; f64::MIN is its negative

ASSUME PagesAssumption == Endless \in Nat

\* What a point may have for its GPS time: a number between them, or none.  No
\* `<` with NaN holds in the code; here that is said wherever times are compared.
NaN == Endless + 1

GpsTimes == (1 - Endless .. Endless - 1) \cup {NaN}

Level(key)  == key[1]
Parent(key) == <<key[1] - 1, key[2] \div 2>>

\* The derived order of keys: by level, then by coordinates.
KeyLess(a, b) == a[1] < b[1] \/ (a[1] = b[1] /\ a[2] < b[2])

\* The members of a set in the order Less.
InOrder(S, Less(_, _)) ==
    [n \in 1 .. Cardinality(S) |->
       CHOOSE x \in S : Cardinality({y \in S : Less(y, x)}) = n - 1]

\* ancestor_at_level
AncestorAt(key, level) ==
    IF key[1] <= level THEN key ELSE <<level, key[2] \div Pow(2, key[1] - level)>>

\* choose_page_boundaries: every third level above the deepest one.  (Its last
\* test, an empty list although the tree is deeper than 3, is never met.)
Boundaries(maxLevel) ==
    IF maxLevel <= 3 THEN <<>> ELSE [i \in 1 .. (maxLevel - 1) \div 3 |-> 3 * i]

DeepestOf(entries) == Max({Level(e.key) : e \in ToSet(entries)})

-----------------------------------------------------------------------------
(* Records.  The hierarchy ("node") has records of 32 bytes, and a pointer   *)
(* has -1 for its point count.  In the temporal index ("time") a node's      *)
(* record carries its samples, a pointer has none and carries the time range *)
(* of its subtree.                                                           *)

RecordSize(kind, record) ==
    IF kind = "node" THEN 32
    ELSE IF record.samples = <<>> THEN 48 ELSE 20 + 8 * Len(record.samples)

IsPointer(kind, record) ==
    IF kind = "node" THEN record.pointCount = -1 ELSE record.samples = <<>>

BytesOf(kind, records) ==
    SumOf([n \in DOMAIN records |-> RecordSize(kind, records[n])])

\* time_range_of a set of entries: <<Endless, -Endless>> when there is no number
\* among their first and last samples.
TimeRange(entries) ==
    LET sampled == {e \in entries : e.samples # <<>>}
        firsts  == {Head(e.samples) : e \in sampled} \ {NaN}
        lasts   == {Last(e.samples) : e \in sampled} \ {NaN}
    IN  <<Min(firsts \cup {Endless}), Max(lasts \cup {-Endless})>>

\* A slip: the range of the subtree's root stands for the subtree.
RangeOfRoot(root, mine, group) ==
    TimeRange({e \in mine : e.key = root})

\* The range of everything in the pages below, and of the subtree's root.
SubtreeRange(root, mine, group) ==
    TimeRange(group \cup {e \in mine : e.key = root})

\* The pointer to the page of `root`, which holds `group` with the pages below
\* it; `mine` is what the page of the pointer holds.
PointerTo(kind, root, mine, group) ==
    IF kind = "node"
    THEN [key |-> root, offset |-> 0, byteSize |-> 0, pointCount |-> -1]
    ELSE [key |-> root, samples |-> <<>>, offset |-> 0, byteSize |-> 0,
          range |-> SubtreeRange(root, mine, group)]

-----------------------------------------------------------------------------
(* Pages, before their offsets are known.  A page is its records and a list *)
(* of patches: <<n, d>> says that its n-th record points to the page that   *)
(* comes d pages after it.                                                  *)

\* A slip: the boundary level itself stays in the page above it.
StaysUpTo(level, boundary) == level <= boundary

\* In the hierarchy a subtree's root lives in the page below the pointer to it ...
StaysAbove(level, boundary) == level < boundary

\* ... and in the temporal index in the page of the pointer.
StaysThrough(level, boundary) == level <= boundary

Stays(kind, level, boundary) ==
    IF kind = "node" THEN StaysAbove(level, boundary)
    ELSE StaysThrough(level, boundary)

\* A slip: the children's own pages are not counted.
NthChild(under, j) == j

\* How far behind its parent's page the j-th child's page lies, when each
\* subtree before it has taken all its pages.
ChildDistance(under, j) == 1 + SumOf([l \in 1 .. j - 1 |-> Len(under[l])])

\* Of the entries with the numbers S: those that stay in the page above the
\* boundary, the roots of the subtrees that do not, and what is in such a subtree.
Mine(kind, entries, S, boundary) ==
    {n \in S : Stays(kind, Level(entries[n].key), boundary)}

Kids(kind, entries, S, boundary) ==
    InOrder({AncestorAt(entries[n].key, boundary) : n \in S \ Mine(kind, entries, S, boundary)},
            KeyLess)

Group(kind, entries, S, boundary, root) ==
    {n \in S \ Mine(kind, entries, S, boundary) : AncestorAt(entries[n].key, boundary) = root}

Picked(entries, S) ==
    LET places == InOrder(S, <)
    IN  [m \in DOMAIN places |-> entries[places[m]]]

WholePage(entries, S) == << [data |-> Picked(entries, S), patches |-> <<>>] >>

\* A page cut at a boundary, and all pages of the subtrees behind it;
\* deeper gives the pages of each subtree.
CutPage(kind, entries, S, boundary, deeper) ==
    LET mine     == Mine(kind, entries, S, boundary)
        kids     == Kids(kind, entries, S, boundary)
        group(j) == Group(kind, entries, S, boundary, kids[j])
        under    == [j \in DOMAIN kids |-> deeper[group(j)]]
        pointers == [j \in DOMAIN kids |->
                       PointerTo(kind, kids[j], {entries[n] : n \in mine},
                                 {entries[n] : n \in group(j)})]
        patches  == [j \in DOMAIN kids |-> <<Cardinality(mine) + j, ChildDistance(under, j)>>]
    IN  << [data |-> Picked(entries, mine) \o pointers, patches |-> patches] >> \o Concat(under)

\* Build[d] gives the pages of any entries that the last d boundaries cut.
PageTree(kind, entries) ==
    LET bounds == Boundaries(DeepestOf(entries))
        Build[d \in 0 .. Len(bounds)] ==
            [S \in SUBSET DOMAIN entries |->
               IF d = 0 THEN WholePage(entries, S)
               ELSE CutPage(kind, entries, S, bounds[Len(bounds) + 1 - d], Build[d - 1])]
    IN  Build[Len(bounds)][DOMAIN entries]

-----------------------------------------------------------------------------
(* The layout and the patches                                               *)

\* Every page behind the one before it, from `start` on.
PageOffset(kind, pages, start, n) ==
    start + SumOf([m \in 1 .. n - 1 |-> BytesOf(kind, pages[m].data)])

Patched(kind, pages, start, n) ==
    LET Target(m) == {n + q[2] : q \in {q \in ToSet(pages[n].patches) : q[1] = m}}
    IN  [m \in DOMAIN pages[n].data |->
           IF Target(m) = {} THEN pages[n].data[m]
           ELSE LET child == CHOOSE c \in Target(m) : TRUE
                IN  [pages[n].data[m] EXCEPT
                       !.offset = PageOffset(kind, pages, start, child),
                       !.byteSize = BytesOf(kind, pages[child].data)]]

\* The payload, and where its root page, the first, lies.
PagePayload(kind, pages, start) ==
    [records |-> Concat([n \in 1 .. Len(pages) |-> Patched(kind, pages, start, n)]),
     start |-> start,
     rootOffset |-> PageOffset(kind, pages, start, 1),
     rootSize |-> BytesOf(kind, pages[1].data)]

EmptyPayload(start) ==
    [records |-> <<>>, start |-> start, rootOffset |-> start, rootSize |-> 0]

\* build_hierarchy_payload
HierarchyPayload(entries, start) ==
    IF entries = <<>> THEN EmptyPayload(start)
    ELSE PagePayload("node", PageTree("node", entries), start)

TemporalHeader == 32

\* build_temporal_payload: the pages start behind the header.
TemporalPayload(entries, start) ==
    IF entries = <<>> THEN EmptyPayload(start + TemporalHeader)
    ELSE PagePayload("time", PageTree("time", entries), start + TemporalHeader)

-----------------------------------------------------------------------------
(* What a reader of the file does, for the properties                       *)

RecordOffset(kind, payload, n) ==
    payload.start + SumOf([m \in 1 .. n - 1 |-> RecordSize(kind, payload.records[m])])

\* The records in a byte range of the file, by number.
RecordsIn(kind, payload, page) ==
    {n \in DOMAIN payload.records :
        LET at == RecordOffset(kind, payload, n)
        IN  /\ page[1] <= at
            /\ at + RecordSize(kind, payload.records[n]) <= page[1] + page[2]}

\* The byte ranges a reader gets to from the root page when of all records it
\* follows those with the numbers `followed`, at most so often as there are records.
PagesReached(kind, payload, followed) ==
    LET Reach[d \in 0 .. Len(payload.records)] ==
            IF d = 0 THEN {<<payload.rootOffset, payload.rootSize>>}
            ELSE UNION {{<<payload.records[n].offset, payload.records[n].byteSize>> :
                            n \in RecordsIn(kind, payload, page) \cap followed} :
                          page \in Reach[d - 1]}
    IN  UNION {Reach[d] : d \in 0 .. Len(payload.records)}

Pointers(kind, payload) ==
    {n \in DOMAIN payload.records : IsPointer(kind, payload.records[n])}
=============================================================================
