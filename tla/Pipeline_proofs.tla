--------------------------- MODULE Pipeline_proofs ---------------------------
(***************************************************************************)
(* For any number of conversions and process ids on one host, and crashes  *)
(* at any point: an output holds the points of its own run, scratch space  *)
(* is given back, and no directory in use is removed.                      *)
(* On any number of hosts: files that validate accepts agree, whether it   *)
(* accepts them does not depend on their order, what it merges of their    *)
(* statistics is honest, and no coordinate saturates.                      *)
(***************************************************************************)
EXTENDS Pipeline, SequenceTheorems, FiniteSetTheorems, WellFoundedInduction, TLAPS

\* A host gives no two live processes one id; two hosts may.
OneHost == \A q, r \in Runs : HostOf[q] = HostOf[r]

\* The stages in which a run works in its directory.
InUse == {"analyzing", "distributing", "distributed", "built"}

PidsApart ==
    /\ \A r \in Runs : Live(r) => pid[r] \in Pids
    /\ \A q, r \in Runs : Live(q) /\ Live(r) /\ q # r => pid[q] # pid[r]

\* The builder, whose Drop removes the directory, is there while it is used.
BuildersInUse == \A r \in Runs : builder[r] <=> stage[r] \in InUse

\* A directory in use was made by the run and holds nothing of another one.
Holds(r) ==
    /\ stage[r] = "creating" => dir[pid[r]] = Absent
    /\ stage[r] = "analyzing" => dir[pid[r]].there
    /\ stage[r] = "distributing" => dir[pid[r]] = Fresh
    /\ stage[r] = "distributed" => dir[pid[r]].there /\ dir[pid[r]].chunks = <<r>>
    /\ stage[r] = "built" => dir[pid[r]].there /\ dir[pid[r]].nodes = <<r>>
    /\ stage[r] = "written" => output[r] = <<r>>

DirsOwned == \A r \in Runs : Holds(r)

\* A directory that is there is in use or was left by a run that is over.
LeftBehind ==
    \A p \in Pids : dir[p].there =>
        \E r \in Runs : pid[r] = p /\ stage[r] \in InUse \cup {"crashed", "unopened"}

IInv == TypeOK /\ PidsApart /\ BuildersInUse /\ DirsOwned /\ LeftBehind

-----------------------------------------------------------------------------
(* A step is a step of one run.                                            *)

StepOf(q) ==
    \/ Start(q)
    \/ \E i \in unscanned[q] : ScanFile(q, i)
    \/ ScanFails(q) \/ EndScan(q) \/ Validate(q)
    \/ FromScan(q) \/ RemoveLeftover(q)
    \/ CreateDir(q, "distributing") \/ CreateDir(q, "analyzing")
    \/ FromScanFails(q) \/ EndAnalyze(q)
    \/ Distribute(q) \/ Build(q) \/ Write(q)
    \/ StageFails(q) \/ Crash(q)

\* What a step leaves alone: the other runs, and every directory but the one
\* named by its own process id.
LEMMA StepIsLocal ==
    ASSUME TypeOK, NEW q \in Runs, StepOf(q)
    PROVE  /\ UNCHANGED <<inputs, stride>>
           /\ \A r \in Runs \ {q} : /\ stage'[r] = stage[r]
                                    /\ pid'[r] = pid[r]
                                    /\ unscanned'[r] = unscanned[r]
                                    /\ builder'[r] = builder[r]
                                    /\ output'[r] = output[r]
           /\ \A p \in Pids \ {pid[q]} : dir'[p] = dir[p]
           /\ stage[q] = "idle" => dir' = dir
<1> USE DEF TypeOK, Goes
<1>1. CASE Start(q)
  BY <1>1 DEF Start
<1>2. CASE \E i \in unscanned[q] : ScanFile(q, i)
  BY <1>2 DEF ScanFile
<1>3. CASE ScanFails(q)
  BY <1>3 DEF ScanFails
<1>4. CASE EndScan(q)
  BY <1>4 DEF EndScan
<1>5. CASE Validate(q)
  BY <1>5 DEF Validate
<1>6. CASE FromScan(q)
  BY <1>6 DEF FromScan
<1>7. CASE RemoveLeftover(q)
  BY <1>7 DEF RemoveLeftover
<1>8. CASE CreateDir(q, "distributing")
  BY <1>8 DEF CreateDir
<1>9. CASE CreateDir(q, "analyzing")
  BY <1>9 DEF CreateDir
<1>10. CASE FromScanFails(q)
  BY <1>10 DEF FromScanFails
<1>11. CASE EndAnalyze(q)
  BY <1>11 DEF EndAnalyze, Dropped
<1>12. CASE Distribute(q)
  BY <1>12 DEF Distribute
<1>13. CASE Build(q)
  BY <1>13 DEF Build
<1>14. CASE Write(q)
  BY <1>14 DEF Write, Dropped
<1>15. CASE StageFails(q)
  BY <1>15 DEF StageFails, Dropped
<1>16. CASE Crash(q)
  BY <1>16 DEF Crash
<1> QED
  BY <1>1, <1>2, <1>3, <1>4, <1>5, <1>6, <1>7, <1>8, <1>9, <1>10, <1>11, <1>12, <1>13, <1>14, <1>15, <1>16 DEF StepOf

\* What may be in a directory, and that nothing else gets there.
Dirs == [there : BOOLEAN, chunks : Seq(Runs), nodes : Seq(Runs)]

LEMMA StepDirs ==
    ASSUME TypeOK, PidsApart, NEW q \in Runs, StepOf(q)
    PROVE  dir' \in [Pids -> Dirs]
<1> USE DEF Goes
<1>1. dir \in [Pids -> Dirs]
  BY DEF TypeOK, Dirs
<1>2. Absent \in Dirs /\ Fresh \in Dirs
  BY DEF Absent, Fresh, Dirs
<1>3. CASE dir' = dir
  BY <1>1, <1>3
<1>4. CASE dir' # dir
  <2> DEFINE d == dir[pid[q]]
  <2>1. pid[q] \in Pids /\ d \in Dirs
    <3>1. stage[q] \in Running
      BY <1>4 DEF StepOf, Start, ScanFile, ScanFails, EndScan, Validate, FromScan,
                  RemoveLeftover, CreateDir, FromScanFails, EndAnalyze, Distribute,
                  Build, Write, StageFails, Crash, Running, Live
    <3> QED
      BY <3>1, <1>1 DEF PidsApart, Live
  <2>2. \E e \in Dirs : dir' = [dir EXCEPT ![pid[q]] = e]
    <3>1. CASE RemoveLeftover(q) \/ EndAnalyze(q) \/ Write(q) \/ StageFails(q)
      BY <1>2, <1>4, <3>1 DEF RemoveLeftover, EndAnalyze, Write, StageFails, Dropped
    <3>2. CASE CreateDir(q, "distributing") \/ CreateDir(q, "analyzing") \/ FromScanFails(q)
      BY <1>2, <1>4, <2>1, <3>2 DEF CreateDir, FromScanFails
    <3>3. CASE Distribute(q)
      <4> DEFINE e == [there |-> TRUE, chunks |-> Append(d.chunks, q), nodes |-> d.nodes]
      <4>1. e \in Dirs
        BY <2>1 DEF Dirs
      <4>2. dir' = [dir EXCEPT ![pid[q]] = e]
        BY <3>3 DEF Distribute
      <4> QED
        BY <4>1, <4>2
    <3>4. CASE Build(q)
      <4> DEFINE e == [there |-> TRUE, chunks |-> <<>>, nodes |-> d.chunks]
      <4>1. e \in Dirs
        BY <2>1 DEF Dirs
      <4>2. dir' = [dir EXCEPT ![pid[q]] = e]
        BY <3>4 DEF Build
      <4> QED
        BY <4>1, <4>2
    <3> QED
      BY <1>4, <3>1, <3>2, <3>3, <3>4 DEF StepOf, Start, ScanFile, ScanFails, EndScan,
                                          Validate, FromScan, Crash
  <2> QED
    BY <1>1, <2>1, <2>2
<1> QED
  BY <1>3, <1>4

LEMMA StepTypes ==
    ASSUME TypeOK, PidsApart, NEW q \in Runs, StepOf(q)
    PROVE  TypeOK'
<1>1. (dir \in [Pids -> Dirs])'
  BY StepDirs
<1>2. inputs' = inputs /\ stride' = stride /\ pid' \in [Runs -> Pids \cup {NoPid}]
  BY StepIsLocal DEF StepOf, TypeOK, Start, ScanFile, ScanFails, EndScan, Validate,
                     FromScan, RemoveLeftover, CreateDir, FromScanFails, EndAnalyze,
                     Distribute, Build, Write, StageFails, Crash
<1>3. stage' \in [Runs -> {"idle"} \cup Running \cup Ended]
  <2>1. stage' = stage \/ \E to \in Running \cup Ended : stage' = [stage EXCEPT ![q] = to]
    BY DEF StepOf, Goes, Running, Ended, Start, ScanFile, ScanFails, EndScan,
           Validate, FromScan, RemoveLeftover, CreateDir, FromScanFails, EndAnalyze,
           Distribute, Build, Write, StageFails, Crash
  <2> QED
    BY <2>1 DEF TypeOK
<1>4. DOMAIN unscanned' = Runs /\ \A r \in Runs : unscanned'[r] \subseteq DOMAIN inputs'[r]
  <2>1. CASE Start(q)
    BY <1>2, <2>1 DEF Start, TypeOK
  <2>2. CASE \E i \in unscanned[q] : ScanFile(q, i)
    BY <1>2, <2>2 DEF ScanFile, TypeOK
  <2>3. CASE unscanned' = unscanned
    BY <1>2, <2>3 DEF TypeOK
  <2> QED
    BY <2>1, <2>2, <2>3 DEF StepOf, ScanFails, EndScan, Validate, FromScan,
         RemoveLeftover, CreateDir, FromScanFails, EndAnalyze, Distribute, Build,
         Write, StageFails, Crash
<1>5. builder' \in [Runs -> BOOLEAN]
  BY DEF StepOf, TypeOK, Start, ScanFile, ScanFails, EndScan, Validate,
         FromScan, RemoveLeftover, CreateDir, FromScanFails, EndAnalyze,
         Distribute, Build, Write, StageFails, Crash, Dropped
<1>6. output' \in [Runs -> Seq(Runs)]
  <2>1. CASE Write(q)
    <3>1. stage[q] = "built"
      BY <2>1 DEF Write, Goes
    <3>2. dir[pid[q]].nodes \in Seq(Runs)
      BY <3>1 DEF TypeOK, PidsApart, Live, Running
    <3> QED
      BY <2>1, <3>2 DEF Write, TypeOK
  <2>2. CASE ~Write(q)
    BY <2>2 DEF StepOf, TypeOK, Start, ScanFile, ScanFails, EndScan, Validate,
         FromScan, RemoveLeftover, CreateDir, FromScanFails, EndAnalyze,
         Distribute, Build, StageFails, Crash
  <2> QED
    BY <2>1, <2>2
<1> QED
  BY <1>1, <1>2, <1>3, <1>4, <1>5, <1>6 DEF TypeOK, Dirs

LEMMA StepIds ==
    ASSUME TypeOK, PidsApart, OneHost, NEW q \in Runs, StepOf(q)
    PROVE  PidsApart'
<1>1. CASE Start(q)
  BY <1>1 DEF Start, OneHost, TypeOK, Goes, PidsApart, Live, Running
<1>2. CASE ~Start(q)
  <2>1. pid' = pid
    BY <1>2 DEF StepOf, ScanFile, ScanFails, EndScan, Validate, FromScan, RemoveLeftover,
                CreateDir, FromScanFails, EndAnalyze, Distribute, Build, Write,
                StageFails, Crash
  <2>2. Live(q)' => Live(q)
    BY <1>2 DEF StepOf, TypeOK, Goes, Live, Running, ScanFile, ScanFails, EndScan,
                Validate, FromScan, RemoveLeftover, CreateDir, FromScanFails, EndAnalyze,
                Distribute, Build, Write, StageFails, Crash
  <2>3. \A r \in Runs : Live(r)' => Live(r)
    BY <2>2, StepIsLocal DEF Live
  <2> QED
    BY <2>1, <2>3 DEF PidsApart
<1> QED
  BY <1>1, <1>2

-----------------------------------------------------------------------------
(* The invariant is preserved.                                             *)

LEMMA StepBuilders ==
    ASSUME TypeOK, BuildersInUse, NEW q \in Runs, StepOf(q)
    PROVE  BuildersInUse'
<1>1. \A r \in Runs \ {q} : (builder[r] <=> stage[r] \in InUse)'
  BY StepIsLocal DEF BuildersInUse
<1>2. builder'[q] <=> stage'[q] \in InUse
  BY DEF BuildersInUse, StepOf, TypeOK, Goes, InUse, Live, Running, Start, ScanFile,
         ScanFails, EndScan, Validate, FromScan, RemoveLeftover, CreateDir, FromScanFails,
         EndAnalyze, Distribute, Build, Write, StageFails, Crash, Dropped
<1> QED
  BY <1>1, <1>2 DEF BuildersInUse

\* A step of one run leaves the directory of another live one as it is.
LEMMA StepKeepsOthers ==
    ASSUME TypeOK, PidsApart, NEW q \in Runs, StepOf(q),
           NEW r \in Runs \ {q}, Live(r)
    PROVE  pid'[r] = pid[r] /\ dir'[pid[r]] = dir[pid[r]]
<1>1. CASE stage[q] = "idle"
  BY <1>1, StepIsLocal
<1>2. CASE stage[q] # "idle"
  <2>1. Live(q)
    BY <1>2 DEF StepOf, Goes, Live, Running, Start, ScanFile, ScanFails, EndScan,
         Validate, FromScan, RemoveLeftover, CreateDir, FromScanFails, EndAnalyze,
         Distribute, Build, Write, StageFails, Crash
  <2> QED
    BY <2>1, StepIsLocal DEF PidsApart
<1> QED
  BY <1>1, <1>2

LEMMA StepOwned ==
    ASSUME TypeOK, PidsApart, BuildersInUse, DirsOwned, NEW q \in Runs, StepOf(q)
    PROVE  DirsOwned'
<1>1. ASSUME NEW r \in Runs \ {q} PROVE Holds(r)'
  <2>1. CASE Live(r)
    <3>1. stage'[r] = stage[r] /\ output'[r] = output[r]
      BY StepIsLocal
    <3>2. dir'[pid'[r]] = dir[pid[r]]
      BY <2>1, StepKeepsOthers
    <3>3. Holds(r)
      BY DEF DirsOwned
    <3> QED
      BY <3>1, <3>2, <3>3 DEF Holds
  <2>2. CASE ~Live(r)
    BY <2>2, StepIsLocal DEF DirsOwned, Holds, Live, Running
  <2> QED
    BY <2>1, <2>2
<1>2. Holds(q)'
  <2> USE DEF TypeOK, Goes
  <2>1. pid[q] \in Pids \/ stage[q] = "idle" \/ stage[q] \in Ended
    BY DEF PidsApart, Live
  <2>2. CASE Start(q)
    BY <2>2 DEF Start, Holds
  <2>3. CASE ScanFails(q) \/ EndScan(q) \/ Validate(q) \/ FromScan(q)
             \/ FromScanFails(q) \/ EndAnalyze(q) \/ StageFails(q) \/ Crash(q)
    BY <2>3 DEF ScanFails, EndScan, Validate, FromScan, FromScanFails, EndAnalyze,
                StageFails, Crash, Holds
  <2>4. CASE \E i \in unscanned[q] : ScanFile(q, i)
    BY <2>4 DEF ScanFile, Holds, DirsOwned
  <2>5. CASE RemoveLeftover(q)
    BY <2>1, <2>5 DEF RemoveLeftover, Holds, Ended
  <2>6. CASE CreateDir(q, "distributing") \/ CreateDir(q, "analyzing")
    <3>1. pid[q] \in Pids /\ dir[pid[q]] = Absent
      BY <2>1, <2>6 DEF CreateDir, Holds, DirsOwned, Ended
    <3>2. dir' = [dir EXCEPT ![pid[q]] = Fresh]
      BY <2>6, <3>1 DEF CreateDir, Absent
    <3>3. pid'[q] = pid[q] /\ stage'[q] \in {"distributing", "analyzing"}
      BY <2>6 DEF CreateDir
    <3> QED
      BY <3>1, <3>2, <3>3 DEF Holds, Fresh
  <2>7. CASE Distribute(q)
    <3>1. pid[q] \in Pids /\ dir[pid[q]].chunks = <<>>
      BY <2>1, <2>7 DEF Distribute, Holds, DirsOwned, Ended, Fresh
    <3>2. Append(<<>>, q) = <<q>>
      OBVIOUS
    <3>3. dir'[pid[q]].there /\ dir'[pid[q]].chunks = <<q>>
      BY <2>7, <3>1, <3>2 DEF Distribute
    <3> QED
      BY <2>7, <3>3 DEF Distribute, Holds
  <2>8. CASE Build(q)
    BY <2>1, <2>8 DEF Build, InDir, Holds, DirsOwned, Ended
  <2>9. CASE Write(q)
    BY <2>1, <2>9 DEF Write, Holds, DirsOwned, Ended
  <2> QED
    BY <2>2, <2>3, <2>4, <2>5, <2>6, <2>7, <2>8, <2>9 DEF StepOf
<1> QED
  BY <1>1, <1>2 DEF DirsOwned

LEMMA StepLeaves ==
    ASSUME TypeOK, PidsApart, BuildersInUse, LeftBehind, NEW q \in Runs, StepOf(q)
    PROVE  LeftBehind'
<1> DEFINE Over(r, p) == pid[r] = p /\ stage[r] \in InUse \cup {"crashed", "unopened"}
<1> SUFFICES ASSUME NEW p \in Pids, dir'[p].there
             PROVE  \E r \in Runs : Over(r, p)'
  BY DEF LeftBehind
<1>1. ASSUME NEW r \in Runs \ {q}, Over(r, p) PROVE Over(r, p)'
  BY <1>1, StepIsLocal
<1>2. CASE pid[q] # p \/ stage[q] = "idle"
  <2>1. PICK r \in Runs : Over(r, p)
    BY <1>2, StepIsLocal DEF LeftBehind
  <2>2. CASE r = q
    BY <1>2, <2>1, <2>2 DEF InUse
  <2> QED
    BY <1>1, <2>1, <2>2
<1>3. CASE pid[q] = p /\ stage[q] # "idle"
  <2> USE DEF TypeOK, Goes
  <2>1. CASE dir[p].there /\ ~Over(q, p)
    <3>1. PICK r \in Runs : Over(r, p)
      BY <2>1 DEF LeftBehind
    <3>2. r # q
      BY <2>1, <3>1
    <3> QED
      BY <1>1, <3>1, <3>2
  <2>2. CASE dir[p].there /\ Over(q, p)
    <3>1. CASE Write(q) \/ StageFails(q) \/ EndAnalyze(q)
      BY <1>3, <2>2, <3>1 DEF BuildersInUse, Write, StageFails, EndAnalyze, Dropped, Absent,
                              InUse
    <3>2. CASE Distribute(q) \/ Build(q) \/ Crash(q)
      BY <1>3, <3>2 DEF Distribute, Build, Crash, InUse
    <3> QED
      BY <1>3, <2>2, <3>1, <3>2 DEF StepOf, InUse, Start, ScanFile, ScanFails, EndScan,
            Validate, FromScan, RemoveLeftover, CreateDir, FromScanFails
  <2>3. CASE ~dir[p].there
    <3>1. CASE CreateDir(q, "distributing") \/ CreateDir(q, "analyzing")
               \/ FromScanFails(q)
      BY <1>3, <3>1 DEF CreateDir, FromScanFails, InUse
    <3> QED
      BY <1>3, <2>3, <3>1 DEF StepOf, Start, ScanFile, ScanFails, EndScan, Validate,
            FromScan, RemoveLeftover, EndAnalyze, Distribute, InDir, Build, Write,
            StageFails, Crash, Dropped, Absent
  <2> QED
    BY <2>1, <2>2, <2>3
<1> QED
  BY <1>2, <1>3

LEMMA Inductive ==
    ASSUME OneHost, IInv, [Next]_vars
    PROVE  IInv'
<1>1. ASSUME NEW q \in Runs, StepOf(q) PROVE IInv'
  BY <1>1, StepTypes, StepIds, StepBuilders, StepOwned, StepLeaves DEF IInv
<1>2. CASE UNCHANGED vars
  BY <1>2 DEF vars, IInv, TypeOK, PidsApart, BuildersInUse, DirsOwned, Holds, LeftBehind, Live
<1> QED
  BY <1>1, <1>2 DEF Next, StepOf, AllEnded

LEMMA Initially == Init => IInv
<1> SUFFICES ASSUME Init PROVE IInv
  OBVIOUS
<1>1. TypeOK
  BY DEF Init, TypeOK, Absent
<1> QED
  BY <1>1 DEF Init, IInv, PidsApart, BuildersInUse, DirsOwned, Holds, LeftBehind, Live,
              Running, InUse, Absent

LEMMA Invariance ==
    ASSUME OneHost
    PROVE  Spec => []IInv
<1>1. IInv /\ [Next]_vars => IInv'
  BY Inductive
<1> QED
  BY <1>1, Initially, PTL DEF Spec

\* What a run writes is its own points, once, whatever crashed runs left under
\* its process id and whatever runs beside it.
THEOREM OutputIsOwn ==
    ASSUME OneHost
    PROVE  Spec => []OutputOwn
<1>1. IInv => OutputOwn
  BY DEF IInv, DirsOwned, Holds, OutputOwn
<1> QED
  BY <1>1, Invariance, PTL

\* A directory stays behind only a run that died or could not open it.
THEOREM ScratchGivenBack ==
    ASSUME OneHost
    PROVE  Spec => []CleanedUp
<1>1. IInv => CleanedUp
  BY DEF IInv, LeftBehind, CleanedUp, InUse, Live, Running
<1> QED
  BY <1>1, Invariance, PTL

\* No step removes the directory of a run that is using it.
THEOREM DirectoryStays ==
    ASSUME OneHost
    PROVE  Spec => NeverPulled
<1>1. ASSUME IInv, IInv', NEW r \in Runs, builder[r], builder'[r]
      PROVE  InDir(r)'
  <2>1. stage'[r] \in InUse
    BY <1>1 DEF IInv, BuildersInUse
  <2> QED
    BY <1>1, <2>1 DEF IInv, DirsOwned, Holds, InUse, InDir, Fresh
<1>2. IInv /\ IInv' => \A r \in Runs : builder[r] /\ builder'[r] /\ InDir(r) => InDir(r)'
  BY <1>1
<1> QED
  BY <1>2, Invariance, PTL DEF NeverPulled

-----------------------------------------------------------------------------
(* The verdict on the inputs.                                              *)

\* What is assumed of a list of files.
IsList(files) ==
    /\ Len(files) \in Nat \ {0} /\ DOMAIN files = 1 .. Len(files)
    /\ \A i \in DOMAIN files : files[i].wkt \in Wkts \cup {NoWkt}

\* Two files that validate takes for the same CRS, whichever comes first.
SameCrs(a, b) ==
    /\ CrsKind(a).kind = "none" <=> CrsKind(b).kind = "none"
    /\ a.wkt # NoWkt /\ b.wkt # NoWkt => a.wkt = b.wkt
    /\ CrsKind(a).kind = "geo" /\ CrsKind(b).kind = "geo" => CrsKind(a).h = CrsKind(b).h
    /\ a.wkt # NoWkt /\ CrsKind(b).kind = "geo" =>
          WktEpsg[a.wkt] # NoCode /\ WktEpsg[a.wkt][1] = CrsKind(b).h
    /\ CrsKind(a).kind = "geo" /\ b.wkt # NoWkt =>
          WktEpsg[b.wkt] # NoCode /\ WktEpsg[b.wkt][1] = CrsKind(a).h

\* The files agree, and with them the temporal index that is asked for.
Agree(files, index) ==
    /\ \A i, j \in DOMAIN files :
          /\ SameCrs(files[i], files[j])
          /\ files[i].format = files[j].format
          /\ Schema(files[i]) = Schema(files[j])
          /\ files[i].width = files[j].width
    /\ index # 0
    /\ index # NoCode => \A i \in DOMAIN files : FormatHasGpsTime(files[i].format)

\* A nonempty set of naturals has a least element.
LEMMA LeastPlace ==
    ASSUME NEW T, T \subseteq Nat, T # {}
    PROVE  \E n \in T : \A m \in T : n <= m
<1> DEFINE R == OpToRel(<, Nat)
<1>1. IsWellFoundedOn(R, Nat)
  BY NatLessThanWellFounded
<1>2. \A x, y \in Nat : <<x, y>> \in R <=> x < y
  BY DEF OpToRel
<1> HIDE DEF R
<1>3. PICK x \in T : \A y \in T : ~(<<y, x>> \in R)
  BY <1>1, WFMin
<1>4. \A y \in T : ~(y < x)
  BY <1>2, <1>3
<1> QED
  BY <1>4

\* First finds a place where there is one.
LEMMA FirstFound ==
    ASSUME NEW n \in Nat, NEW S, S \subseteq 1 .. n, NEW default
    PROVE  /\ S = {} => First(S, default) = default
           /\ S # {} => First(S, default) \in S
<1>1. S \subseteq Nat
  OBVIOUS
<1>2. ASSUME S # {} PROVE First(S, default) \in S
  <2>1. \E i \in S : \A j \in S : i <= j
    BY <1>1, <1>2, LeastPlace
  <2> QED
    BY <1>2, <2>1 DEF First
<1> QED
  BY <1>2 DEF First

\* The kinds of CRS a file may have.
LEMMA KindsAre ==
    ASSUME NEW file
    PROVE  /\ CrsKind(file).kind \in {"none", "wkt", "geo"}
           /\ CrsKind(file).kind = "none" <=> CrsKind(file) = NoCrs
           /\ CrsKind(file).kind = "wkt" <=> file.wkt # NoWkt
           /\ file.wkt # NoWkt => CrsKind(file).hash = file.wkt
<1> DEFINE horizontal == IF file.geo = NoGeo THEN NoCode
                         ELSE CASE file.geo.model = 1 -> file.geo.projected
                                [] file.geo.model \in {2, 3} -> file.geo.geodetic
                                [] OTHER -> NoCode
<1>1. CrsKind(file) =
         IF file.wkt # NoWkt THEN [kind |-> "wkt", hash |-> file.wkt]
         ELSE IF horizontal # NoCode
              THEN [kind |-> "geo", h |-> horizontal, v |-> file.geo.vertical]
              ELSE [kind |-> "none"]
  BY DEF CrsKind, NoCrs
<1> HIDE DEF horizontal
<1>2. CASE file.wkt # NoWkt
  <2>1. CrsKind(file) = [kind |-> "wkt", hash |-> file.wkt]
    BY <1>1, <1>2
  <2> QED
    BY <1>2, <2>1 DEF NoCrs
<1>3. CASE file.wkt = NoWkt /\ horizontal # NoCode
  <2>1. CrsKind(file) = [kind |-> "geo", h |-> horizontal, v |-> file.geo.vertical]
    BY <1>1, <1>3
  <2> QED
    BY <1>3, <2>1 DEF NoCrs
<1>4. CASE file.wkt = NoWkt /\ horizontal = NoCode
  BY <1>1, <1>4 DEF NoCrs
<1> QED
  BY <1>2, <1>3, <1>4

\* The canonical WKT is that of a file that has one, if there is any.
LEMMA CanonicalIsOfFile ==
    ASSUME NEW files, IsList(files), NEW i \in DOMAIN files, files[i].wkt # NoWkt
    PROVE  \E j \in DOMAIN files : files[j].wkt # NoWkt /\ CanonicalWkt(files) = files[j].wkt
<1> DEFINE S == {j \in DOMAIN files : files[j].wkt # NoWkt}
<1>1. S \subseteq 1 .. Len(files) /\ S # {} /\ Len(files) \in Nat
  BY DEF IsList
<1>2. First(S, 0) \in S
  <2> HIDE DEF S
  <2> QED
    BY <1>1, FirstFound
<1>3. First(S, 0) # 0
  BY <1>1, <1>2
<1>4. CanonicalWkt(files) = files[First(S, 0)].wkt
  BY <1>3 DEF CanonicalWkt
<1> QED
  BY <1>2, <1>4

\* The reference of the comparison has a CRS if any file has.
LEMMA CrsFileFound ==
    ASSUME NEW files, IsList(files)
    PROVE  /\ CrsFile(files) \in DOMAIN files
           /\ CrsKind(files[CrsFile(files)]) = NoCrs =>
                 \A i \in DOMAIN files : CrsKind(files[i]) = NoCrs
<1> DEFINE S == {i \in DOMAIN files : CrsKind(files[i]) # NoCrs}
<1>1. S \subseteq 1 .. Len(files) /\ Len(files) \in Nat \ {0}
  BY DEF IsList
<1>2. CrsFile(files) = First(S, 1)
  BY DEF CrsFile
<1> HIDE DEF S
<1>3. /\ S = {} => First(S, 1) = 1
      /\ S # {} => First(S, 1) \in S
  BY <1>1, FirstFound
<1>4. CrsFile(files) \in 1 .. Len(files)
  <2>1. 1 \in 1 .. Len(files)
    BY <1>1
  <2> QED
    BY <1>1, <1>2, <1>3, <2>1
<1> QED
  BY <1>2, <1>3, <1>4 DEF S, IsList

\* Without the mixture, a file with a WKT has the canonical one where a
\* GeoTIFF file is beside it.
LEMMA OneWktBesideGeo ==
    ASSUME NEW files, IsList(files), ~MixesCrs(files),
           NEW i \in DOMAIN files, files[i].wkt # NoWkt,
           NEW k \in DOMAIN files, CrsKind(files[k]).kind = "geo"
    PROVE  CanonicalWkt(files) = files[i].wkt
<1>1. PICK j \in DOMAIN files : files[j].wkt # NoWkt /\ CanonicalWkt(files) = files[j].wkt
  BY CanonicalIsOfFile
<1>2. {files[i].wkt, files[j].wkt} \subseteq Wkts
  BY <1>1 DEF IsList
<1> QED
  BY <1>1, <1>2 DEF MixesCrs

\* When two kinds of CRS are compatible, case by case.
LEMMA CompatibleCases ==
    ASSUME NEW a, NEW b, NEW canonicalWkt,
           a.kind \in {"none", "wkt", "geo"}, b.kind \in {"none", "wkt", "geo"}
    PROVE  LET c == CrsKindsCompatible(a, b, canonicalWkt)
               Crosses(geo) == /\ canonicalWkt # NoWkt /\ WktEpsg[canonicalWkt] # NoCode
                               /\ WktEpsg[canonicalWkt][1] = geo.h
           IN  /\ a.kind = "wkt" /\ b.kind = "wkt" => (c <=> a.hash = b.hash)
               /\ a.kind = "geo" /\ b.kind = "geo" => (c <=> a.h = b.h)
               /\ a.kind = "wkt" /\ b.kind = "geo" => (c <=> Crosses(b))
               /\ a.kind = "geo" /\ b.kind = "wkt" => (c <=> Crosses(a))
               /\ a.kind = "none" \/ b.kind = "none" => (c <=> a = b)
<1>1. CASE a.kind = "wkt" /\ b.kind = "wkt"
  BY <1>1 DEF CrsKindsCompatible
<1>2. CASE a.kind = "geo" /\ b.kind = "geo"
  BY <1>2 DEF CrsKindsCompatible
<1>3. CASE a.kind = "wkt" /\ b.kind = "geo"
  BY <1>3 DEF CrsKindsCompatible
<1>4. CASE a.kind = "geo" /\ b.kind = "wkt"
  BY <1>4 DEF CrsKindsCompatible
<1>5. CASE a.kind = "none" \/ b.kind = "none"
  BY <1>5 DEF CrsKindsCompatible
<1> QED
  BY <1>1, <1>2, <1>3, <1>4, <1>5

\* The CRS of two files, kind by kind.
LEMMA SameCrsCases ==
    ASSUME NEW a, NEW b
    PROVE  LET ka == CrsKind(a).kind
               kb == CrsKind(b).kind
           IN  /\ ka = "wkt" /\ kb = "wkt" => (SameCrs(a, b) <=> a.wkt = b.wkt)
               /\ ka = "geo" /\ kb = "geo" => (SameCrs(a, b) <=> CrsKind(a).h = CrsKind(b).h)
               /\ ka = "wkt" /\ kb = "geo" =>
                     (SameCrs(a, b) <=> WktEpsg[a.wkt] # NoCode /\ WktEpsg[a.wkt][1] = CrsKind(b).h)
               /\ ka = "geo" /\ kb = "wkt" =>
                     (SameCrs(a, b) <=> WktEpsg[b.wkt] # NoCode /\ WktEpsg[b.wkt][1] = CrsKind(a).h)
               /\ ka = "none" \/ kb = "none" => (SameCrs(a, b) <=> ka = kb)
<1>1. /\ CrsKind(a).kind = "wkt" <=> a.wkt # NoWkt
      /\ CrsKind(b).kind = "wkt" <=> b.wkt # NoWkt
  BY KindsAre
<1> DEFINE ka == CrsKind(a).kind
           kb == CrsKind(b).kind
<1>2. CASE ka = "wkt"
  BY <1>1, <1>2 DEF SameCrs
<1>3. CASE ka = "geo"
  BY <1>1, <1>3 DEF SameCrs
<1>4. CASE ka = "none"
  BY <1>1, <1>4 DEF SameCrs
<1>5. ka \in {"none", "wkt", "geo"} /\ kb \in {"none", "wkt", "geo"}
  BY KindsAre
<1> QED
  BY <1>2, <1>3, <1>4, <1>5

\* Files that pass the first pass have one CRS, pair by pair.
LEMMA PassedFilesShareCrs ==
    ASSUME NEW files, IsList(files), ~MixesCrs(files), CrsMismatches(files) = {},
           NEW i \in DOMAIN files, NEW j \in DOMAIN files
    PROVE  SameCrs(files[i], files[j])
<1> DEFINE r == CrsFile(files)
           c == CanonicalWkt(files)
           K(n) == CrsKind(files[n])
           Fits1(n) == CrsKindsCompatible(K(r), K(n), c)
<1>1. r \in DOMAIN files /\ (K(r) = NoCrs => \A n \in DOMAIN files : K(n) = NoCrs)
  BY CrsFileFound
<1>2. \A n \in DOMAIN files : /\ K(n).kind \in {"none", "wkt", "geo"}
                              /\ K(n).kind = "none" <=> K(n) = NoCrs
                              /\ K(n).kind = "wkt" <=> files[n].wkt # NoWkt
                              /\ K(n).kind = "wkt" => K(n).hash = files[n].wkt
  BY KindsAre
<1>3. \A n \in DOMAIN files \ {r} : Fits1(n)
  BY DEF CrsMismatches
<1>4. CASE K(r).kind = "none"
  <2>1. K(i).kind = "none" /\ K(j).kind = "none"
    BY <1>1, <1>2, <1>4
  <2> QED
    BY <2>1, SameCrsCases
<1>5. CASE K(r).kind = "wkt"
  <2>1. c = files[r].wkt
    <3>1. PICK m \in DOMAIN files : files[m].wkt # NoWkt /\ c = files[m].wkt
      BY <1>1, <1>2, <1>5, CanonicalIsOfFile
    <3>2. CASE m # r
      <4>1. K(m).kind = "wkt" /\ Fits1(m)
        BY <1>2, <1>3, <3>1, <3>2
      <4>2. K(r).hash = K(m).hash
        BY <1>5, <4>1, CompatibleCases
      <4> QED
        BY <1>1, <1>2, <1>5, <3>1, <4>1, <4>2
    <3> QED
      BY <3>1, <3>2
  <2>2. ASSUME NEW n \in DOMAIN files
        PROVE  \/ K(n).kind = "wkt" /\ files[n].wkt = c
               \/ K(n).kind = "geo" /\ WktEpsg[c] # NoCode /\ WktEpsg[c][1] = K(n).h
    <3>1. CASE n = r
      BY <1>5, <2>1, <3>1
    <3>2. CASE n # r
      <4>1. Fits1(n)
        BY <1>3, <3>2
      <4>2. K(n).kind \in {"none", "wkt", "geo"} /\ K(r).kind \in {"none", "wkt", "geo"}
        BY <1>1, <1>2
      <4> HIDE DEF c, r
      <4>3. K(n).kind # "none"
        BY <1>5, <4>1, <4>2, CompatibleCases
      <4>4. CASE K(n).kind = "wkt"
        <5>1. K(r).hash = K(n).hash
          BY <1>5, <4>1, <4>4, CompatibleCases
        <5> QED
          BY <1>1, <1>2, <1>5, <2>1, <4>4, <5>1
      <4>5. CASE K(n).kind = "geo"
        BY <1>5, <4>1, <4>5, CompatibleCases
      <4> QED
        BY <4>2, <4>3, <4>4, <4>5
    <3> QED
      BY <3>1, <3>2
  <2>3. /\ \/ K(i).kind = "wkt" /\ files[i].wkt = c
           \/ K(i).kind = "geo" /\ WktEpsg[c] # NoCode /\ WktEpsg[c][1] = K(i).h
        /\ \/ K(j).kind = "wkt" /\ files[j].wkt = c
           \/ K(j).kind = "geo" /\ WktEpsg[c] # NoCode /\ WktEpsg[c][1] = K(j).h
    BY <2>2
  <2> HIDE DEF c, r
  <2> QED
    BY <2>3, SameCrsCases
<1>6. CASE K(r).kind = "geo"
  <2>1. ASSUME NEW n \in DOMAIN files
        PROVE  \/ K(n).kind = "geo" /\ K(n).h = K(r).h
               \/ /\ K(n).kind = "wkt" /\ files[n].wkt = c
                  /\ WktEpsg[c] # NoCode /\ WktEpsg[c][1] = K(r).h
    <3>1. CASE n = r
      BY <1>6, <3>1
    <3>2. CASE n # r
      <4>1. Fits1(n)
        BY <1>3, <3>2
      <4>2. K(n).kind \in {"none", "wkt", "geo"} /\ K(r).kind \in {"none", "wkt", "geo"}
        BY <1>1, <1>2
      <4>3. K(n).kind = "wkt" => c = files[n].wkt
        BY <1>1, <1>2, <1>6, OneWktBesideGeo
      <4> HIDE DEF c, r
      <4>4. K(n).kind # "none"
        BY <1>6, <4>1, <4>2, CompatibleCases
      <4>5. CASE K(n).kind = "wkt"
        BY <1>6, <4>1, <4>3, <4>5, CompatibleCases
      <4>6. CASE K(n).kind = "geo"
        BY <1>6, <4>1, <4>6, CompatibleCases
      <4> QED
        BY <4>2, <4>4, <4>5, <4>6
    <3> QED
      BY <3>1, <3>2
  <2>2. /\ \/ K(i).kind = "geo" /\ K(i).h = K(r).h
           \/ /\ K(i).kind = "wkt" /\ files[i].wkt = c
              /\ WktEpsg[c] # NoCode /\ WktEpsg[c][1] = K(r).h
        /\ \/ K(j).kind = "geo" /\ K(j).h = K(r).h
           \/ /\ K(j).kind = "wkt" /\ files[j].wkt = c
              /\ WktEpsg[c] # NoCode /\ WktEpsg[c][1] = K(r).h
    BY <2>1
  <2> HIDE DEF c, r
  <2> QED
    BY <2>2, SameCrsCases
<1> QED
  BY <1>1, <1>2, <1>4, <1>5, <1>6

\* Files with one CRS pass.
LEMMA FilesThatShareCrsPass ==
    ASSUME NEW files, IsList(files),
           \A i, j \in DOMAIN files : SameCrs(files[i], files[j])
    PROVE  CrsMismatches(files) = {}
<1> DEFINE r == CrsFile(files)
           c == CanonicalWkt(files)
           K(n) == CrsKind(files[n])
<1> SUFFICES ASSUME NEW n \in DOMAIN files
             PROVE  CrsKindsCompatible(K(r), K(n), c)
  BY DEF CrsMismatches
<1>1. r \in DOMAIN files
  BY CrsFileFound
<1>2. \A m \in DOMAIN files : /\ K(m).kind \in {"none", "wkt", "geo"}
                              /\ K(m).kind = "none" <=> K(m) = NoCrs
                              /\ K(m).kind = "wkt" <=> files[m].wkt # NoWkt
                              /\ K(m).kind = "wkt" => K(m).hash = files[m].wkt
  BY KindsAre
<1>3. ASSUME NEW m \in DOMAIN files, K(m).kind = "wkt",
             NEW k \in DOMAIN files, K(k).kind = "geo"
      PROVE  c # NoWkt /\ WktEpsg[c] # NoCode /\ WktEpsg[c][1] = K(k).h
  <2>1. PICK o \in DOMAIN files : files[o].wkt # NoWkt /\ c = files[o].wkt
    BY <1>2, <1>3, CanonicalIsOfFile
  <2>2. K(o).kind = "wkt" /\ SameCrs(files[o], files[k])
    BY <1>2, <2>1
  <2> QED
    BY <1>3, <2>1, <2>2, SameCrsCases
<1>4. SameCrs(files[r], files[n])
  BY <1>1
<1> HIDE DEF c, r
<1>5. /\ K(n).kind \in {"none", "wkt", "geo"} /\ K(r).kind \in {"none", "wkt", "geo"}
      /\ K(n).kind = "none" <=> K(n) = NoCrs
      /\ K(r).kind = "none" <=> K(r) = NoCrs
      /\ K(n).kind = "wkt" => K(n).hash = files[n].wkt
      /\ K(r).kind = "wkt" => K(r).hash = files[r].wkt
  BY <1>1, <1>2
<1>6. CASE K(r).kind = "none" \/ K(n).kind = "none"
  <2>1. K(r).kind = K(n).kind
    BY <1>4, <1>6, SameCrsCases
  <2> QED
    BY <1>5, <1>6, <2>1, CompatibleCases
<1>7. CASE K(r).kind = "wkt" /\ K(n).kind = "wkt"
  <2>1. K(r).hash = K(n).hash
    BY <1>4, <1>5, <1>7, SameCrsCases
  <2> QED
    BY <1>5, <1>7, <2>1, CompatibleCases
<1>8. CASE K(r).kind = "geo" /\ K(n).kind = "geo"
  <2>1. K(r).h = K(n).h
    BY <1>4, <1>8, SameCrsCases
  <2> QED
    BY <1>5, <1>8, <2>1, CompatibleCases
<1>9. CASE K(r).kind = "wkt" /\ K(n).kind = "geo"
  <2>1. c # NoWkt /\ WktEpsg[c] # NoCode /\ WktEpsg[c][1] = K(n).h
    BY <1>1, <1>3, <1>9
  <2> QED
    BY <1>5, <1>9, <2>1, CompatibleCases
<1>10. CASE K(r).kind = "geo" /\ K(n).kind = "wkt"
  <2>1. c # NoWkt /\ WktEpsg[c] # NoCode /\ WktEpsg[c][1] = K(r).h
    BY <1>1, <1>3, <1>10
  <2> QED
    BY <1>5, <1>10, <2>1, CompatibleCases
<1> QED
  BY <1>5, <1>6, <1>7, <1>8, <1>9, <1>10

\* Files with one CRS are read as in one horizontal CRS.
LEMMA SameCrsSameHorizontal ==
    ASSUME NEW a, NEW b, SameCrs(a, b)
    PROVE  Horizontal(a) = Horizontal(b)
<1>1. /\ CrsKind(a).kind \in {"none", "wkt", "geo"}
      /\ CrsKind(a).kind = "none" <=> CrsKind(a) = NoCrs
      /\ CrsKind(a).kind = "wkt" <=> a.wkt # NoWkt
      /\ CrsKind(b).kind \in {"none", "wkt", "geo"}
      /\ CrsKind(b).kind = "none" <=> CrsKind(b) = NoCrs
      /\ CrsKind(b).kind = "wkt" <=> b.wkt # NoWkt
  BY KindsAre
<1>2. CASE a.wkt # NoWkt
  BY <1>1, <1>2, SameCrsCases DEF Horizontal
<1>3. CASE a.wkt = NoWkt /\ CrsKind(a).kind = "geo"
  BY <1>1, <1>3, SameCrsCases DEF Horizontal
<1>4. CASE CrsKind(a).kind = "none"
  BY <1>1, <1>4, SameCrsCases DEF Horizontal
<1> QED
  BY <1>1, <1>2, <1>3, <1>4

\* A pass over the files stops where there is something to stop at.
LEMMA StopsWithin ==
    ASSUME NEW n \in Nat, NEW S, S \subseteq 1 .. n
    PROVE  /\ First(S, n + 1) \in 1 .. n + 1
           /\ First(S, n + 1) <= n <=> S # {}
<1>1. /\ S = {} => First(S, n + 1) = n + 1
      /\ S # {} => First(S, n + 1) \in S
  BY FirstFound
<1>2. CASE S = {}
  BY <1>1, <1>2
<1>3. CASE S # {}
  <2>1. First(S, n + 1) \in 1 .. n
    BY <1>1, <1>3
  <2> QED
    BY <1>3, <2>1
<1> QED
  BY <1>2, <1>3

\* validate accepts exactly when no pass finds anything.
LEMMA AcceptedWhen ==
    ASSUME NEW files, IsList(files), NEW index
    PROVE  Verdict(files, index).ok <=>
             /\ CrsMismatches(files) = {}
             /\ FormatMismatches(files) = {}
             /\ ExtrasMismatches(files) = {}
             /\ index # 0
             /\ index # NoCode => FormatHasGpsTime(files[1].format)
<1> DEFINE n      == Len(files)
           crs    == First(CrsMismatches(files), n + 1)
           format == First(FormatMismatches(files), n + 1)
           extras == First(ExtrasMismatches(files), n + 1)
           accepted == [ok |-> TRUE, wkt |-> CanonicalWkt(files),
                        extras |-> MergedExtras(files),
                        width |-> files[ExtrasFile(files)].width,
                        format |-> InputToCopcFormat(files[1].format)]
<1>1. Verdict(files, index) =
         IF crs <= n /\ crs <= format THEN Refused("crs", CrsFile(files), crs)
         ELSE IF format <= n THEN Refused("format", 1, format)
         ELSE IF extras <= n THEN Refused("extras", ExtrasFile(files), extras)
         ELSE IF index = 0 THEN Refused("stride", 1, 1)
         ELSE IF index # NoCode /\ ~FormatHasGpsTime(files[1].format)
              THEN Refused("no gps time", 1, 1)
         ELSE accepted
  BY DEF Verdict
<1>2. accepted.ok
  OBVIOUS
<1>3. \A e, a, b : Refused(e, a, b).ok = FALSE
  BY DEF Refused
<1>4. n \in Nat /\ DOMAIN files = 1 .. n
  BY DEF IsList
<1>5. /\ CrsMismatches(files) \subseteq 1 .. n
      /\ FormatMismatches(files) \subseteq 1 .. n
      /\ ExtrasMismatches(files) \subseteq 1 .. n
  BY <1>4 DEF CrsMismatches, FormatMismatches, ExtrasMismatches
<1> HIDE DEF n
<1>6. /\ crs \in 1 .. n + 1 /\ (crs <= n <=> CrsMismatches(files) # {})
      /\ format \in 1 .. n + 1 /\ (format <= n <=> FormatMismatches(files) # {})
      /\ extras \in 1 .. n + 1 /\ (extras <= n <=> ExtrasMismatches(files) # {})
  BY <1>4, <1>5, StopsWithin
<1> HIDE DEF crs, format, extras, accepted
<1>7. (crs <= n /\ crs <= format) \/ format <= n <=> crs <= n \/ format <= n
  BY <1>4, <1>6
<1> DEFINE C == crs <= n /\ crs <= format
           F == format <= n
           X == extras <= n
           T == index # NoCode /\ ~FormatHasGpsTime(files[1].format)
<1>8. Verdict(files, index).ok <=> ~C /\ ~F /\ ~X /\ index # 0 /\ ~T
  <2>0. Verdict(files, index) =
         IF C THEN Refused("crs", CrsFile(files), crs)
         ELSE IF F THEN Refused("format", 1, format)
         ELSE IF X THEN Refused("extras", ExtrasFile(files), extras)
         ELSE IF index = 0 THEN Refused("stride", 1, 1)
         ELSE IF T THEN Refused("no gps time", 1, 1)
         ELSE accepted
    BY <1>1
  <2> HIDE DEF C, F, X, T
  <2>1. CASE C
    BY <1>3, <2>0, <2>1
  <2>2. CASE ~C /\ F
    BY <1>3, <2>0, <2>2
  <2>3. CASE ~C /\ ~F /\ X
    BY <1>3, <2>0, <2>3
  <2>4. CASE ~C /\ ~F /\ ~X /\ index = 0
    BY <1>3, <2>0, <2>4
  <2>5. CASE ~C /\ ~F /\ ~X /\ index # 0 /\ T
    BY <1>3, <2>0, <2>5
  <2>6. CASE ~C /\ ~F /\ ~X /\ index # 0 /\ ~T
    BY <1>2, <2>0, <2>6
  <2> QED
    BY <2>1, <2>2, <2>3, <2>4, <2>5, <2>6
<1> QED
  BY <1>6, <1>7, <1>8

\* The payload that the others are compared with is some file's.
LEMMA ExtrasFileFound ==
    ASSUME NEW files, IsList(files)
    PROVE  ExtrasFile(files) \in DOMAIN files /\ 1 \in DOMAIN files
<1> DEFINE S == {i \in DOMAIN files : files[i].extras # NoExtras}
<1>1. S \subseteq 1 .. Len(files) /\ Len(files) \in Nat \ {0}
  BY DEF IsList
<1>2. ExtrasFile(files) = First(S, 1)
  BY DEF ExtrasFile
<1> HIDE DEF S
<1>3. /\ S = {} => First(S, 1) = 1
      /\ S # {} => First(S, 1) \in S
  BY <1>1, FirstFound
<1>4. 1 \in 1 .. Len(files)
  BY <1>1
<1>5. CrsFile(files) \in DOMAIN files /\ DOMAIN files = 1 .. Len(files)
  BY CrsFileFound DEF IsList
<1> QED
  BY <1>1, <1>2, <1>3, <1>4, <1>5

\* Files agree in format, schema and width with their references if and only
\* if they agree with each other.
LEMMA MismatchesOfPairs ==
    ASSUME NEW files, IsList(files)
    PROVE  /\ FormatMismatches(files) = {} <=>
                \A i, j \in DOMAIN files : files[i].format = files[j].format
           /\ ExtrasMismatches(files) = {} <=>
                \A i, j \in DOMAIN files : /\ Schema(files[i]) = Schema(files[j])
                                           /\ files[i].width = files[j].width
<1>1. ExtrasFile(files) \in DOMAIN files /\ 1 \in DOMAIN files
  BY ExtrasFileFound
<1>2. FormatMismatches(files) = {} <=>
        \A i \in DOMAIN files : files[i].format = files[1].format
  BY DEF FormatMismatches
<1>3. ExtrasMismatches(files) = {} <=>
        \A i \in DOMAIN files : /\ Schema(files[i]) = Schema(files[ExtrasFile(files)])
                                /\ files[i].width = files[ExtrasFile(files)].width
  BY DEF ExtrasMismatches
<1>4. FormatMismatches(files) = {} <=>
                \A i, j \in DOMAIN files : files[i].format = files[j].format
  <2>1. ASSUME FormatMismatches(files) = {}
        PROVE  \A i, j \in DOMAIN files : files[i].format = files[j].format
    BY <1>2, <2>1
  <2>2. ASSUME \A i, j \in DOMAIN files : files[i].format = files[j].format
        PROVE  FormatMismatches(files) = {}
    BY <1>1, <1>2, <2>2
  <2> QED
    BY <2>1, <2>2
<1>5. ExtrasMismatches(files) = {} <=>
                \A i, j \in DOMAIN files : /\ Schema(files[i]) = Schema(files[j])
                                           /\ files[i].width = files[j].width
  <2>1. ASSUME ExtrasMismatches(files) = {}
        PROVE  \A i, j \in DOMAIN files : /\ Schema(files[i]) = Schema(files[j])
                                          /\ files[i].width = files[j].width
    BY <1>3, <2>1
  <2>2. ASSUME \A i, j \in DOMAIN files : /\ Schema(files[i]) = Schema(files[j])
                                          /\ files[i].width = files[j].width
        PROVE  ExtrasMismatches(files) = {}
    BY <1>1, <1>3, <2>2
  <2> QED
    BY <2>1, <2>2
<1> QED
  BY <1>4, <1>5

\* Without the mixture, validate accepts exactly the files that agree pair
\* by pair, and no first file, reference or canonical payload matters.
LEMMA AcceptedWhenAgreeing ==
    ASSUME NEW files, IsList(files), ~MixesCrs(files), NEW index
    PROVE  Verdict(files, index).ok <=> Agree(files, index)
<1> DEFINE formats == \A i, j \in DOMAIN files : files[i].format = files[j].format
           extras  == \A i, j \in DOMAIN files : /\ Schema(files[i]) = Schema(files[j])
                                                 /\ files[i].width = files[j].width
           crs     == \A i, j \in DOMAIN files : SameCrs(files[i], files[j])
           times   == \A i \in DOMAIN files : FormatHasGpsTime(files[i].format)
<1>1. CrsMismatches(files) = {} <=> crs
  BY PassedFilesShareCrs, FilesThatShareCrsPass
<1>2. (FormatMismatches(files) = {} <=> formats) /\ (ExtrasMismatches(files) = {} <=> extras)
  BY MismatchesOfPairs
<1>3. formats => (times <=> FormatHasGpsTime(files[1].format))
  <2>1. 1 \in DOMAIN files
    BY ExtrasFileFound
  <2> QED
    BY <2>1
<1>4. Agree(files, index) <=>
        crs /\ formats /\ extras /\ index # 0 /\ (index # NoCode => times)
  BY DEF Agree
<1>5. Verdict(files, index).ok <=>
             /\ CrsMismatches(files) = {}
             /\ FormatMismatches(files) = {}
             /\ ExtrasMismatches(files) = {}
             /\ index # 0
             /\ index # NoCode => FormatHasGpsTime(files[1].format)
  BY AcceptedWhen
<1> HIDE DEF crs, formats, extras, times
<1> QED
  BY <1>1, <1>2, <1>3, <1>4, <1>5

-----------------------------------------------------------------------------
(* Accepted files agree.                                                   *)

\* A run keeps its files and its temporal index, and its verdict is the one
\* on them.
VerdictKept ==
    /\ \A r \in Runs : inputs[r] \in InputsOf[r]
    /\ DOMAIN result = Runs
    /\ \A r \in Runs : result[r].ok => result[r] = Verdict(inputs[r], stride[r])

LEMMA VerdictStays ==
    ASSUME VerdictKept, [Next]_vars
    PROVE  VerdictKept'
<1>1. ASSUME NEW q \in Runs, Validate(q) PROVE VerdictKept'
  <2>1. inputs' = inputs /\ stride' = stride
    BY <1>1 DEF Validate
  <2>2. result' = [result EXCEPT ![q] = Verdict(inputs[q], stride[q])]
    BY <1>1 DEF Validate
  <2> QED
    BY <2>1, <2>2 DEF VerdictKept
<1>2. CASE UNCHANGED <<inputs, stride, result>>
  BY <1>2 DEF VerdictKept
<1>3. ASSUME NEW q \in Runs, StepOf(q), ~Validate(q)
      PROVE  UNCHANGED <<inputs, stride, result>>
  BY <1>3 DEF StepOf, Start, ScanFile, ScanFails, EndScan, FromScan, RemoveLeftover,
              CreateDir, FromScanFails, EndAnalyze, Distribute, Build, Write,
              StageFails, Crash
<1>4. CASE UNCHANGED vars
  BY <1>2, <1>4 DEF vars
<1> QED
  BY <1>1, <1>2, <1>3, <1>4 DEF Next, StepOf, AllEnded

LEMMA VerdictAtFirst == Init => VerdictKept
<1> SUFFICES ASSUME Init PROVE VerdictKept
  OBVIOUS
<1>1. \A r \in Runs : inputs[r] \in InputsOf[r]
  BY DEF Init
<1>2. result = [r \in Runs |-> NoResult] /\ NoResult.ok = FALSE
  BY DEF Init, NoResult
<1> QED
  BY <1>1, <1>2 DEF VerdictKept

\* The files of a run are a list of files.
LEMMA InputsAreLists ==
    ASSUME VerdictKept, NEW r \in Runs
    PROVE  IsList(inputs[r])
BY PipelineAssumption DEF VerdictKept, IsList, IsFile

\* Files that validate accepted agree, the mixture's CRS excepted.
LEMMA AcceptedFilesAgree == VerdictKept => AcceptedAgree
<1> SUFFICES ASSUME VerdictKept, NEW r \in Runs, result[r].ok,
                    NEW i \in DOMAIN inputs[r], NEW j \in DOMAIN inputs[r]
             PROVE  LET a == inputs[r][i]
                        b == inputs[r][j]
                    IN  /\ Horizontal(a) = Horizontal(b) \/ MixesCrs(inputs[r])
                        /\ a.format = b.format
                        /\ Schema(a) = Schema(b)
                        /\ a.width = b.width
  BY DEF AcceptedAgree
<1> DEFINE files == inputs[r]
<1>1. IsList(files)
  BY InputsAreLists
<1>2. Verdict(files, stride[r]).ok
  BY DEF VerdictKept
<1> HIDE DEF files
<1>3. /\ CrsMismatches(files) = {}
      /\ FormatMismatches(files) = {} /\ ExtrasMismatches(files) = {}
  BY <1>1, <1>2, AcceptedWhen
<1>4. /\ \A k, l \in DOMAIN files : files[k].format = files[l].format
      /\ \A k, l \in DOMAIN files : /\ Schema(files[k]) = Schema(files[l])
                                    /\ files[k].width = files[l].width
  BY <1>1, <1>3, MismatchesOfPairs
<1>5. i \in DOMAIN files /\ j \in DOMAIN files
  BY DEF files
<1>6. ASSUME ~MixesCrs(files) PROVE Horizontal(files[i]) = Horizontal(files[j])
  BY <1>1, <1>3, <1>5, <1>6, PassedFilesShareCrs, SameCrsSameHorizontal
<1> QED
  BY <1>4, <1>5, <1>6 DEF files

\* The files of a run that validate accepted have one horizontal CRS, one
\* point format, one Extra Bytes schema and one record width, on any number
\* of hosts; of the mixture of GeoTIFF codes and several WKTs, all but the
\* first.
THEOREM AcceptedInputsAgree == Spec => []AcceptedAgree
<1>1. VerdictKept /\ [Next]_vars => VerdictKept'
  BY VerdictStays
<1> QED
  BY <1>1, VerdictAtFirst, AcceptedFilesAgree, PTL DEF Spec

-----------------------------------------------------------------------------
(* The order of the files does not matter.                                 *)

\* An injective renumbering of a list leaves no place out.
LEMMA ReordersAll ==
    ASSUME NEW n \in Nat, NEW o \in [1 .. n -> 1 .. n], IsInjective(o)
    PROVE  \A i \in 1 .. n : \E k \in 1 .. n : o[k] = i
<1>1. o \in Injection(1 .. n, 1 .. n)
  BY DEF Injection
<1>2. IsFiniteSet(1 .. n)
  BY FS_Interval
<1>3. o \in Surjection(1 .. n, 1 .. n)
  BY <1>1, <1>2, FS_Injection
<1> QED
  BY <1>3 DEF Surjection

Reordered(files, o) == [i \in DOMAIN files |-> files[o[i]]]

LEMMA SameLength ==
    ASSUME NEW n \in Nat \ {0}, NEW m \in Nat, 1 .. n = 1 .. m
    PROVE  m = n
<1>1. n \in 1 .. n
  OBVIOUS
<1>2. n \in 1 .. m
  BY <1>1
<1>3. m \in 1 .. m
  BY <1>2
<1>4. m \in 1 .. n
  BY <1>3
<1> QED
  BY <1>2, <1>4

LEMMA FunctionIsList ==
    ASSUME NEW S, NEW n \in Nat, NEW f \in [1 .. n -> S]
    PROVE  f \in Seq(S)
<1>1. Seq(S) = UNION {[1 .. m -> S] : m \in Nat}
  BY SeqDef
<1> QED
  BY <1>1, Zenon

LEMMA ReorderedIsList ==
    ASSUME NEW files, IsList(files),
           NEW o \in [DOMAIN files -> DOMAIN files]
    PROVE  IsList(Reordered(files, o))
<1> DEFINE n == Len(files)
           perm == Reordered(files, o)
           F == {files[i] : i \in 1 .. n}
<1>1. n \in Nat \ {0} /\ DOMAIN files = 1 .. n
  BY DEF IsList
<1>2. perm = [i \in 1 .. n |-> files[o[i]]]
  BY <1>1 DEF Reordered
<1> HIDE DEF n, perm
<1>3. perm \in [1 .. n -> F]
  BY <1>1, <1>2
<1> HIDE DEF F
<1>4. perm \in Seq(F)
  <2>1. n \in Nat
    BY <1>1
  <2> QED
    BY <1>3, <2>1, FunctionIsList
<1>5. Len(perm) \in Nat /\ DOMAIN perm = 1 .. Len(perm)
  BY <1>4, LenProperties
<1>6. DOMAIN perm = 1 .. n
  BY <1>2
<1>7. 1 .. n = 1 .. Len(perm)
  BY <1>5, <1>6
<1>8. Len(perm) = n
  BY <1>1, <1>5, <1>7, SameLength
<1>9. \A i \in DOMAIN perm : perm[i].wkt \in Wkts \cup {NoWkt}
  BY <1>1, <1>2 DEF IsList
<1> QED
  BY <1>1, <1>6, <1>8, <1>9 DEF IsList, perm

\* What is said of every place, or of every two places, of a list does not
\* depend on the order: here what the verdict looks at.
LEMMA ReorderedAlike ==
    ASSUME NEW files, IsList(files), NEW index,
           NEW o \in [DOMAIN files -> DOMAIN files], IsInjective(o)
    PROVE  /\ Agree(Reordered(files, o), index) <=> Agree(files, index)
           /\ MixesCrs(Reordered(files, o)) <=> MixesCrs(files)
<1> DEFINE D == DOMAIN files
           perm == Reordered(files, o)
<1>1. DOMAIN perm = D /\ \A i \in D : o[i] \in D /\ perm[i] = files[o[i]]
  BY DEF Reordered
<1>2. \A i \in D : \E k \in D : files[i] = perm[k]
  <2>1. Len(files) \in Nat /\ D = 1 .. Len(files)
    BY DEF IsList
  <2>2. o \in [1 .. Len(files) -> 1 .. Len(files)]
    BY <2>1
  <2>3. \A i \in 1 .. Len(files) : \E k \in 1 .. Len(files) : o[k] = i
    BY <2>1, <2>2, ReordersAll
  <2>4. ASSUME NEW i \in D PROVE \E k \in D : files[i] = perm[k]
    <3>1. PICK k \in 1 .. Len(files) : o[k] = i
      BY <2>1, <2>3, <2>4
    <3>2. k \in D
      BY <2>1, <3>1
    <3>3. perm[k] = files[o[k]]
      BY <1>1, <3>2
    <3> QED
      BY <3>1, <3>2, <3>3
  <2> QED
    BY <2>4
<1> HIDE DEF D, perm
<1>3. DOMAIN files = D
  BY DEF D
<1>4. ASSUME Agree(perm, index) PROVE Agree(files, index)
  <2>1. ASSUME NEW i \in D, NEW j \in D
        PROVE  /\ SameCrs(files[i], files[j])
               /\ files[i].format = files[j].format
               /\ Schema(files[i]) = Schema(files[j])
               /\ files[i].width = files[j].width
    <3>1. PICK k \in D : files[i] = perm[k]
      BY <1>2
    <3>2. PICK l \in D : files[j] = perm[l]
      BY <1>2
    <3> QED
      BY <1>1, <1>4, <3>1, <3>2 DEF Agree
  <2>2. index # 0
    BY <1>4 DEF Agree
  <2>3. ASSUME index # NoCode, NEW i \in D PROVE FormatHasGpsTime(files[i].format)
    BY <1>1, <1>2, <1>4, <2>3 DEF Agree
  <2> QED
    BY <1>3, <2>1, <2>2, <2>3 DEF Agree
<1>5. Agree(files, index) => Agree(perm, index)
  BY <1>1, <1>3 DEF Agree
<1>6. MixesCrs(perm) => MixesCrs(files)
  BY <1>1, <1>3 DEF MixesCrs
<1>7. ASSUME MixesCrs(files) PROVE MixesCrs(perm)
  <2>1. PICK i \in D, j \in D : /\ {files[i].wkt, files[j].wkt} \subseteq Wkts
                                 /\ files[i].wkt # files[j].wkt
    BY <1>3, <1>7 DEF MixesCrs
  <2>2. PICK k \in D : CrsKind(files[k]).kind = "geo"
    BY <1>3, <1>7 DEF MixesCrs
  <2>3. PICK a \in D : perm[a] = files[i]
    BY <1>2
  <2>4. PICK b \in D : perm[b] = files[j]
    BY <1>2
  <2>5. PICK c \in D : perm[c] = files[k]
    BY <1>2
  <2>6. {perm[a].wkt, perm[b].wkt} \subseteq Wkts /\ perm[a].wkt # perm[b].wkt
    BY <2>1, <2>3, <2>4
  <2>7. CrsKind(perm[c]).kind = "geo"
    BY <2>2, <2>5
  <2> QED
    BY <1>1, <2>6, <2>7 DEF MixesCrs
<1> QED
  BY <1>4, <1>5, <1>6, <1>7 DEF perm

\* Whether validate accepts the files of a run does not depend on the order
\* they are named in, the mixture excepted.
THEOREM OrderIsIgnored == Spec => []VerdictIgnoresOrder
<1>1. VerdictKept => VerdictIgnoresOrder
  <2> SUFFICES ASSUME VerdictKept, NEW r \in Runs, ~MixesCrs(inputs[r]),
                      NEW o \in [DOMAIN inputs[r] -> DOMAIN inputs[r]], IsInjective(o)
               PROVE  Verdict(Reordered(inputs[r], o), stride[r]).ok
                        = Verdict(inputs[r], stride[r]).ok
    BY DEF VerdictIgnoresOrder, Reordered
  <2> DEFINE files == inputs[r]
             perm  == Reordered(files, o)
  <2>1. IsList(files)
    BY InputsAreLists
  <2>2. IsList(perm)
    BY <2>1, ReorderedIsList
  <2>3. /\ Agree(perm, stride[r]) <=> Agree(files, stride[r])
        /\ MixesCrs(perm) <=> MixesCrs(files)
    BY <2>1, ReorderedAlike
  <2>4. Verdict(files, stride[r]).ok <=> Agree(files, stride[r])
    BY <2>1, AcceptedWhenAgreeing
  <2>5. Verdict(perm, stride[r]).ok <=> Agree(perm, stride[r])
    BY <2>2, <2>3, AcceptedWhenAgreeing
  <2>6. \A f, s : Verdict(f, s).ok \in BOOLEAN
    BY DEF Verdict, Refused
  <2> QED
    BY <2>3, <2>4, <2>5, <2>6
<1>2. VerdictKept /\ [Next]_vars => VerdictKept'
  BY VerdictStays
<1> QED
  BY <1>1, <1>2, VerdictAtFirst, PTL DEF Spec

\* What holds at 0, and at the next one of every number it holds at, holds
\* throughout an interval from 0: T is where it holds.
LEMMA Climb ==
    ASSUME NEW d \in Nat, NEW T, 0 \in T, \A i \in 1 .. d : i - 1 \in T => i \in T
    PROVE  \A i \in 0 .. d : i \in T
<1> DEFINE B == {i \in 0 .. d : i \notin T}
<1>1. SUFFICES ASSUME B # {} PROVE FALSE
  OBVIOUS
<1>2. B \subseteq Nat
  OBVIOUS
<1> HIDE DEF B
<1>3. PICK i \in B : \A k \in B : i <= k
  BY <1>1, <1>2, LeastPlace
<1>4. i \in 0 .. d /\ i \notin T
  BY <1>3 DEF B
<1>5. i # 0
  BY <1>4
<1>6. i \in 1 .. d /\ i - 1 \in 0 .. d /\ i - 1 \notin B
  BY <1>3, <1>4, <1>5
<1>7. i - 1 \in T
  BY <1>6 DEF B
<1> QED
  BY <1>4, <1>6, <1>7

\* u has the powers of n up to the d-th.
Powers(n, d, u) ==
    /\ u \in [0 .. d -> Nat] /\ u[0] = 1
    /\ \A i \in 1 .. d : u[i] = n * u[i - 1]

LEMMA PowersExist ==
    ASSUME NEW n \in Nat, NEW d \in Nat
    PROVE  \E u : Powers(n, d, u)
<1> DEFINE T == {i \in Nat : \E u : Powers(n, i, u)}
<1>1. 0 \in T
  <2>1. Powers(n, 0, [i \in 0 .. 0 |-> 1])
    BY DEF Powers
  <2> QED
    BY <2>1
<1>2. ASSUME NEW i \in 1 .. d, i - 1 \in T PROVE i \in T
  <2>1. PICK u : Powers(n, i - 1, u)
    BY <1>2
  <2>2. /\ u \in [0 .. i - 1 -> Nat] /\ u[0] = 1
        /\ \A k \in 1 .. i - 1 : u[k] = n * u[k - 1]
    BY <2>1 DEF Powers
  <2> DEFINE v == [k \in 0 .. i |-> IF k = i THEN n * u[i - 1] ELSE u[k]]
  <2>3. n * u[i - 1] \in Nat
    BY <2>2
  <2>4. v \in [0 .. i -> Nat]
    BY <2>2, <2>3
  <2>5. v[0] = 1
    BY <2>2
  <2>6. ASSUME NEW k \in 1 .. i PROVE v[k] = n * v[k - 1]
    <3>1. k \in 0 .. i /\ k - 1 \in 0 .. i /\ k - 1 # i
      OBVIOUS
    <3>2. v[k - 1] = u[k - 1] /\ v[k] = IF k = i THEN n * u[i - 1] ELSE u[k]
      BY <3>1
    <3>3. k # i => k \in 1 .. i - 1
      OBVIOUS
    <3> HIDE DEF v
    <3> QED
      BY <2>2, <3>2, <3>3
  <2> HIDE DEF v
  <2>7. Powers(n, i, v)
    BY <2>4, <2>5, <2>6 DEF Powers
  <2> QED
    BY <2>7
<1> HIDE DEF T
<1>3. d \in T
  BY <1>1, <1>2, Climb
<1> QED
  BY <1>3 DEF T

LEMMA PowersAgree ==
    ASSUME NEW n \in Nat, NEW d \in Nat, NEW u, NEW v,
           u[0] = v[0],
           \A i \in 1 .. d : u[i] = n * u[i - 1], \A i \in 1 .. d : v[i] = n * v[i - 1]
    PROVE  u[d] = v[d]
<1> DEFINE T == {i \in Nat : u[i] = v[i]}
<1>1. 0 \in T
  OBVIOUS
<1>2. \A i \in 1 .. d : i - 1 \in T => i \in T
  OBVIOUS
<1> HIDE DEF T
<1>3. d \in T
  BY <1>1, <1>2, Climb
<1> QED
  BY <1>3 DEF T

LEMMA PowIs ==
    ASSUME NEW n \in Nat, NEW d \in Nat
    PROVE  \E u : Powers(n, d, u) /\ Pow(n, d) = u[d]
<1> DEFINE F(u) == [i \in 0 .. d |-> IF i = 0 THEN 1 ELSE n * u[i - 1]]
           U == CHOOSE u : u = F(u)
<1>1. PICK u : Powers(n, d, u)
  BY PowersExist
<1>2. u = F(u)
  BY <1>1 DEF Powers
<1>3. U = F(U)
  BY <1>2
<1>4. Pow(n, d) = U[d]
  BY DEF Pow
<1> HIDE DEF U
<1>5. U[0] = 1 /\ \A i \in 1 .. d : U[i] = n * U[i - 1]
  BY <1>3
<1>6. U[d] = u[d]
  <2>1. u[0] = 1 /\ \A i \in 1 .. d : u[i] = n * u[i - 1]
    BY <1>1 DEF Powers
  <2>2. U[0] = u[0]
    BY <1>5, <2>1
  <2> QED
    BY <1>5, <2>1, <2>2, PowersAgree
<1> QED
  BY <1>1, <1>4, <1>6

\* The equations of a power.
LEMMA PowZero ==
    ASSUME NEW n \in Nat
    PROVE  Pow(n, 0) = 1
<1>1. PICK u : Powers(n, 0, u) /\ Pow(n, 0) = u[0]
  BY PowIs
<1> QED
  BY <1>1 DEF Powers

LEMMA PowNext ==
    ASSUME NEW n \in Nat, NEW d \in Nat
    PROVE  Pow(n, d + 1) = n * Pow(n, d) /\ Pow(n, d) \in Nat
<1>1. PICK u : Powers(n, d, u) /\ Pow(n, d) = u[d]
  BY PowIs
<1>2. PICK v : Powers(n, d + 1, v) /\ Pow(n, d + 1) = v[d + 1]
  BY PowIs
<1>3. u[d] = v[d]
  <2>1. u[0] = 1 /\ \A i \in 1 .. d : u[i] = n * u[i - 1]
    BY <1>1 DEF Powers
  <2>2. v[0] = 1 /\ \A i \in 1 .. d + 1 : v[i] = n * v[i - 1]
    BY <1>2 DEF Powers
  <2>3. u[0] = v[0]
    BY <2>1, <2>2
  <2>4. \A i \in 1 .. d : v[i] = n * v[i - 1]
    BY <2>2
  <2>5. \A i \in 1 .. d : u[i] = n * u[i - 1]
    BY <2>1
  <2> QED
    BY <2>3, <2>4, <2>5, PowersAgree, SMTT(30)
<1>4. v[d + 1] = n * v[d] /\ u[d] \in Nat
  BY <1>1, <1>2 DEF Powers
<1> QED
  BY <1>1, <1>2, <1>3, <1>4

LEMMA PowPositive ==
    ASSUME NEW n \in Nat \ {0}, NEW d \in Nat
    PROVE  Pow(n, d) \in Nat \ {0}
<1> DEFINE T == {i \in Nat : Pow(n, i) \in Nat \ {0}}
<1>1. 0 \in T
  BY PowZero
<1>2. ASSUME NEW i \in 1 .. d, i - 1 \in T PROVE i \in T
  <2>1. Pow(n, (i - 1) + 1) = n * Pow(n, i - 1) /\ Pow(n, i - 1) \in Nat
    BY PowNext
  <2>2. Pow(n, i) = n * Pow(n, i - 1) /\ Pow(n, i - 1) \in Nat \ {0}
    BY <1>2, <2>1
  <2> QED
    BY <2>2
<1> HIDE DEF T
<1>3. d \in T
  BY <1>1, <1>2, Climb
<1> QED
  BY <1>3 DEF T

LEMMA DivMod ==
    ASSUME NEW x \in Int, NEW n \in Nat \ {0}
    PROVE  /\ x \div n \in Int /\ x % n \in 0 .. n - 1
           /\ x = n * (x \div n) + (x % n)
OBVIOUS

\* Between two multiples there is none.
LEMMA DivUnique ==
    ASSUME NEW n \in Nat \ {0}, NEW q \in Int, NEW r \in 0 .. n - 1,
           NEW p \in Int, NEW s \in 0 .. n - 1, n * q + r = n * p + s
    PROVE  q = p /\ r = s
<1>1. n * (q - p) = s - r
  OBVIOUS
<1>2. CASE q > p
  <2>1. n * (q - p) >= n
    BY <1>2
  <2> QED
    BY <1>1, <2>1
<1>3. CASE q < p
  <2>1. n * (p - q) >= n
    BY <1>3
  <2>2. n * (p - q) = r - s
    OBVIOUS
  <2> QED
    BY <2>1, <2>2
<1> QED
  BY <1>2, <1>3

\* A quotient and a remainder are known by what they make.
LEMMA DivIs ==
    ASSUME NEW x \in Int, NEW n \in Nat \ {0}, NEW q \in Int, NEW r \in 0 .. n - 1,
           x = n * q + r
    PROVE  x \div n = q /\ x % n = r
<1>1. /\ x \div n \in Int /\ x % n \in 0 .. n - 1
      /\ x = n * (x \div n) + (x % n)
  BY DivMod
<1> DEFINE p == x \div n
           s == x % n
<1>2. p \in Int /\ s \in 0 .. n - 1 /\ n * q + r = n * p + s
  BY <1>1
<1> HIDE DEF p, s
<1>3. q = p /\ r = s
  BY <1>2, DivUnique
<1> QED
  BY <1>3 DEF p, s

-----------------------------------------------------------------------------
(* Coordinates do not saturate.                                            *)

\* Rounding to a multiple of s is off by half of s at most, and does not go
\* beyond a multiple.
LEMMA Rounded ==
    ASSUME NEW d \in Nat, NEW s \in Nat \ {0}, NEW h \in Nat, d <= h * s
    PROVE  LET n == (2 * d + s) \div (2 * s)
           IN  /\ n \in 0 .. h /\ n * s \in Nat
               /\ 2 * (n * s - d) <= s /\ 2 * (d - n * s) <= s
<1> DEFINE n == (2 * d + s) \div (2 * s)
           r == (2 * d + s) % (2 * s)
<1>1. 2 * d + s \in Nat /\ 2 * s \in Nat \ {0}
  OBVIOUS
<1>2. n \in Int /\ r \in 0 .. 2 * s - 1 /\ 2 * d + s = (2 * s) * n + r
  <2> DEFINE x == 2 * d + s
             m == 2 * s
  <2>1. x \in Int /\ m \in Nat \ {0}
    BY <1>1
  <2> HIDE DEF x, m
  <2>2. x \div m \in Int /\ x % m \in 0 .. m - 1 /\ x = m * (x \div m) + (x % m)
    BY <2>1, DivMod
  <2> QED
    BY <2>2 DEF x, m
<1> HIDE DEF n, r
<1>3. (2 * s) * n = 2 * (n * s) /\ n * s \in Int
  BY <1>2
<1>4. n >= 0
  <2> SUFFICES ASSUME n < 0 PROVE FALSE
    BY <1>2
  <2>1. n * s <= -s
    BY <1>2
  <2> QED
    BY <1>2, <1>3, <2>1
<1>5. n <= h
  <2> SUFFICES ASSUME n > h PROVE FALSE
    BY <1>2
  <2>1. n * s >= h * s + s
    BY <1>2
  <2> QED
    BY <1>2, <1>3, <2>1
<1>6. n * s \in Nat
  BY <1>2, <1>4
<1>7. 2 * (n * s - d) <= s /\ 2 * (d - n * s) <= s
  <2> DEFINE p == n * s
  <2>1. p \in Int /\ 2 * d + s = 2 * p + r
    BY <1>2, <1>3
  <2> HIDE DEF p
  <2>2. 2 * (p - d) <= s /\ 2 * (d - p) <= s
    BY <1>2, <2>1
  <2> QED
    BY <2>2 DEF p
<1>8. n \in 0 .. h
  BY <1>2, <1>4, <1>5
<1> QED
  BY <1>6, <1>7, <1>8 DEF n

\* Within the headroom a coordinate is decoded to half a step.
LEMMA DecodedClose ==
    ASSUME NEW o \in Int, NEW s \in Nat \ {0}, NEW x \in Int,
           Distance(x, o) <= Headroom * s
    PROVE  LET e == [offset |-> o, scale |-> s]
           IN  2 * Distance(Decode(e, Encode(e, x)), x) <= s
<1> DEFINE e == [offset |-> o, scale |-> s]
           d == Distance(x, o)
           n == (2 * d + s) \div (2 * s)
<1>1. d \in Nat /\ d = IF x < o THEN o - x ELSE x - o
  BY DEF Distance
<1>2. Headroom \in Nat /\ MaxCode \in Nat /\ Headroom < MaxCode
  BY InputChecksAssumption
<1> HIDE DEF d
<1>3. /\ n \in 0 .. Headroom /\ n * s \in Nat
      /\ 2 * (n * s - d) <= s /\ 2 * (d - n * s) <= s
  BY <1>1, <1>2, Rounded DEF d
<1> DEFINE code == IF x < o THEN -n ELSE n
<1>4. Encode(e, x) = IF code > MaxCode THEN MaxCode ELSE IF code < -MaxCode - 1 THEN -MaxCode - 1 ELSE code
  BY DEF Encode, d
<1> HIDE DEF n
<1>5. code \in Int /\ ~(code > MaxCode) /\ ~(code < -MaxCode - 1)
  BY <1>2, <1>3
<1>6. Encode(e, x) = code
  BY <1>4, <1>5
<1> DEFINE p == n * s
<1>7. Decode(e, code) = (IF x < o THEN -p ELSE p) + o
  <2>1. Decode(e, code) = code * s + o
    BY DEF Decode
  <2>2. (-n) * s = -p
    BY <1>3
  <2> QED
    BY <2>1, <2>2
<1>8. p \in Nat /\ 2 * (p - d) <= s /\ 2 * (d - p) <= s
  BY <1>3
<1> HIDE DEF p, code, e
<1>9. 2 * Distance((IF x < o THEN -p ELSE p) + o, x) <= s
  <2>1. CASE x < o
    <3>1. d = o - x /\ d \in Nat
      BY <1>1, <2>1
    <3>2. Distance(-p + o, x) \in {d - p, p - d}
      BY <1>8, <3>1 DEF Distance
    <3> QED
      BY <1>8, <2>1, <3>1, <3>2
  <2>2. CASE ~(x < o)
    <3>1. d = x - o /\ d \in Nat
      BY <1>1, <2>2
    <3>2. Distance(p + o, x) \in {d - p, p - d}
      BY <1>8, <3>1 DEF Distance
    <3> QED
      BY <1>8, <2>2, <3>1, <3>2
  <2> QED
    BY <2>1, <2>2
<1> QED
  BY <1>6, <1>7, <1>9 DEF e

\* Of finitely many numbers one is the least.
LEMMA LeastOfList ==
    ASSUME NEW n \in Nat \ {0}, NEW v \in [1 .. n -> Int]
    PROVE  \E i \in 1 .. n : \A j \in 1 .. n : v[i] <= v[j]
<1> DEFINE T == {m \in Nat : m < n => \E i \in 1 .. m + 1 : \A j \in 1 .. m + 1 : v[i] <= v[j]}
<1>1. 0 \in T
  <2>1. 1 \in 1 .. 0 + 1 /\ \A j \in 1 .. 0 + 1 : v[1] <= v[j]
    OBVIOUS
  <2> QED
    BY <2>1
<1>2. ASSUME NEW m \in 1 .. n - 1, m - 1 \in T PROVE m \in T
  <2>1. PICK i \in 1 .. (m - 1) + 1 : \A j \in 1 .. (m - 1) + 1 : v[i] <= v[j]
    BY <1>2
  <2>2. i \in 1 .. m /\ \A j \in 1 .. m : v[i] <= v[j]
    BY <2>1
  <2>3. v[m + 1] \in Int /\ v[i] \in Int /\ m + 1 \in 1 .. m + 1 /\ i \in 1 .. m + 1
    BY <2>2
  <2>4. \A j \in 1 .. m + 1 : j \in 1 .. m \/ j = m + 1
    OBVIOUS
  <2>5. CASE v[i] <= v[m + 1]
    BY <2>2, <2>3, <2>4, <2>5
  <2>6. CASE v[m + 1] <= v[i]
    <3>1. \A j \in 1 .. m : v[m + 1] <= v[j]
      <4> TAKE j \in 1 .. m
      <4>1. v[j] \in Int /\ v[i] <= v[j]
        BY <2>2
      <4> QED
        BY <2>3, <2>6, <4>1
    <3>2. \A j \in 1 .. m + 1 : v[m + 1] <= v[j]
      BY <2>3, <2>4, <3>1
    <3> QED
      BY <2>3, <3>2
  <2> QED
    BY <2>3, <2>5, <2>6
<1> HIDE DEF T
<1>3. n - 1 \in Nat /\ n - 1 \in 0 .. n - 1
  OBVIOUS
<1>4. n - 1 \in T
  BY <1>1, <1>2, <1>3, Climb
<1>5. (n - 1) + 1 = n
  OBVIOUS
<1> QED
  BY <1>4, <1>5 DEF T

\* The files of a run are what files are.
AreFiles(files) == IsList(files) /\ \A i \in DOMAIN files : IsFile(files[i])

\* The combined bounds hold those of each file.
LEMMA BoundsCombined ==
    ASSUME NEW files, AreFiles(files)
    PROVE  /\ CombinedLow(files) \in Int /\ CombinedHigh(files) \in Int
           /\ \A f \in ToSet(files) : CombinedLow(files) <= f.low /\ f.high <= CombinedHigh(files)
           /\ ToSet(files) = {files[i] : i \in DOMAIN files}
<1>1. Len(files) \in Nat \ {0} /\ DOMAIN files = 1 .. Len(files)
  BY DEF AreFiles, IsList
<1>2. ToSet(files) = {files[i] : i \in DOMAIN files}
  BY DEF ToSet
<1>3. \A i \in DOMAIN files : files[i].low \in Int /\ files[i].high \in Int
  BY DEF AreFiles, IsFile
<1> DEFINE low(x)  == x \in {f.low : f \in ToSet(files)} /\ \A f \in ToSet(files) : x <= f.low
           high(x) == x \in {f.high : f \in ToSet(files)} /\ \A f \in ToSet(files) : x >= f.high
<1>4. \E x : low(x)
  <2> DEFINE v == [i \in 1 .. Len(files) |-> files[i].low]
  <2>1. v \in [1 .. Len(files) -> Int]
    BY <1>1, <1>3
  <2>2. PICK i \in 1 .. Len(files) : \A j \in 1 .. Len(files) : v[i] <= v[j]
    <3> HIDE DEF v
    <3> QED
      BY <1>1, <2>1, LeastOfList
  <2>3. low(files[i].low)
    BY <1>1, <1>2, <2>2
  <2> QED
    BY <2>3
<1>5. \E x : high(x)
  <2> DEFINE v == [i \in 1 .. Len(files) |-> -files[i].high]
  <2>1. v \in [1 .. Len(files) -> Int]
    BY <1>1, <1>3
  <2>2. PICK i \in 1 .. Len(files) : \A j \in 1 .. Len(files) : v[i] <= v[j]
    <3> HIDE DEF v
    <3> QED
      BY <1>1, <2>1, LeastOfList
  <2>3. \A j \in 1 .. Len(files) : files[i].high >= files[j].high
    BY <1>1, <1>3, <2>2
  <2>4. high(files[i].high)
    BY <1>1, <1>2, <2>3
  <2> QED
    BY <2>4
<1>6. low(CombinedLow(files))
  BY <1>4 DEF CombinedLow
<1>7. high(CombinedHigh(files))
  BY <1>5 DEF CombinedHigh
<1>8. CombinedLow(files) \in Int /\ CombinedHigh(files) \in Int
  BY <1>2, <1>3, <1>6, <1>7
<1>9. \A f \in ToSet(files) : f.low \in Int /\ f.high \in Int
  BY <1>2, <1>3
<1> QED
  BY <1>2, <1>6, <1>7, <1>8, <1>9

\* A power of two is above its exponent.
LEMMA PowAbove ==
    ASSUME NEW d \in Nat
    PROVE  Pow(2, d) \in Nat \ {0} /\ d <= Pow(2, d)
<1> DEFINE T == {i \in Nat : Pow(2, i) \in Nat \ {0} /\ i <= Pow(2, i)}
<1>1. 0 \in T
  BY PowZero
<1>2. ASSUME NEW i \in 1 .. d, i - 1 \in T PROVE i \in T
  <2>1. Pow(2, (i - 1) + 1) = 2 * Pow(2, i - 1) /\ Pow(2, i - 1) \in Nat
    BY PowNext
  <2>2. (i - 1) + 1 = i /\ Pow(2, i - 1) \in Nat \ {0} /\ i - 1 <= Pow(2, i - 1)
    BY <1>2
  <2>3. Pow(2, i) = 2 * Pow(2, i - 1)
    BY <2>1, <2>2
  <2> QED
    BY <2>2, <2>3
<1> HIDE DEF T
<1>3. d \in T
  BY <1>1, <1>2, Climb
<1> QED
  BY <1>3 DEF T

\* The bounds are within the headroom around a fitted offset, at some scale.
LEMMA ScaleFits ==
    ASSUME NEW offset \in Int, NEW s \in Nat \ {0}, NEW low \in Int, NEW high \in Int
    PROVE  LET o == FitOffset(offset, s, low, high)
           IN  /\ o \in Int /\ FitScale(o, s, low, high) \in Nat \ {0}
               /\ s <= FitScale(o, s, low, high)
               /\ Fits(o, FitScale(o, s, low, high), low, high)
<1> DEFINE o == FitOffset(offset, s, low, high)
           D == Distance(low, high)
           mid == (low + high) \div 2
           F(k) == Fits(o, s * Pow(2, k), low, high)
           G(k) == F(k) /\ (k > 0 => ~F(k - 1))
           K == CHOOSE k \in 0 .. D : G(k)
<1>1. D \in Nat /\ mid \in Int /\ o \in Int
  BY DivMod DEF Distance, FitOffset
<1>2. Headroom \in Nat \ {0}
  BY InputChecksAssumption
<1>3. \E k \in 0 .. D : F(k)
  <2>1. CASE Fits(offset, s, low, high)
    <3>1. o = offset /\ s * Pow(2, 0) = s
      BY <2>1, PowZero DEF FitOffset
    <3>2. F(0) /\ 0 \in 0 .. D
      BY <1>1, <2>1, <3>1
    <3> QED
      BY <3>2
  <2>2. CASE ~Fits(offset, s, low, high)
    <3>1. o = mid
      BY <2>2 DEF FitOffset
    <3>2. Distance(low, mid) <= D /\ Distance(high, mid) <= D /\ Distance(low, mid) \in Nat /\ Distance(high, mid) \in Nat
      <4>1. low + high = 2 * mid + ((low + high) % 2) /\ (low + high) % 2 \in 0 .. 1
        BY DivMod
      <4> DEFINE r == (low + high) % 2
      <4>2. r \in 0 .. 1 /\ low + high = 2 * mid + r
        BY <4>1
      <4> HIDE DEF mid, r
      <4> QED
        BY <1>1, <4>2 DEF Distance
    <3>3. Pow(2, D) \in Nat \ {0} /\ D <= Pow(2, D)
      BY <1>1, PowAbove
    <3> DEFINE P == Pow(2, D)
    <3>4. D <= Headroom * (s * P)
      <4>1. P \in Nat /\ D <= P
        BY <3>3
      <4> HIDE DEF P, D
      <4>2. P <= s * P /\ s * P \in Nat
        BY <4>1
      <4> DEFINE q == s * P
      <4>3. q \in Nat /\ P <= q
        BY <4>2
      <4> HIDE DEF q
      <4>4. q <= Headroom * q
        BY <1>2, <4>3
      <4>5. Headroom * q \in Nat
        BY <1>2, <4>3
      <4> QED
        BY <1>1, <4>1, <4>3, <4>4, <4>5 DEF q
    <3>5. F(D)
      <4> DEFINE h == Headroom * (s * P)
      <4>1. h \in Nat
        BY <1>2, <3>3
      <4>2. D <= h
        BY <3>4
      <4> HIDE DEF h, D, mid
      <4>3. Distance(low, mid) <= h /\ Distance(high, mid) <= h
        BY <1>1, <3>2, <4>1, <4>2
      <4> QED
        BY <3>1, <4>3 DEF Fits, h, D
    <3> QED
      BY <1>1, <3>5
  <2> QED
    BY <2>1, <2>2
<1> DEFINE S == {k \in 0 .. D : F(k)}
<1>4. S \subseteq Nat /\ S # {}
  BY <1>1, <1>3
<1>5. PICK k \in S : \A j \in S : k <= j
  <2> HIDE DEF S
  <2> QED
    BY <1>4, LeastPlace
<1>6. k \in 0 .. D /\ G(k)
  <2>1. k \in 0 .. D /\ F(k)
    BY <1>5
  <2>2. ASSUME k > 0, F(k - 1) PROVE FALSE
    <3>1. k - 1 \in 0 .. D
      BY <1>1, <2>1, <2>2
    <3>2. k - 1 \in S
      BY <2>2, <3>1
    <3> QED
      BY <1>1, <1>5, <2>1, <3>2
  <2> QED
    BY <2>1, <2>2
<1>7. K \in 0 .. D /\ G(K)
  <2> HIDE DEF G
  <2> QED
    BY <1>6
<1>8. FitScale(o, s, low, high) = s * Pow(2, K)
  BY DEF FitScale
<1>9. Pow(2, K) \in Nat \ {0}
  <2>1. K \in Nat
    BY <1>1, <1>7
  <2> QED
    BY <2>1, PowAbove
<1>10. s * Pow(2, K) \in Nat \ {0} /\ s <= s * Pow(2, K)
  <2> DEFINE P == Pow(2, K)
  <2>1. P \in Nat \ {0}
    BY <1>9
  <2> HIDE DEF P
  <2>2. s * P \in Nat \ {0} /\ s <= s * P
    BY <2>1
  <2> QED
    BY <2>2 DEF P
<1>11. Fits(o, s * Pow(2, K), low, high)
  BY <1>7
<1> QED
  BY <1>1, <1>8, <1>10, <1>11 DEF o

\* Every coordinate within the bounds of a file is encoded to half a step.
LEMMA NothingSaturates ==
    ASSUME NEW files, AreFiles(files)
    PROVE  LET e == Encoding(files)
           IN  /\ e.scale >= files[1].scale
               /\ \A f \in ToSet(files) : \A x \in f.low .. f.high :
                     2 * Distance(Decode(e, Encode(e, x)), x) <= e.scale
<1> DEFINE low    == CombinedLow(files)
           high   == CombinedHigh(files)
           o == FitOffset(files[1].offset, files[1].scale, low, high)
           s == FitScale(o, files[1].scale, low, high)
<1>1. /\ low \in Int /\ high \in Int
      /\ \A f \in ToSet(files) : low <= f.low /\ f.high <= high
      /\ ToSet(files) = {files[i] : i \in DOMAIN files}
  BY BoundsCombined
<1>2. 1 \in DOMAIN files /\ \A i \in DOMAIN files : IsFile(files[i])
  BY DEF AreFiles, IsList
<1>3. files[1].offset \in Int /\ files[1].scale \in Nat \ {0}
  BY <1>2 DEF IsFile
<1>4. Encoding(files) = [offset |-> o, scale |-> s]
  BY DEF Encoding
<1> HIDE DEF low, high
<1>5. o \in Int /\ s \in Nat \ {0} /\ files[1].scale <= s /\ Fits(o, s, low, high)
  BY <1>1, <1>3, ScaleFits
<1> HIDE DEF o, s
<1>6. ASSUME NEW f \in ToSet(files), NEW x \in f.low .. f.high
      PROVE  2 * Distance(Decode([offset |-> o, scale |-> s], Encode([offset |-> o, scale |-> s], x)), x) <= s
  <2>1. f.low \in Int /\ f.high \in Int
    BY <1>1, <1>2 DEF IsFile
  <2>2. x \in Int /\ low <= x /\ x <= high
    BY <1>1, <2>1
  <2> DEFINE h == Headroom * s
  <2>3. h \in Nat
    BY <1>5, InputChecksAssumption
  <2>4. Distance(low, o) <= h /\ Distance(high, o) <= h
    BY <1>5 DEF Fits
  <2> HIDE DEF h
  <2>5. Distance(x, o) <= h
    BY <1>1, <1>5, <2>2, <2>3, <2>4 DEF Distance
  <2> QED
    BY <1>5, <2>2, <2>5, DecodedClose DEF h
<1> QED
  BY <1>3, <1>4, <1>5, <1>6

-----------------------------------------------------------------------------
(* The merged statistics are those of all points.                          *)

\* A fold's results step by step: there are such, for any steps.
Steps(n, A, z, step) ==
    \E u \in [0 .. n -> A] : u[0] = z /\ \A i \in 1 .. n : u[i] = step[i][u[i - 1]]

LEMMA FoldExists ==
    ASSUME NEW n \in Nat, NEW A, NEW z \in A, NEW step \in [1 .. n -> [A -> A]]
    PROVE  Steps(n, A, z, step)
<1> DEFINE P(m, u) == u[0] = z /\ \A i \in 1 .. m : u[i] = step[i][u[i - 1]]
           T == {m \in Nat : m <= n => \E u \in [0 .. m -> A] : P(m, u)}
<1>1. 0 \in T
  <2>1. [i \in 0 .. 0 |-> z] \in [0 .. 0 -> A] /\ P(0, [i \in 0 .. 0 |-> z])
    OBVIOUS
  <2> QED
    BY <2>1
<1>2. ASSUME NEW m \in 1 .. n, m - 1 \in T PROVE m \in T
  <2>1. PICK u \in [0 .. m - 1 -> A] : P(m - 1, u)
    BY <1>2
  <2> DEFINE v == [i \in 0 .. m |-> IF i = m THEN step[m][u[m - 1]] ELSE u[i]]
  <2>2. u[m - 1] \in A
    BY <2>1
  <2>3. step[m][u[m - 1]] \in A
    BY <2>2
  <2>4. v \in [0 .. m -> A]
    BY <2>1, <2>3
  <2>5. v[0] = z
    BY <2>1
  <2>6. ASSUME NEW i \in 1 .. m PROVE v[i] = step[i][v[i - 1]]
    <3>1. i \in 0 .. m /\ i - 1 \in 0 .. m /\ i - 1 # m
      OBVIOUS
    <3>2. v[i - 1] = u[i - 1] /\ v[i] = IF i = m THEN step[m][u[m - 1]] ELSE u[i]
      BY <3>1
    <3>3. i # m => i \in 1 .. m - 1
      OBVIOUS
    <3> HIDE DEF v
    <3> QED
      BY <2>1, <3>2, <3>3
  <2> HIDE DEF v
  <2> QED
    BY <2>4, <2>5, <2>6
<1> HIDE DEF T
<1>3. \A m \in 1 .. n : m - 1 \in T => m \in T
  BY <1>2
<1>4. \A m \in 0 .. n : m \in T
  BY <1>1, <1>3, Climb
<1>5. n \in T
  BY <1>4
<1> QED
  BY <1>5 DEF T, Steps

Values == -Infinity .. NaN
Folds   == [value : Values, folded : BOOLEAN]

LEMMA ValuesAre ==
    /\ HalfRange \in Nat \ {0} /\ Infinity \in Nat /\ NaN = Infinity + 1
    /\ Values \subseteq Int /\ Infinity \in Values /\ -Infinity \in Values
    /\ \A x \in Values : Finite(x) => x # NaN /\ x < Infinity /\ -Infinity < x
    /\ ~Finite(Infinity) /\ ~Finite(-Infinity)
BY ExtraBytesAssumption DEF Values, Infinity, NaN, Finite

\* The statistics of one field: those that count on an axis.
Flagged(stats, bit, v) ==
    {v[i] : i \in {i \in 1 .. Len(stats) : bit \in stats[i].options /\ Finite(v[i])}}

\* What the fold of a minimum has come to: S is what counted so far.
IsLeast(acc, S) ==
    /\ acc \in Folds
    /\ acc.folded <=> S # {}
    /\ S = {} => acc.value = Infinity
    /\ S # {} => acc.value \in S /\ \A x \in S : acc.value <= x

LEMMA FoldMinStep ==
    ASSUME NEW acc, NEW S, S \subseteq {x \in Values : Finite(x)}, IsLeast(acc, S),
           NEW x \in Values
    PROVE  IsLeast(FoldMin(acc, x), S \cup {y \in {x} : Finite(y)})
<1>1. acc.value \in Values /\ acc.folded \in BOOLEAN /\ acc.value # NaN
  BY ValuesAre DEF IsLeast, Folds
<1>2. CASE ~Finite(x)
  <2>1. FoldMin(acc, x) = acc
    BY <1>2 DEF FoldMin
  <2>2. {y \in {x} : Finite(y)} = {}
    BY <1>2
  <2> QED
    BY <2>1, <2>2
<1>3. CASE Finite(x)
  <2> DEFINE v == IF x < acc.value THEN x ELSE acc.value
             new == [value |-> v, folded |-> TRUE]
  <2>1. Less(x, acc.value) <=> x < acc.value
    BY <1>1, <1>3, ValuesAre DEF Less
  <2>2. FoldMin(acc, x) = new
    BY <1>3, <2>1 DEF FoldMin
  <2>3. {y \in {x} : Finite(y)} = {x}
    BY <1>3
  <2>4. v \in S \cup {x} /\ \A y \in S \cup {x} : v <= y
    <3>1. CASE S = {}
      <4>1. acc.value = Infinity /\ x < Infinity /\ x \in Int
        BY <1>3, <3>1, ValuesAre DEF IsLeast
      <4> QED
        BY <3>1, <4>1
    <3>2. CASE S # {}
      <4>1. acc.value \in S /\ \A y \in S : acc.value <= y
        BY <3>2 DEF IsLeast
      <4>2. S \subseteq Int /\ x \in Int /\ acc.value \in Int
        BY <1>1, ValuesAre
      <4> QED
        BY <4>1, <4>2
    <3> QED
      BY <3>1, <3>2
  <2>5. v \in Values
    BY <1>1
  <2> HIDE DEF v
  <2>6. new \in Folds
    BY <2>5 DEF Folds
  <2> QED
    BY <2>2, <2>3, <2>4, <2>6 DEF IsLeast
<1> QED
  BY <1>2, <1>3

\* The merge's minimum is the least of the numbers that are flagged.
LEMMA MinMerged ==
    ASSUME NEW stats, Len(stats) \in Nat, NEW a,
           \A i \in 1 .. Len(stats) : stats[i].min[a] \in Values
    PROVE  IsLeast(MergedMin(stats, a),
                   Flagged(stats, "min", [i \in 1 .. Len(stats) |-> stats[i].min[a]]))
<1> DEFINE n == Len(stats)
           z == NothingFolded(Infinity)
           F(u) == [i \in 0 .. n |->
                      IF i = 0 THEN z
                      ELSE IF "min" \in stats[i].options THEN FoldMin(u[i - 1], stats[i].min[a])
                      ELSE u[i - 1]]
           U == CHOOSE u : u = F(u)
           step == [i \in 1 .. n |-> [acc \in Folds |->
                      IF "min" \in stats[i].options THEN FoldMin(acc, stats[i].min[a]) ELSE acc]]
           S(m) == {stats[i].min[a] : i \in {i \in 1 .. m : "min" \in stats[i].options
                                                             /\ Finite(stats[i].min[a])}}
<1>0. n \in Nat
  OBVIOUS
<1>1. z \in Folds /\ z.value = Infinity /\ z.folded = FALSE
  BY ValuesAre DEF NothingFolded, Folds
<1>2. ASSUME NEW acc \in Folds, NEW x \in Values PROVE FoldMin(acc, x) \in Folds
  BY <1>2 DEF FoldMin, Folds
<1>3. step \in [1 .. n -> [Folds -> Folds]]
  BY <1>2
<1>4. \E u : u = F(u)
  <2> HIDE DEF step, z, n
  <2>0. Steps(n, Folds, z, step)
    BY <1>0, <1>1, <1>3, FoldExists
  <2>1. PICK u \in [0 .. n -> Folds] : u[0] = z /\ \A i \in 1 .. n : u[i] = step[i][u[i - 1]]
    BY <2>0 DEF Steps
  <2>2. ASSUME NEW i \in 1 .. n
        PROVE  u[i] = IF "min" \in stats[i].options THEN FoldMin(u[i - 1], stats[i].min[a])
                      ELSE u[i - 1]
    <3>0. i - 1 \in 0 .. n
      BY <1>0
    <3>1. u[i - 1] \in Folds
      BY <2>1, <3>0
    <3>2. u[i] = step[i][u[i - 1]]
      BY <2>1
    <3> QED
      BY <3>1, <3>2 DEF step
  <2>3. \A i \in 0 .. n : i # 0 => i \in 1 .. n
    OBVIOUS
  <2>4. u = F(u)
    BY <2>1, <2>2, <2>3
  <2> QED
    BY <2>4
<1>5. U = F(U)
  BY <1>4
<1>6. MergedMin(stats, a) = U[n]
  BY DEF MergedMin
<1> HIDE DEF U
<1>7. /\ U[0] = z
      /\ \A i \in 1 .. n : U[i] = IF "min" \in stats[i].options
                                  THEN FoldMin(U[i - 1], stats[i].min[a]) ELSE U[i - 1]
  <2> HIDE DEF n, z
  <2>1. 0 \in 0 .. n /\ \A i \in 1 .. n : i \in 0 .. n /\ i # 0
    BY <1>0
  <2>2. U[0] = z
    BY <1>5, <2>1
  <2>3. ASSUME NEW i \in 1 .. n
        PROVE  U[i] = IF "min" \in stats[i].options
                      THEN FoldMin(U[i - 1], stats[i].min[a]) ELSE U[i - 1]
    BY <1>5, <2>1
  <2> QED
    BY <2>2, <2>3
<1> DEFINE T == {m \in Nat : m <= n => IsLeast(U[m], S(m))}
<1>8. 0 \in T
  <2>1. S(0) = {}
    OBVIOUS
  <2> QED
    BY <1>1, <1>7, <2>1 DEF IsLeast
<1>9. ASSUME NEW m \in 1 .. n, m - 1 \in T PROVE m \in T
  <2>1. IsLeast(U[m - 1], S(m - 1))
    BY <1>9
  <2> DEFINE x == stats[m].min[a]
  <2>2. x \in Values
    OBVIOUS
  <2>3. S(m) = S(m - 1) \cup {y \in {x} : "min" \in stats[m].options /\ Finite(y)}
    <3>1. \A i : i \in 1 .. m <=> i \in 1 .. m - 1 \/ i = m
      OBVIOUS
    <3> QED
      BY <3>1
  <2>4. S(m - 1) \subseteq {y \in Values : Finite(y)}
    OBVIOUS
  <2>5. ASSUME "min" \in stats[m].options PROVE IsLeast(U[m], S(m))
    <3>1. U[m] = FoldMin(U[m - 1], x)
      BY <1>7, <2>5
    <3>2. S(m) = S(m - 1) \cup {y \in {x} : Finite(y)}
      BY <2>3, <2>5
    <3> HIDE DEF x, S
    <3> QED
      BY <2>1, <2>2, <2>4, <3>1, <3>2, FoldMinStep
  <2>6. ASSUME "min" \notin stats[m].options PROVE IsLeast(U[m], S(m))
    <3>1. U[m] = U[m - 1]
      BY <1>7, <2>6
    <3>2. S(m) = S(m - 1)
      BY <2>3, <2>6
    <3> HIDE DEF S
    <3> QED
      BY <2>1, <3>1, <3>2
  <2> HIDE DEF S
  <2>7. IsLeast(U[m], S(m))
    BY <2>5, <2>6
  <2> QED
    BY <2>7
<1> HIDE DEF T
<1>10. n \in T
  <2>1. \A m \in 1 .. n : m - 1 \in T => m \in T
    BY <1>9
  <2> HIDE DEF n
  <2>2. n \in Nat
    BY DEF n
  <2>3. \A m \in 0 .. n : m \in T
    BY <1>8, <2>1, <2>2, Climb
  <2> QED
    BY <2>2, <2>3
<1>11. IsLeast(U[n], S(n))
  BY <1>10 DEF T
<1>12. S(n) = Flagged(stats, "min", [i \in 1 .. Len(stats) |-> stats[i].min[a]])
  BY DEF Flagged
<1> QED
  BY <1>6, <1>11, <1>12

\* What the fold of a maximum has come to: S is what counted so far.
IsGreatest(acc, S) ==
    /\ acc \in Folds
    /\ acc.folded <=> S # {}
    /\ S = {} => acc.value = -Infinity
    /\ S # {} => acc.value \in S /\ \A x \in S : acc.value >= x

LEMMA FoldMaxStep ==
    ASSUME NEW acc, NEW S, S \subseteq {x \in Values : Finite(x)}, IsGreatest(acc, S),
           NEW x \in Values
    PROVE  IsGreatest(FoldMax(acc, x), S \cup {y \in {x} : Finite(y)})
<1>1. acc.value \in Values /\ acc.folded \in BOOLEAN /\ acc.value # NaN
  BY ValuesAre DEF IsGreatest, Folds
<1>2. CASE ~Finite(x)
  <2>1. FoldMax(acc, x) = acc
    BY <1>2 DEF FoldMax
  <2>2. {y \in {x} : Finite(y)} = {}
    BY <1>2
  <2> QED
    BY <2>1, <2>2
<1>3. CASE Finite(x)
  <2> DEFINE v == IF acc.value < x THEN x ELSE acc.value
             new == [value |-> v, folded |-> TRUE]
  <2>1. Less(acc.value, x) <=> acc.value < x
    BY <1>1, <1>3, ValuesAre DEF Less
  <2>2. FoldMax(acc, x) = new
    BY <1>3, <2>1 DEF FoldMax
  <2>3. {y \in {x} : Finite(y)} = {x}
    BY <1>3
  <2>4. v \in S \cup {x} /\ \A y \in S \cup {x} : v >= y
    <3>1. CASE S = {}
      <4>1. acc.value = -Infinity /\ -Infinity < x /\ x \in Int
        BY <1>3, <3>1, ValuesAre DEF IsGreatest
      <4> QED
        BY <3>1, <4>1
    <3>2. CASE S # {}
      <4>1. acc.value \in S /\ \A y \in S : acc.value >= y
        BY <3>2 DEF IsGreatest
      <4>2. S \subseteq Int /\ x \in Int /\ acc.value \in Int
        BY <1>1, ValuesAre
      <4> QED
        BY <4>1, <4>2
    <3> QED
      BY <3>1, <3>2
  <2>5. v \in Values
    BY <1>1
  <2> HIDE DEF v
  <2>6. new \in Folds
    BY <2>5 DEF Folds
  <2> QED
    BY <2>2, <2>3, <2>4, <2>6 DEF IsGreatest
<1> QED
  BY <1>2, <1>3

\* The merge's maximum is the greatest of the numbers that are flagged.
LEMMA MaxMerged ==
    ASSUME NEW stats, Len(stats) \in Nat, NEW a,
           \A i \in 1 .. Len(stats) : stats[i].max[a] \in Values
    PROVE  IsGreatest(MergedMax(stats, a),
                   Flagged(stats, "max", [i \in 1 .. Len(stats) |-> stats[i].max[a]]))
<1> DEFINE n == Len(stats)
           z == NothingFolded(-Infinity)
           F(u) == [i \in 0 .. n |->
                      IF i = 0 THEN z
                      ELSE IF "max" \in stats[i].options THEN FoldMax(u[i - 1], stats[i].max[a])
                      ELSE u[i - 1]]
           U == CHOOSE u : u = F(u)
           step == [i \in 1 .. n |-> [acc \in Folds |->
                      IF "max" \in stats[i].options THEN FoldMax(acc, stats[i].max[a]) ELSE acc]]
           S(m) == {stats[i].max[a] : i \in {i \in 1 .. m : "max" \in stats[i].options
                                                             /\ Finite(stats[i].max[a])}}
<1>0. n \in Nat
  OBVIOUS
<1>1. z \in Folds /\ z.value = -Infinity /\ z.folded = FALSE
  BY ValuesAre DEF NothingFolded, Folds
<1>2. ASSUME NEW acc \in Folds, NEW x \in Values PROVE FoldMax(acc, x) \in Folds
  BY <1>2 DEF FoldMax, Folds
<1>3. step \in [1 .. n -> [Folds -> Folds]]
  BY <1>2
<1>4. \E u : u = F(u)
  <2> HIDE DEF step, z, n
  <2>0. Steps(n, Folds, z, step)
    BY <1>0, <1>1, <1>3, FoldExists
  <2>1. PICK u \in [0 .. n -> Folds] : u[0] = z /\ \A i \in 1 .. n : u[i] = step[i][u[i - 1]]
    BY <2>0 DEF Steps
  <2>2. ASSUME NEW i \in 1 .. n
        PROVE  u[i] = IF "max" \in stats[i].options THEN FoldMax(u[i - 1], stats[i].max[a])
                      ELSE u[i - 1]
    <3>0. i - 1 \in 0 .. n
      BY <1>0
    <3>1. u[i - 1] \in Folds
      BY <2>1, <3>0
    <3>2. u[i] = step[i][u[i - 1]]
      BY <2>1
    <3> QED
      BY <3>1, <3>2 DEF step
  <2>3. \A i \in 0 .. n : i # 0 => i \in 1 .. n
    OBVIOUS
  <2>4. u = F(u)
    BY <2>1, <2>2, <2>3
  <2> QED
    BY <2>4
<1>5. U = F(U)
  BY <1>4
<1>6. MergedMax(stats, a) = U[n]
  BY DEF MergedMax
<1> HIDE DEF U
<1>7. /\ U[0] = z
      /\ \A i \in 1 .. n : U[i] = IF "max" \in stats[i].options
                                  THEN FoldMax(U[i - 1], stats[i].max[a]) ELSE U[i - 1]
  <2> HIDE DEF n, z
  <2>1. 0 \in 0 .. n /\ \A i \in 1 .. n : i \in 0 .. n /\ i # 0
    BY <1>0
  <2>2. U[0] = z
    BY <1>5, <2>1
  <2>3. ASSUME NEW i \in 1 .. n
        PROVE  U[i] = IF "max" \in stats[i].options
                      THEN FoldMax(U[i - 1], stats[i].max[a]) ELSE U[i - 1]
    BY <1>5, <2>1
  <2> QED
    BY <2>2, <2>3
<1> DEFINE T == {m \in Nat : m <= n => IsGreatest(U[m], S(m))}
<1>8. 0 \in T
  <2>1. S(0) = {}
    OBVIOUS
  <2> QED
    BY <1>1, <1>7, <2>1 DEF IsGreatest
<1>9. ASSUME NEW m \in 1 .. n, m - 1 \in T PROVE m \in T
  <2>1. IsGreatest(U[m - 1], S(m - 1))
    BY <1>9
  <2> DEFINE x == stats[m].max[a]
  <2>2. x \in Values
    OBVIOUS
  <2>3. S(m) = S(m - 1) \cup {y \in {x} : "max" \in stats[m].options /\ Finite(y)}
    <3>1. \A i : i \in 1 .. m <=> i \in 1 .. m - 1 \/ i = m
      OBVIOUS
    <3> QED
      BY <3>1
  <2>4. S(m - 1) \subseteq {y \in Values : Finite(y)}
    OBVIOUS
  <2>5. ASSUME "max" \in stats[m].options PROVE IsGreatest(U[m], S(m))
    <3>1. U[m] = FoldMax(U[m - 1], x)
      BY <1>7, <2>5
    <3>2. S(m) = S(m - 1) \cup {y \in {x} : Finite(y)}
      BY <2>3, <2>5
    <3> HIDE DEF x, S
    <3> QED
      BY <2>1, <2>2, <2>4, <3>1, <3>2, FoldMaxStep
  <2>6. ASSUME "max" \notin stats[m].options PROVE IsGreatest(U[m], S(m))
    <3>1. U[m] = U[m - 1]
      BY <1>7, <2>6
    <3>2. S(m) = S(m - 1)
      BY <2>3, <2>6
    <3> HIDE DEF S
    <3> QED
      BY <2>1, <3>1, <3>2
  <2> HIDE DEF S
  <2>7. IsGreatest(U[m], S(m))
    BY <2>5, <2>6
  <2> QED
    BY <2>7
<1> HIDE DEF T
<1>10. n \in T
  <2>1. \A m \in 1 .. n : m - 1 \in T => m \in T
    BY <1>9
  <2> HIDE DEF n
  <2>2. n \in Nat
    BY DEF n
  <2>3. \A m \in 0 .. n : m \in T
    BY <1>8, <2>1, <2>2, Climb
  <2> QED
    BY <2>2, <2>3
<1>11. IsGreatest(U[n], S(n))
  BY <1>10 DEF T
<1>12. S(n) = Flagged(stats, "max", [i \in 1 .. Len(stats) |-> stats[i].max[a]])
  BY DEF Flagged
<1> QED
  BY <1>6, <1>11, <1>12

-----------------------------------------------------------------------------
(* A whole number as a double: the nearest one, and no order is turned.    *)

\* The whole numbers that a slot's can come to.
Reach == -2 * HalfRange .. 2 * HalfRange

LEMMA GreatestIs ==
    ASSUME NEW S \in SUBSET Reach, S # {}
    PROVE  \E n \in S : \A x \in S : x <= n
<1> DEFINE H == 2 * HalfRange
           T == {H - x : x \in S}
<1>1. H \in Nat /\ HalfRange \in Nat
  BY ExtraBytesAssumption
<1>2. \A x \in S : x \in Int /\ -H <= x /\ x <= H
  BY <1>1 DEF Reach
<1> HIDE DEF H
<1>3. T \in SUBSET Nat /\ T # {}
  BY <1>1, <1>2
<1>4. PICK t \in T : \A u \in T : t <= u
  BY <1>3, LeastPlace
<1>5. PICK n \in S : t = H - n
  BY <1>4
<1>6. ASSUME NEW x \in S PROVE x <= n
  <2>1. H - n <= H - x
    BY <1>4, <1>5
  <2> QED
    BY <1>1, <1>2, <2>1
<1> QED
  BY <1>6

LEMMA LeastIs ==
    ASSUME NEW S \in SUBSET Reach, S # {}
    PROVE  \E n \in S : \A x \in S : n <= x
<1> DEFINE T == {-x : x \in S}
<1>0. \A x \in S : x \in Int
  BY DEF Reach
<1>1. T \in SUBSET Reach /\ T # {}
  <2>1. \A x \in Reach : -x \in Reach
    BY ExtraBytesAssumption DEF Reach
  <2> QED
    BY <2>1
<1>2. PICK t \in T : \A u \in T : u <= t
  BY <1>1, GreatestIs
<1>3. PICK n \in S : t = -n
  BY <1>2
<1>4. ASSUME NEW x \in S PROVE n <= x
  <2>1. -x <= -n
    BY <1>2, <1>3
  <2> QED
    BY <1>0, <2>1
<1> QED
  BY <1>4

LEMMA NearestDouble ==
    ASSUME NEW n \in Reach
    PROVE  /\ AsDouble(n) \in WholeDoubles /\ AsDouble(n) \in Reach
           /\ \A d \in WholeDoubles : Distance(AsDouble(n), n) <= Distance(d, n)
<1> DEFINE low(d)  == d <= n /\ \A e \in WholeDoubles : e <= n => e <= d
           high(d) == n <= d /\ \A e \in WholeDoubles : n <= e => d <= e
           below == CHOOSE d \in WholeDoubles : low(d)
           above == CHOOSE d \in WholeDoubles : high(d)
<1>1. /\ WholeDoubles \subseteq Reach /\ HalfRange \in Nat
      /\ -2 * HalfRange \in WholeDoubles /\ 2 * HalfRange \in WholeDoubles
  BY ExtraBytesAssumption DEF Reach
<1>2. \E d \in WholeDoubles : low(d)
  <2> DEFINE S == {e \in WholeDoubles : e <= n}
  <2>0. -2 * HalfRange <= n
    BY <1>1 DEF Reach
  <2>1. S \in SUBSET Reach /\ S # {}
    BY <1>1, <2>0
  <2>2. PICK d \in S : \A e \in S : e <= d
    <3> HIDE DEF S
    <3> QED
      BY <2>1, GreatestIs
  <2> QED
    BY <2>2
<1>3. \E d \in WholeDoubles : high(d)
  <2> DEFINE S == {e \in WholeDoubles : n <= e}
  <2>0. n <= 2 * HalfRange
    BY <1>1 DEF Reach
  <2>1. S \in SUBSET Reach /\ S # {}
    BY <1>1, <2>0
  <2>2. PICK d \in S : \A e \in S : d <= e
    <3> HIDE DEF S
    <3> QED
      BY <2>1, LeastIs
  <2> QED
    BY <2>2
<1>4. below \in WholeDoubles /\ low(below)
  <2> HIDE DEF low
  <2> QED
    BY <1>2
<1>5. above \in WholeDoubles /\ high(above)
  <2> HIDE DEF high
  <2> QED
    BY <1>3
<1>a. AsDouble(n) = IF n - below < above - n THEN below
                    ELSE IF n - below > above - n THEN above
                    ELSE IF below = above \/ below % (2 * (above - below)) = 0 THEN below
                    ELSE above
  BY DEF AsDouble
<1> HIDE DEF below, above
<1>7. n \in Int /\ below \in Int /\ above \in Int /\ below <= n /\ n <= above
  BY <1>1, <1>4, <1>5 DEF Reach
<1>6. /\ n - below < above - n => AsDouble(n) = below
      /\ n - below > above - n => AsDouble(n) = above
      /\ AsDouble(n) \in {below, above}
  <2> DEFINE even == below = above \/ below % (2 * (above - below)) = 0
  <2>1. AsDouble(n) = IF n - below < above - n THEN below
                      ELSE IF n - below > above - n THEN above
                      ELSE IF even THEN below ELSE above
    BY <1>a
  <2> HIDE DEF even
  <2> QED
    BY <1>7, <2>1
<1>8. ASSUME NEW d \in WholeDoubles
      PROVE  Distance(AsDouble(n), n) <= Distance(d, n)
  <2>1. d \in Int /\ (d <= below \/ above <= d)
    <3>1. d \in Int
      BY <1>1 DEF Reach
    <3>2. d <= n \/ n <= d
      BY <1>7, <3>1
    <3> QED
      BY <1>4, <1>5, <3>1, <3>2
  <2>2. Distance(below, n) = n - below /\ Distance(above, n) = above - n
    BY <1>7 DEF Distance
  <2>3. Distance(d, n) >= n - below \/ Distance(d, n) >= above - n
    BY <1>7, <2>1 DEF Distance
  <2>4. Distance(d, n) \in Int
    BY <1>7, <2>1 DEF Distance
  <2>5. /\ Distance(AsDouble(n), n) <= n - below
        /\ Distance(AsDouble(n), n) <= above - n
        /\ Distance(AsDouble(n), n) \in Int
    BY <1>6, <1>7, <2>2
  <2> QED
    BY <1>7, <2>3, <2>4, <2>5
<1> QED
  BY <1>1, <1>4, <1>5, <1>6, <1>8

LEMMA DoublesInOrder ==
    ASSUME NEW n \in Reach, NEW m \in Reach, n <= m
    PROVE  AsDouble(n) <= AsDouble(m)
<1> DEFINE x == AsDouble(n)
           y == AsDouble(m)
<1>1. x \in Int /\ y \in Int /\ n \in Int /\ m \in Int
  BY NearestDouble DEF Reach
<1>2. Distance(x, n) <= Distance(y, n) /\ Distance(y, m) <= Distance(x, m)
  BY NearestDouble
<1>3. n = m => x = y
  OBVIOUS
<1> HIDE DEF x, y
<1>4. x <= y
  BY <1>1, <1>2, <1>3 DEF Distance
<1> QED
  BY <1>4 DEF x, y

\* What is folded for a slot that holds the number n.
Image(type, n) == IF type = "float" THEN n ELSE AsDouble(n)
Images(type, S) == {Image(type, n) : n \in S}

NumberTypes == {"unsigned", "signed", "float"}

\* The numbers of a type's slots.
LeastOf(type)    == IF type = "signed" THEN -HalfRange ELSE 0
GreatestOf(type) == IF type = "signed" THEN HalfRange - 1 ELSE 2 * HalfRange - 1

LEMMA NumberIs ==
    ASSUME NEW type \in NumberTypes, NEW raw \in Patterns
    PROVE  /\ Number(type, raw) \in Values
           /\ type # "float" => Number(type, raw) \in LeastOf(type) .. GreatestOf(type)
           /\ AnytypeToF64(type, raw) = Image(type, Number(type, raw))
           /\ AnytypeToF64(type, raw) \in Values
           /\ Finite(AnytypeToF64(type, raw)) <=> Finite(Number(type, raw))
<1>1. /\ HalfRange \in Nat \ {0} /\ FloatOf \in [Patterns -> Values]
      /\ Patterns = 0 .. 2 * HalfRange - 1 /\ Patterns \subseteq Reach
      /\ Reach \subseteq Values /\ \A x \in Reach : Finite(x)
  BY ExtraBytesAssumption DEF Values, Patterns, Infinity, NaN, Reach, Finite
<1> DEFINE m == 2 * HalfRange
<1>2. m \in Nat \ {0} /\ m = HalfRange + HalfRange
  BY <1>1
<1>3. raw \in Int /\ 0 <= raw /\ raw < m
  BY <1>1
<1>4. CASE type = "float"
  BY <1>1, <1>4 DEF Number, AnytypeToF64, Image
<1>5. CASE type = "unsigned"
  <2>1. \A n \in Patterns : n % (2 * HalfRange) = n
    <3> TAKE n \in Patterns
    <3>1. n \in Int /\ n \in 0 .. m - 1 /\ n = m * 0 + n
      BY <1>1, <1>2
    <3> HIDE DEF m
    <3>2. n % m = n
      BY <1>2, <3>1, DivIs
    <3> QED
      BY <3>2 DEF m
  <2>2. Number(type, raw) = CHOOSE n \in Patterns : n % (2 * HalfRange) = raw
    BY <1>5 DEF Number
  <2>3. Number(type, raw) = raw
    BY <2>1, <2>2
  <2>4. AnytypeToF64(type, raw) = AsDouble(raw) /\ raw \in Reach
    BY <1>1, <1>5 DEF AnytypeToF64
  <2>5. AsDouble(raw) \in Reach
    BY <2>4, NearestDouble
  <2> QED
    BY <1>1, <1>5, <2>3, <2>4, <2>5 DEF Image, LeastOf, GreatestOf
<1>6. CASE type = "signed"
  <2> DEFINE S == -HalfRange .. HalfRange - 1
             v == IF raw < HalfRange THEN raw ELSE raw - m
  <2>1. v \in S
    BY <1>1, <1>2, <1>3
  <2>2. \A n \in S : n % m = IF n < 0 THEN n + m ELSE n
    <3> TAKE n \in S
    <3> DEFINE q == IF n < 0 THEN -1 ELSE 0
               r == IF n < 0 THEN n + m ELSE n
    <3>1. n \in Int /\ q \in Int /\ r \in 0 .. m - 1
      BY <1>1, <1>2
    <3>2. n = m * q + r
      BY <1>2, <3>1
    <3> HIDE DEF m, q, r
    <3>3. n % m = r
      BY <1>2, <3>1, <3>2, DivIs
    <3> QED
      BY <3>3 DEF r
  <2>3. \A n \in S : n % m = raw <=> n = v
    <3> TAKE n \in S
    <3>1. n % m = IF n < 0 THEN n + m ELSE n
      BY <2>2
    <3>2. n \in Int /\ -HalfRange <= n /\ n < HalfRange
      BY <1>1
    <3> HIDE DEF m
    <3> QED
      BY <1>1, <1>2, <1>3, <3>1, <3>2
  <2>4. Number(type, raw) = CHOOSE n \in S : n % m = raw
    BY <1>6 DEF Number
  <2>5. Number(type, raw) = v
    <3> HIDE DEF S, v
    <3> QED
      BY <2>1, <2>3, <2>4
  <2>6. AnytypeToF64(type, raw) = AsDouble(v)
    BY <1>6 DEF AnytypeToF64
  <2>7. v \in Reach
    BY <1>1, <2>1 DEF Reach
  <2> HIDE DEF v
  <2>8. AsDouble(v) \in Reach
    BY <2>7, NearestDouble
  <2> QED
    BY <1>1, <1>6, <2>1, <2>5, <2>6, <2>7, <2>8 DEF Image, LeastOf, GreatestOf
<1> QED
  BY <1>4, <1>5, <1>6 DEF NumberTypes

\* The slot of a double holds the number of its type nearest to the double.
LEMMA SlotOfDouble ==
    ASSUME NEW type \in {"unsigned", "signed"}, NEW x \in Reach
    PROVE  Number(type, F64ToAnytype(type, x)) =
              IF x < LeastOf(type) THEN LeastOf(type)
              ELSE IF x > GreatestOf(type) THEN GreatestOf(type) ELSE x
<1> DEFINE m == 2 * HalfRange
           lo == LeastOf(type)
           hi == GreatestOf(type)
           c == IF x < lo THEN lo ELSE IF x > hi THEN hi ELSE x
           raw == F64ToAnytype(type, x)
           T == IF type = "signed" THEN -HalfRange .. HalfRange - 1 ELSE Patterns
<1>1. /\ HalfRange \in Nat \ {0} /\ Patterns = 0 .. m - 1
      /\ m = HalfRange + HalfRange /\ m \in Nat \ {0} /\ NaN = m + 2
  BY ExtraBytesAssumption DEF Patterns, NaN
<1>2. x \in Int /\ -m <= x /\ x <= m
  BY <1>1 DEF Reach
<1> HIDE DEF m
<1>3. x # NaN
  BY <1>1, <1>2
<1>4. T = lo .. hi /\ lo \in Int /\ hi \in Int /\ lo <= 0 /\ 0 <= hi /\ hi - lo = m - 1
  BY <1>1 DEF LeastOf, GreatestOf, m
<1>5. c \in T
  BY <1>2, <1>4
<1>6. ASSUME NEW n \in T PROVE n % m = IF n < 0 THEN n + m ELSE n
  <2> DEFINE q == IF n < 0 THEN -1 ELSE 0
             r == IF n < 0 THEN n + m ELSE n
  <2>1. n \in Int /\ q \in Int /\ r \in 0 .. m - 1
    <3>1. n \in Int /\ lo <= n /\ n <= hi
      <4> HIDE DEF T, lo, hi
      <4> QED
        BY <1>4
    <3> HIDE DEF T, lo, hi
    <3> QED
      BY <1>1, <1>4, <3>1
  <2>2. n = m * q + r
    BY <1>1, <2>1
  <2> HIDE DEF q, r
  <2>3. n % m = r
    BY <1>1, <2>1, <2>2, DivIs
  <2> QED
    BY <2>3 DEF r
<1>7. raw = c % m
  <2>1. c % m = IF c < 0 THEN c + m ELSE c
    BY <1>5, <1>6
  <2>2. CASE type = "unsigned"
    <3>1. lo = 0 /\ hi = m - 1
      BY <2>2 DEF LeastOf, GreatestOf, m
    <3>2. raw = IF x < 0 THEN 0 ELSE IF x \in Patterns THEN x ELSE m - 1
      BY <1>3, <2>2 DEF F64ToAnytype, m
    <3> HIDE DEF raw, lo, hi
    <3> QED
      BY <1>1, <1>2, <2>1, <3>1, <3>2
  <2>3. CASE type = "signed"
    <3>1. lo = -HalfRange /\ hi = HalfRange - 1
      BY <2>3 DEF LeastOf, GreatestOf
    <3>2. raw = IF x >= HalfRange THEN HalfRange - 1
                ELSE IF x < -HalfRange THEN HalfRange ELSE x % m
      BY <1>3, <2>3 DEF F64ToAnytype, m
    <3> HIDE DEF raw, lo, hi
    <3> QED
      BY <1>1, <1>2, <2>1, <3>1, <3>2
  <2> QED
    BY <2>2, <2>3
<1>8. Number(type, raw) = CHOOSE n \in T : n % m = raw
  BY DEF Number, m
<1>9. ASSUME NEW n \in T, n % m = raw PROVE n = c
  <2>1. n % m = (IF n < 0 THEN n + m ELSE n) /\ c % m = (IF c < 0 THEN c + m ELSE c)
    BY <1>5, <1>6
  <2>2. n \in lo .. hi /\ c \in lo .. hi
    BY <1>4, <1>5
  <2> HIDE DEF c, raw, lo, hi, T
  <2> QED
    BY <1>1, <1>4, <1>7, <1>9, <2>1, <2>2
<1>10. Number(type, raw) = c
  <2> HIDE DEF c, raw, T
  <2> QED
    BY <1>5, <1>7, <1>8, <1>9
<1> QED
  BY <1>10

\* What is written back for a slot is its number, as near as a double can be.
LEMMA NumberKept ==
    ASSUME NEW type \in NumberTypes, NEW raw \in Patterns,
           NEW n, n = Number(type, raw), Finite(n)
    PROVE  AsNear(type, Number(type, F64ToAnytype(type, Image(type, n))), n)
<1>1. CASE type = "float"
  <2>1. n = FloatOf[raw] /\ Image(type, n) = n
    BY <1>1 DEF Number, Image
  <2>2. F64ToAnytype(type, n) = CHOOSE r \in Patterns : FloatOf[r] = n
    BY <1>1, <2>1 DEF F64ToAnytype
  <2>3. Number(type, F64ToAnytype(type, n)) = n
    BY <1>1, <2>1, <2>2 DEF Number
  <2> QED
    BY <1>1, <2>1, <2>3 DEF AsNear
<1>2. CASE type # "float"
  <2> DEFINE x == AsDouble(n)
             lo == LeastOf(type)
             hi == GreatestOf(type)
             c == IF x < lo THEN lo ELSE IF x > hi THEN hi ELSE x
  <2>0. type \in {"unsigned", "signed"}
    BY <1>2 DEF NumberTypes
  <2>1. n \in lo .. hi
    BY <1>2, NumberIs
  <2>2. lo \in Int /\ hi \in Int /\ lo .. hi \subseteq Reach /\ Reach \subseteq Int
    BY ExtraBytesAssumption DEF LeastOf, GreatestOf, Reach
  <2>3. /\ x \in Reach
        /\ \A d \in WholeDoubles : Distance(x, n) <= Distance(d, n)
    BY <2>1, <2>2, NearestDouble
  <2>4. Number(type, F64ToAnytype(type, x)) = c
    <3> HIDE DEF x
    <3> QED
      BY <2>0, <2>3, SlotOfDouble
  <2>5. Image(type, n) = x
    BY <1>2 DEF Image
  <2> HIDE DEF x, lo, hi
  <2>6. x \in Int /\ n \in Int /\ lo <= n /\ n <= hi
    BY <2>1, <2>2, <2>3
  <2>7. Distance(c, n) <= Distance(x, n) /\ Distance(c, n) \in Int /\ Distance(x, n) \in Int
    BY <2>2, <2>6 DEF Distance
  <2> HIDE DEF c
  <2>8. ASSUME NEW d \in WholeDoubles PROVE Distance(c, n) <= Distance(d, n)
    <3>1. Distance(d, n) \in Int
      BY <2>6, ExtraBytesAssumption DEF Distance
    <3> QED
      BY <2>3, <2>7, <3>1
  <2> QED
    BY <1>2, <2>4, <2>5, <2>8 DEF AsNear
<1> QED
  BY <1>1, <1>2

-----------------------------------------------------------------------------
(* The payloads that are merged.                                           *)

Payload == [whole : BOOLEAN, fields : Seq(Descriptors)]

\* Lists of one element or none, one behind the other.
Joins(list, lists, n, T) ==
    /\ list \in Seq(T)
    /\ \A x \in T : (\E j \in 1 .. Len(list) : list[j] = x) <=> \E i \in 1 .. n : lists[i] = <<x>>

LEMMA SinglesJoined ==
    ASSUME NEW T, NEW n \in Nat, NEW lists, Len(lists) = n,
           \A i \in 1 .. n : lists[i] = <<>> \/ \E x \in T : lists[i] = <<x>>
    PROVE  Joins(Concat(lists), lists, n, T)
<1> DEFINE F(u) == [i \in 0 .. n |-> IF i = 0 THEN <<>> ELSE u[i - 1] \o lists[i]]
           U == CHOOSE u : u = F(u)
           A == Seq(T)
           step == [i \in 1 .. n |-> [acc \in A |-> acc \o lists[i]]]
           none == <<>>
<1>1. none \in A
  OBVIOUS
<1>2. ASSUME NEW i \in 1 .. n PROVE lists[i] \in A
  <2>1. CASE lists[i] = <<>>
    BY <2>1
  <2>2. ASSUME NEW x \in T, lists[i] = <<x>> PROVE lists[i] \in A
    <3>1. <<x>> \in Seq(T)
      OBVIOUS
    <3> QED
      BY <2>2, <3>1
  <2> QED
    BY <2>1, <2>2
<1>3. ASSUME NEW s \in A, NEW t \in A PROVE s \o t \in A
  BY <1>3
<1>4. step \in [1 .. n -> [A -> A]]
  <2> HIDE DEF A
  <2> QED
    BY <1>2, <1>3
<1>5. \E u : u = F(u)
  <2> HIDE DEF step, A, none
  <2>1. Steps(n, A, none, step)
    BY <1>1, <1>4, FoldExists
  <2>2. PICK u \in [0 .. n -> A] : u[0] = none /\ \A i \in 1 .. n : u[i] = step[i][u[i - 1]]
    BY <2>1 DEF Steps
  <2>3. ASSUME NEW i \in 1 .. n PROVE u[i] = u[i - 1] \o lists[i]
    <3>1. i - 1 \in 0 .. n
      OBVIOUS
    <3>2. u[i - 1] \in A
      BY <2>2, <3>1
    <3>3. u[i] = step[i][u[i - 1]]
      BY <2>2
    <3> QED
      BY <3>2, <3>3 DEF step
  <2>4. \A i \in 0 .. n : i # 0 => i \in 1 .. n
    OBVIOUS
  <2>5. u = F(u)
    BY <2>2, <2>3, <2>4 DEF none
  <2> QED
    BY <2>5
<1>6. U = F(U)
  BY <1>5
<1>7. Concat(lists) = U[n]
  BY DEF Concat
<1> HIDE DEF U
<1>8. U[0] = <<>> /\ \A i \in 1 .. n : U[i] = U[i - 1] \o lists[i]
  <2>1. 0 \in 0 .. n /\ \A i \in 1 .. n : i \in 0 .. n /\ i # 0
    OBVIOUS
  <2> QED
    BY <1>6, <2>1
<1> DEFINE G(s, m) == /\ s \in Seq(T)
                      /\ \A x \in T : (\E j \in 1 .. Len(s) : s[j] = x)
                                        <=> \E i \in 1 .. m : lists[i] = <<x>>
           H == {m \in Nat : m <= n => G(U[m], m)}
<1>9. 0 \in H
  <2>1. U[0] = <<>> /\ Len(<<>>) = 0
    BY <1>8
  <2>2. G(U[0], 0)
    BY <2>1
  <2> QED
    BY <2>2
<1>10. ASSUME NEW m \in 1 .. n, m - 1 \in H PROVE m \in H
  <2> DEFINE s == U[m - 1]
             t == lists[m]
  <2>1. G(s, m - 1)
    <3> HIDE DEF G
    <3>1. m - 1 <= n => G(U[m - 1], m - 1)
      BY <1>10
    <3> QED
      BY <3>1
  <2>2. U[m] = s \o t
    BY <1>8
  <2>3. \A i : i \in 1 .. m <=> i \in 1 .. m - 1 \/ i = m
    OBVIOUS
  <2>4. t = <<>> \/ \E x \in T : t = <<x>>
    OBVIOUS
  <2>5. s \in Seq(T) /\ Len(s) \in Nat
    BY <2>1
  <2> HIDE DEF s
  <2>6. ASSUME t = <<>> PROVE G(U[m], m)
    <3>1. U[m] = s
      BY <2>2, <2>5, <2>6
    <3>2. \A x : lists[m] # <<x>>
      BY <2>6
    <3> QED
      BY <2>1, <2>3, <3>1, <3>2
  <2>7. ASSUME NEW y \in T, t = <<y>> PROVE G(U[m], m)
    <3>1. U[m] = Append(s, y)
      BY <2>2, <2>5, <2>7
    <3> DEFINE a == Append(s, y)
    <3>2. /\ a \in Seq(T) /\ Len(a) = Len(s) + 1
          /\ \A j \in 1 .. Len(s) : a[j] = s[j]
          /\ a[Len(s) + 1] = y
      BY <2>5
    <3>3. \A j : j \in 1 .. Len(a) <=> j \in 1 .. Len(s) \/ j = Len(s) + 1
      BY <2>5, <3>2
    <3> HIDE DEF a
    <3>4. ASSUME NEW x \in T
          PROVE  (\E j \in 1 .. Len(a) : a[j] = x) <=> \E i \in 1 .. m : lists[i] = <<x>>
      <4>1. (\E j \in 1 .. Len(a) : a[j] = x) <=> (\E j \in 1 .. Len(s) : s[j] = x) \/ x = y
        BY <3>2, <3>3
      <4>2. (\E j \in 1 .. Len(s) : s[j] = x) <=> \E i \in 1 .. m - 1 : lists[i] = <<x>>
        BY <2>1
      <4>3. lists[m] = <<x>> <=> x = y
        BY <2>7
      <4>4. (\E i \in 1 .. m : lists[i] = <<x>>) <=>
              (\E i \in 1 .. m - 1 : lists[i] = <<x>>) \/ lists[m] = <<x>>
        BY <2>3
      <4> QED
        BY <4>1, <4>2, <4>3, <4>4
    <3>5. U[m] = a
      BY <3>1 DEF a
    <3> QED
      BY <3>2, <3>4, <3>5
  <2> HIDE DEF G
  <2>8. G(U[m], m)
    BY <2>4, <2>6, <2>7
  <2> QED
    BY <2>8
<1> HIDE DEF H
<1>11. \A m \in 1 .. n : m - 1 \in H => m \in H
  BY <1>10
<1>12. n \in H
  <2>1. \A m \in 0 .. n : m \in H
    BY <1>9, <1>11, Climb
  <2> QED
    BY <2>1
<1>13. G(U[n], n)
  <2> HIDE DEF G
  <2> QED
    BY <1>12 DEF H
<1>14. G(Concat(lists), n)
  <2> HIDE DEF G
  <2> QED
    BY <1>7, <1>13
<1> QED
  BY <1>14 DEF Joins

LEMMA PayloadsAre ==
    ASSUME NEW files, AreFiles(files)
    PROVE  LET payloads == Concat([i \in DOMAIN files |->
                  IF files[i].extras = NoExtras THEN <<>> ELSE <<files[i].extras>>])
           IN  /\ payloads \in Seq(Payload)
               /\ {payloads[n] : n \in 1 .. Len(payloads)}
                    = {f.extras : f \in {f \in ToSet(files) : f.extras # NoExtras}}
<1> DEFINE n == Len(files)
           lists == [i \in DOMAIN files |->
                       IF files[i].extras = NoExtras THEN <<>> ELSE <<files[i].extras>>]
           payloads == Concat(lists)
<1>1. n \in Nat \ {0} /\ DOMAIN files = 1 .. n
  BY DEF AreFiles, IsList
<1>2. ToSet(files) = {files[i] : i \in 1 .. n}
  BY <1>1 DEF ToSet
<1>3. \A i \in 1 .. n : files[i].extras # NoExtras => files[i].extras \in Payload
  BY <1>1 DEF AreFiles, IsFile, Payload
<1> HIDE DEF n
<1>4. lists = [i \in 1 .. n |-> IF files[i].extras = NoExtras THEN <<>> ELSE <<files[i].extras>>]
  BY <1>1
<1>5. \A i \in 1 .. n : /\ files[i].extras = NoExtras => lists[i] = <<>>
                        /\ files[i].extras # NoExtras => lists[i] = <<files[i].extras>>
  BY <1>4
<1>6. DOMAIN lists = 1 .. n
  BY <1>4
<1> HIDE DEF lists
<1>7. Len(lists) = n
  <2> DEFINE S == {lists[i] : i \in 1 .. n}
  <2>1. lists \in [1 .. n -> S] /\ n \in Nat
    BY <1>1, <1>4, <1>6
  <2> HIDE DEF S
  <2>2. lists \in Seq(S)
    BY <2>1, FunctionIsList
  <2>3. Len(lists) \in Nat /\ 1 .. n = 1 .. Len(lists)
    BY <1>6, <2>2, LenProperties
  <2> QED
    BY <1>1, <2>3, SameLength
<1>8. \A i \in 1 .. n : lists[i] = <<>> \/ \E x \in Payload : lists[i] = <<x>>
  BY <1>3, <1>5
<1>9. /\ payloads \in Seq(Payload)
      /\ \A x \in Payload : (\E j \in 1 .. Len(payloads) : payloads[j] = x)
                              <=> \E i \in 1 .. n : lists[i] = <<x>>
  <2>1. n \in Nat
    BY <1>1
  <2>2. Joins(Concat(lists), lists, n, Payload)
    BY <1>7, <1>8, <2>1, SinglesJoined
  <2> QED
    BY <2>2 DEF Joins
<1> HIDE DEF payloads
<1>10. \A j \in 1 .. Len(payloads) : payloads[j] \in Payload
  BY <1>9, ElementOfSeq
<1>11. ASSUME NEW x, NEW i \in 1 .. n
       PROVE  lists[i] = <<x>> <=> files[i].extras # NoExtras /\ files[i].extras = x
  <2>1. CASE files[i].extras = NoExtras
    <3>1. lists[i] = <<>>
      BY <1>5, <2>1
    <3> QED
      BY <2>1, <3>1
  <2>2. CASE files[i].extras # NoExtras
    <3>1. lists[i] = <<files[i].extras>>
      BY <1>5, <2>2
    <3> QED
      BY <2>2, <3>1
  <2> QED
    BY <2>1, <2>2
<1> DEFINE found == {payloads[j] : j \in 1 .. Len(payloads)}
           given_ == {f.extras : f \in {f \in ToSet(files) : f.extras # NoExtras}}
<1>12. ASSUME NEW x \in found PROVE x \in given_
  <2>1. x \in Payload /\ \E j \in 1 .. Len(payloads) : payloads[j] = x
    BY <1>10
  <2>2. PICK i \in 1 .. n : lists[i] = <<x>>
    BY <1>9, <2>1
  <2>3. files[i].extras # NoExtras /\ files[i].extras = x /\ files[i] \in ToSet(files)
    BY <1>2, <1>11, <2>2
  <2> QED
    BY <2>3
<1>13. ASSUME NEW x \in given_ PROVE x \in found
  <2>1. PICK i \in 1 .. n : files[i].extras # NoExtras /\ x = files[i].extras
    BY <1>2
  <2>2. x \in Payload /\ lists[i] = <<x>>
    BY <1>3, <1>5, <2>1
  <2>3. \E j \in 1 .. Len(payloads) : payloads[j] = x
    BY <1>9, <2>2
  <2> QED
    BY <2>3
<1>14. found = given_
  <2> HIDE DEF found, given_
  <2> QED
    BY <1>12, <1>13
<1> QED
  BY <1>9, <1>14 DEF payloads, lists

\* What the property says of one field, for any set of fields merged into it.
Minima(fields, a) ==
    {n \in {Number(d.type, d.min[a]) : d \in {d \in fields : "min" \in d.options}} : Finite(n)}
Maxima(fields, a) ==
    {n \in {Number(d.type, d.max[a]) : d \in {d \in fields : "max" \in d.options}} : Finite(n)}
Least(S)    == {n \in S : \A m \in S : n <= m}
Greatest(S) == {n \in S : \A m \in S : n >= m}

\* The slot holds a number of S as near as a double can be to it, or nothing.
SlotIs(type, raw, S) ==
    IF S = {} THEN raw = 0 ELSE \E n \in S : AsNear(type, Number(type, raw), n)

Honest(merged, fields) ==
    IF merged.type = "raw"
    THEN /\ merged.options \cap {"min", "max"} = {}
         /\ merged \in {[d EXCEPT !.options = merged.options] : d \in fields}
    ELSE /\ "min" \in merged.options <=> Minima(fields, 1) # {}
         /\ "max" \in merged.options <=> Maxima(fields, 1) # {}
         /\ "min" \in merged.options =>
               \A a \in 1 .. Axes : SlotIs(merged.type, merged.min[a], Least(Minima(fields, a)))
         /\ "max" \in merged.options =>
               \A a \in 1 .. Axes : SlotIs(merged.type, merged.max[a], Greatest(Maxima(fields, a)))

\* What the folds are given for one axis: doubles, and the flagged numbers among
\* them are the images of the fields' numbers.
StatsSay(stats, fields, ds, m, type, a) ==
    /\ Len(stats) = m /\ DOMAIN stats = 1 .. m
    /\ \A f \in 1 .. m : /\ stats[f].options = ds[f].options \cap StatMask(type)
                         /\ stats[f].min[a] \in Values /\ stats[f].max[a] \in Values
    /\ Flagged(stats, "min", [f \in 1 .. Len(stats) |-> stats[f].min[a]])
          = IF type = "raw" THEN {} ELSE Images(type, Minima(fields, a))
    /\ Flagged(stats, "max", [f \in 1 .. Len(stats) |-> stats[f].max[a]])
          = IF type = "raw" THEN {} ELSE Images(type, Maxima(fields, a))

\* The fold takes the images of the numbers that the property speaks of.
LEMMA StatsOfFields ==
    ASSUME NEW m \in Nat \ {0}, NEW ds \in [1 .. m -> Descriptors], NEW type \in Types,
           \A f \in 1 .. m : ds[f].type = type, NEW a \in 1 .. Axes
    PROVE  StatsSay([f \in 1 .. m |-> FieldStats(ds[f])], {ds[f] : f \in 1 .. m}, ds, m, type, a)
<1> DEFINE stats  == [f \in 1 .. m |-> FieldStats(ds[f])]
           fields == {ds[f] : f \in 1 .. m}
           low(f) == AnytypeToF64(type, ds[f].min[a])
           high(f) == AnytypeToF64(type, ds[f].max[a])
<1>1. Len(stats) = m /\ DOMAIN stats = 1 .. m
  OBVIOUS
<1>2. \A f \in 1 .. m : /\ stats[f].options = ds[f].options \cap StatMask(type)
                        /\ stats[f].min[a] = low(f) /\ stats[f].max[a] = high(f)
  BY DEF FieldStats
<1>3. \A f \in 1 .. m : ds[f].min[a] \in Patterns /\ ds[f].max[a] \in Patterns
  BY DEF Descriptors
<1>4. \A f \in 1 .. m : low(f) \in Values /\ high(f) \in Values
  <2>1. CASE type = "raw"
    BY <2>1, ValuesAre DEF AnytypeToF64, Values
  <2>2. CASE type # "raw"
    BY <1>3, <2>2, NumberIs DEF Types, NumberTypes
  <2> QED
    BY <2>1, <2>2
<1> HIDE DEF stats
<1> DEFINE lows  == [f \in 1 .. Len(stats) |-> stats[f].min[a]]
           highs == [f \in 1 .. Len(stats) |-> stats[f].max[a]]
<1>5. \A f \in 1 .. m : lows[f] = low(f) /\ highs[f] = high(f)
  BY <1>1, <1>2
<1> HIDE DEF lows, highs
<1>6. ASSUME type # "raw"
      PROVE  Flagged(stats, "min", lows) = Images(type, Minima(fields, a))
             /\ Flagged(stats, "max", highs) = Images(type, Maxima(fields, a))
  <2> DEFINE least(f) == Number(type, ds[f].min[a])
             most(f)  == Number(type, ds[f].max[a])
             mins     == {f \in 1 .. m : "min" \in ds[f].options /\ Finite(low(f))}
             maxs     == {f \in 1 .. m : "max" \in ds[f].options /\ Finite(high(f))}
  <2>1. StatMask(type) = {"no_data", "min", "max"}
    BY <1>6 DEF StatMask, StatBits
  <2>2. \A f \in 1 .. m : /\ low(f) = Image(type, least(f))
                          /\ Finite(low(f)) <=> Finite(least(f))
                          /\ high(f) = Image(type, most(f))
                          /\ Finite(high(f)) <=> Finite(most(f))
    BY <1>3, <1>6, NumberIs DEF Types, NumberTypes
  <2>3. \A f \in 1 .. m : /\ "min" \in stats[f].options <=> "min" \in ds[f].options
                          /\ "max" \in stats[f].options <=> "max" \in ds[f].options
    BY <1>2, <2>1
  <2>4. Minima(fields, a) = {least(f) : f \in {f \in 1 .. m : "min" \in ds[f].options /\ Finite(least(f))}}
    BY DEF Minima
  <2>5. Maxima(fields, a) = {most(f) : f \in {f \in 1 .. m : "max" \in ds[f].options /\ Finite(most(f))}}
    BY DEF Maxima
  <2> HIDE DEF low, high, least, most
  <2>6. Flagged(stats, "min", lows) = {low(f) : f \in mins}
    BY <1>1, <1>5, <2>3 DEF Flagged
  <2>7. Flagged(stats, "max", highs) = {high(f) : f \in maxs}
    BY <1>1, <1>5, <2>3 DEF Flagged
  <2>8. Minima(fields, a) = {least(f) : f \in mins} /\ Maxima(fields, a) = {most(f) : f \in maxs}
    BY <2>2, <2>4, <2>5
  <2>9. /\ \A f \in mins : low(f) = Image(type, least(f))
        /\ \A f \in maxs : high(f) = Image(type, most(f))
    BY <2>2
  <2> HIDE DEF mins, maxs
  <2>10. Images(type, Minima(fields, a)) = {low(f) : f \in mins}
    <3>1. Images(type, Minima(fields, a)) = {Image(type, least(f)) : f \in mins}
      BY <2>8 DEF Images
    <3> QED
      BY <2>9, <3>1
  <2>11. Images(type, Maxima(fields, a)) = {high(f) : f \in maxs}
    <3>1. Images(type, Maxima(fields, a)) = {Image(type, most(f)) : f \in maxs}
      BY <2>8 DEF Images
    <3> QED
      BY <2>9, <3>1
  <2> QED
    BY <2>6, <2>7, <2>10, <2>11
<1>7. ASSUME type = "raw"
      PROVE  Flagged(stats, "min", lows) = {} /\ Flagged(stats, "max", highs) = {}
  <2>1. \A f \in 1 .. m : "min" \notin stats[f].options /\ "max" \notin stats[f].options
    BY <1>2, <1>7 DEF StatMask
  <2> QED
    BY <1>1, <2>1 DEF Flagged
<1>8. \A f \in 1 .. m : stats[f].min[a] \in Values /\ stats[f].max[a] \in Values
  BY <1>2, <1>4
<1>9. \A f \in 1 .. m : stats[f].options = ds[f].options \cap StatMask(type)
  BY <1>2
<1> QED
  BY <1>1, <1>6, <1>7, <1>8, <1>9 DEF StatsSay, stats, lows, highs

\* A slot that something was folded into holds the extreme, as near as a double
\* can be to it: conversion turns no order, so the extreme of the images is the
\* image of the extreme.  Another slot is zero.
LEMMA SlotOfLeast ==
    ASSUME NEW m \in Nat \ {0}, NEW ds \in [1 .. m -> Descriptors], NEW type \in NumberTypes,
           NEW a \in 1 .. Axes, \A f \in 1 .. m : ds[f].type = type,
           NEW acc, IsLeast(acc, Images(type, Minima({ds[f] : f \in 1 .. m}, a)))
    PROVE  SlotIs(type, Slot(type, acc), Least(Minima({ds[f] : f \in 1 .. m}, a)))
<1> DEFINE S == Minima({ds[f] : f \in 1 .. m}, a)
<1>1. \A n \in S : Finite(n) /\ \E f \in 1 .. m : n = Number(type, ds[f].min[a])
  BY DEF Minima
<1>2. \A f \in 1 .. m : ds[f].min[a] \in Patterns
  BY DEF Descriptors
<1>3. S \subseteq Reach
  <2> SUFFICES ASSUME NEW n \in S PROVE n \in Reach
    OBVIOUS
  <2>1. n \in Values /\ Finite(n)
    BY <1>1, <1>2, NumberIs
  <2> QED
    BY <2>1, ValuesAre DEF Finite, Values, Infinity, Reach
<1> HIDE DEF S
<1>4. CASE S = {}
  <2>1. Images(type, S) = {} /\ Least(S) = {}
    BY <1>4 DEF Images, Least
  <2>2. Slot(type, acc) = 0
    BY <2>1 DEF Slot, IsLeast, S
  <2> QED
    BY <2>1, <2>2 DEF SlotIs, S
<1>5. CASE S # {}
  <2>1. PICK n \in S : \A x \in S : n <= x
    BY <1>3, <1>5, LeastIs DEF Reach
  <2>2. n \in Least(S)
    BY <2>1 DEF Least
  <2>3. Images(type, S) # {} /\ Image(type, n) \in Images(type, S)
    BY <1>5, <2>1 DEF Images
  <2>4. acc.folded /\ acc.value \in Images(type, S) /\ \A x \in Images(type, S) : acc.value <= x
    BY <2>3 DEF IsLeast, S
  <2>5. PICK k \in S : acc.value = Image(type, k)
    BY <2>4 DEF Images
  <2>6. n \in Reach /\ k \in Reach /\ n <= k
    BY <1>3, <2>1, <2>5
  <2>7. /\ Image(type, n) <= Image(type, k) /\ Image(type, k) <= Image(type, n)
        /\ Image(type, n) \in Int /\ Image(type, k) \in Int
    <3>1. Image(type, k) <= Image(type, n)
      BY <2>3, <2>4, <2>5
    <3>2. AsDouble(n) <= AsDouble(k) /\ AsDouble(n) \in Reach /\ AsDouble(k) \in Reach
      <4>1. Reach \subseteq Int
        BY ExtraBytesAssumption DEF Reach
      <4>2. AsDouble(n) \in Reach /\ AsDouble(k) \in Reach
        BY <2>6, NearestDouble
      <4>3. AsDouble(n) <= AsDouble(k)
        BY <2>6, <4>1, DoublesInOrder
      <4> QED
        BY <4>1, <4>2, <4>3
    <3> QED
      BY <2>6, <3>1, <3>2, ExtraBytesAssumption DEF Image, Reach
  <2>8. acc.value = Image(type, n)
    BY <2>5, <2>7
  <2>9. PICK f \in 1 .. m : n = Number(type, ds[f].min[a])
    BY <1>1, <2>1 DEF S
  <2>10. Slot(type, acc) = F64ToAnytype(type, Image(type, n))
    BY <2>4, <2>8 DEF Slot
  <2>11. AsNear(type, Number(type, Slot(type, acc)), n)
    BY <1>1, <1>2, <2>1, <2>9, <2>10, NumberKept
  <2> QED
    BY <2>2, <2>11 DEF SlotIs, S
<1> QED
  BY <1>4, <1>5

LEMMA SlotOfGreatest ==
    ASSUME NEW m \in Nat \ {0}, NEW ds \in [1 .. m -> Descriptors], NEW type \in NumberTypes,
           NEW a \in 1 .. Axes, \A f \in 1 .. m : ds[f].type = type,
           NEW acc, IsGreatest(acc, Images(type, Maxima({ds[f] : f \in 1 .. m}, a)))
    PROVE  SlotIs(type, Slot(type, acc), Greatest(Maxima({ds[f] : f \in 1 .. m}, a)))
<1> DEFINE S == Maxima({ds[f] : f \in 1 .. m}, a)
<1>1. \A n \in S : Finite(n) /\ \E f \in 1 .. m : n = Number(type, ds[f].max[a])
  BY DEF Maxima
<1>2. \A f \in 1 .. m : ds[f].max[a] \in Patterns
  BY DEF Descriptors
<1>3. S \subseteq Reach
  <2> SUFFICES ASSUME NEW n \in S PROVE n \in Reach
    OBVIOUS
  <2>1. n \in Values /\ Finite(n)
    BY <1>1, <1>2, NumberIs
  <2> QED
    BY <2>1, ValuesAre DEF Finite, Values, Infinity, Reach
<1> HIDE DEF S
<1>4. CASE S = {}
  <2>1. Images(type, S) = {} /\ Greatest(S) = {}
    BY <1>4 DEF Images, Greatest
  <2>2. Slot(type, acc) = 0
    BY <2>1 DEF Slot, IsGreatest, S
  <2> QED
    BY <2>1, <2>2 DEF SlotIs, S
<1>5. CASE S # {}
  <2>1. PICK n \in S : \A x \in S : n >= x
    BY <1>3, <1>5, GreatestIs DEF Reach
  <2>2. n \in Greatest(S)
    BY <2>1 DEF Greatest
  <2>3. Images(type, S) # {} /\ Image(type, n) \in Images(type, S)
    BY <1>5, <2>1 DEF Images
  <2>4. acc.folded /\ acc.value \in Images(type, S) /\ \A x \in Images(type, S) : acc.value >= x
    BY <2>3 DEF IsGreatest, S
  <2>5. PICK k \in S : acc.value = Image(type, k)
    BY <2>4 DEF Images
  <2>6. n \in Reach /\ k \in Reach /\ n >= k
    BY <1>3, <2>1, <2>5
  <2>7. /\ Image(type, n) >= Image(type, k) /\ Image(type, k) >= Image(type, n)
        /\ Image(type, n) \in Int /\ Image(type, k) \in Int
    <3>1. Image(type, k) >= Image(type, n)
      BY <2>3, <2>4, <2>5
    <3>2. AsDouble(n) >= AsDouble(k) /\ AsDouble(n) \in Reach /\ AsDouble(k) \in Reach
      <4>1. Reach \subseteq Int
        BY ExtraBytesAssumption DEF Reach
      <4>2. AsDouble(n) \in Reach /\ AsDouble(k) \in Reach
        BY <2>6, NearestDouble
      <4>3. AsDouble(k) <= AsDouble(n)
        BY <2>6, <4>1, DoublesInOrder
      <4> QED
        BY <4>1, <4>2, <4>3
    <3> QED
      BY <2>6, <3>1, <3>2, ExtraBytesAssumption DEF Image, Reach
  <2>8. acc.value = Image(type, n)
    BY <2>5, <2>7
  <2>9. PICK f \in 1 .. m : n = Number(type, ds[f].max[a])
    BY <1>1, <2>1 DEF S
  <2>10. Slot(type, acc) = F64ToAnytype(type, Image(type, n))
    BY <2>4, <2>8 DEF Slot
  <2>11. AsNear(type, Number(type, Slot(type, acc)), n)
    BY <1>1, <1>2, <2>1, <2>9, <2>10, NumberKept
  <2> QED
    BY <2>2, <2>11 DEF SlotIs, S
<1> QED
  BY <1>4, <1>5

\* A merged field is what the property says of it.
LEMMA FieldHonest ==
    ASSUME NEW m \in Nat \ {0}, NEW ds \in [1 .. m -> Descriptors], NEW type \in Types,
           \A f \in 1 .. m : ds[f].type = type
    PROVE  Honest(MergedField(ds[1], [f \in 1 .. m |-> FieldStats(ds[f])]), {ds[f] : f \in 1 .. m})
<1> DEFINE stats  == [f \in 1 .. m |-> FieldStats(ds[f])]
           fields == {ds[f] : f \in 1 .. m}
           d == ds[1]
           merged == MergedField(d, stats)
           anyMin == MergedMin(stats, 1).folded
           anyMax == MergedMax(stats, 1).folded
           options == (d.options \cap StructuralBits)
                       \cup {b \in {"no_data"} : \E i \in DOMAIN stats : b \in stats[i].options}
                       \cup {b \in {"min"} : anyMin} \cup {b \in {"max"} : anyMax}
           low  == IF anyMin THEN [a \in 1 .. Axes |-> Slot(d.type, MergedMin(stats, a))] ELSE d.min
           high == IF anyMax THEN [a \in 1 .. Axes |-> Slot(d.type, MergedMax(stats, a))] ELSE d.max
<1>0. d \in Descriptors /\ d \in fields /\ d.type = type /\ 1 \in 1 .. Axes
  <2>1. 1 \in 1 .. m /\ 1 \in 1 .. Axes
    BY ExtraBytesAssumption
  <2> QED
    BY <2>1
<1>1. merged = [d EXCEPT !.options = options, !.min = low, !.max = high]
  BY DEF MergedField
<1> HIDE DEF d, options, low, high
<1>2. /\ merged.type = type /\ merged.options = options
      /\ merged.min = low /\ merged.max = high
      /\ merged = [d EXCEPT !.options = options, !.min = low, !.max = high]
  BY <1>0, <1>1 DEF Descriptors
<1> HIDE DEF merged, stats, fields
<1>3. /\ "min" \in options <=> anyMin
      /\ "max" \in options <=> anyMax
  BY DEF options, StructuralBits
<1> DEFINE lows(a)  == [f \in 1 .. Len(stats) |-> stats[f].min[a]]
           highs(a) == [f \in 1 .. Len(stats) |-> stats[f].max[a]]
<1>S. ASSUME NEW a \in 1 .. Axes PROVE StatsSay(stats, fields, ds, m, type, a)
  BY StatsOfFields DEF stats, fields
<1>4. ASSUME NEW a \in 1 .. Axes
      PROVE  /\ IsLeast(MergedMin(stats, a), Flagged(stats, "min", lows(a)))
             /\ IsGreatest(MergedMax(stats, a), Flagged(stats, "max", highs(a)))
  <2>1. /\ Len(stats) = m
        /\ \A f \in 1 .. m : stats[f].min[a] \in Values /\ stats[f].max[a] \in Values
    BY <1>S DEF StatsSay
  <2>2. Len(stats) \in Nat
    BY <2>1
  <2> QED
    BY <2>1, <2>2, MinMerged, MaxMerged
<1>5. CASE type = "raw"
  <2>1. Flagged(stats, "min", lows(1)) = {} /\ Flagged(stats, "max", highs(1)) = {}
    BY <1>0, <1>5, <1>S DEF StatsSay
  <2>2. ~anyMin /\ ~anyMax
    <3> HIDE DEF lows, highs
    <3> QED
      BY <1>0, <1>4, <2>1 DEF IsLeast, IsGreatest, Folds
  <2>3. low = d.min /\ high = d.max
    BY <2>2 DEF low, high
  <2>4. merged = [d EXCEPT !.options = merged.options]
    BY <1>0, <1>2, <2>3 DEF Descriptors
  <2>5. merged.options \cap {"min", "max"} = {}
    BY <1>2, <1>3, <2>2
  <2> QED
    BY <1>0, <1>2, <1>5, <2>4, <2>5 DEF Honest, merged, stats, fields, d
<1>6. CASE type # "raw"
  <2>0. type \in NumberTypes
    BY <1>6 DEF Types, NumberTypes
  <2>1. ASSUME NEW a \in 1 .. Axes
        PROVE  /\ IsLeast(MergedMin(stats, a), Images(type, Minima(fields, a)))
               /\ IsGreatest(MergedMax(stats, a), Images(type, Maxima(fields, a)))
    <3>1. /\ Flagged(stats, "min", lows(a)) = Images(type, Minima(fields, a))
          /\ Flagged(stats, "max", highs(a)) = Images(type, Maxima(fields, a))
      BY <1>6, <1>S DEF StatsSay
    <3> HIDE DEF lows, highs
    <3> QED
      BY <1>4, <3>1
  <2>2. /\ "min" \in merged.options <=> Minima(fields, 1) # {}
        /\ "max" \in merged.options <=> Maxima(fields, 1) # {}
    <3>1. \A S : Images(type, S) = {} <=> S = {}
      BY DEF Images
    <3> QED
      BY <1>0, <1>2, <1>3, <2>1, <3>1 DEF IsLeast, IsGreatest
  <2>3. ASSUME "min" \in merged.options, NEW a \in 1 .. Axes
        PROVE  SlotIs(merged.type, merged.min[a], Least(Minima(fields, a)))
    <3>1. merged.min[a] = Slot(type, MergedMin(stats, a))
      BY <1>0, <1>2, <1>3, <2>3 DEF low
    <3>2. IsLeast(MergedMin(stats, a), Images(type, Minima(fields, a)))
      BY <2>1
    <3>3. SlotIs(type, Slot(type, MergedMin(stats, a)), Least(Minima(fields, a)))
      BY <2>0, <3>2, SlotOfLeast DEF fields
    <3> QED
      BY <1>2, <3>1, <3>3
  <2>4. ASSUME "max" \in merged.options, NEW a \in 1 .. Axes
        PROVE  SlotIs(merged.type, merged.max[a], Greatest(Maxima(fields, a)))
    <3>1. merged.max[a] = Slot(type, MergedMax(stats, a))
      BY <1>0, <1>2, <1>3, <2>4 DEF high
    <3>2. IsGreatest(MergedMax(stats, a), Images(type, Maxima(fields, a)))
      BY <2>1
    <3>3. SlotIs(type, Slot(type, MergedMax(stats, a)), Greatest(Maxima(fields, a)))
      BY <2>0, <3>2, SlotOfGreatest DEF fields
    <3> QED
      BY <1>2, <3>1, <3>3
  <2>5. merged.type # "raw"
    BY <1>2, <1>6
  <2>6. Honest(merged, fields)
    BY <2>2, <2>3, <2>4, <2>5 DEF Honest
  <2> QED
    BY <2>6 DEF merged, stats, fields, d
<1> QED
  BY <1>5, <1>6

\* The merge of payloads of one schema, field by field.
LEMMA MergeHonest ==
    ASSUME NEW payloads \in Seq(Payload), payloads # <<>>,
           \A k, l \in 1 .. Len(payloads) : SchemaHash(payloads[k]) = SchemaHash(payloads[l])
    PROVE  LET merged == MergeStats(payloads[1], payloads)
           IN  \A i \in DOMAIN merged.fields :
                  Honest(merged.fields[i], {payloads[k].fields[i] : k \in 1 .. Len(payloads)})
<1> DEFINE m == Len(payloads)
           first == payloads[1]
           stats(i) == [f \in DOMAIN payloads |-> FieldStats(payloads[f].fields[i])]
           merged == MergeStats(first, payloads)
<1>1. m \in Nat \ {0} /\ DOMAIN payloads = 1 .. m
  BY LenProperties, EmptySeq
<1>2. \A k \in 1 .. m : payloads[k] \in Payload
  BY ElementOfSeq
<1> HIDE DEF m
<1>3. 1 \in 1 .. m /\ first \in Payload
  BY <1>1, <1>2
<1>4. merged = [first EXCEPT !.fields = [i \in DOMAIN first.fields |-> MergedField(first.fields[i], stats(i))]]
  BY DEF MergeStats
<1> HIDE DEF merged, first
<1>5. merged.fields = [i \in DOMAIN first.fields |-> MergedField(first.fields[i], stats(i))]
  BY <1>3, <1>4 DEF Payload
<1>6. \A k \in 1 .. m : SchemaHash(payloads[k]) = SchemaHash(first)
  BY <1>1, <1>3 DEF first, m
<1>7. ASSUME NEW i \in DOMAIN first.fields
      PROVE  Honest(merged.fields[i], {payloads[k].fields[i] : k \in 1 .. m})
  <2> DEFINE ds == [k \in 1 .. m |-> payloads[k].fields[i]]
             type == first.fields[i].type
  <2>1. ASSUME NEW k \in 1 .. m
        PROVE  i \in DOMAIN payloads[k].fields /\ payloads[k].fields[i].type = type
    <3>1. SchemaHash(payloads[k]) = SchemaHash(first)
      BY <1>6
    <3>2. DOMAIN payloads[k].fields = DOMAIN first.fields
      <4>1. DOMAIN SchemaHash(payloads[k]) = DOMAIN payloads[k].fields
            /\ DOMAIN SchemaHash(first) = DOMAIN first.fields
        BY DEF SchemaHash
      <4> QED
        BY <3>1, <4>1
    <3>3. FieldSchema(payloads[k].fields[i]) = FieldSchema(first.fields[i])
      <4>1. /\ SchemaHash(payloads[k])[i] = FieldSchema(payloads[k].fields[i])
            /\ SchemaHash(first)[i] = FieldSchema(first.fields[i])
        BY <3>2 DEF SchemaHash
      <4> QED
        BY <3>1, <4>1
    <3>4. \A e : FieldSchema(e).type = e.type
      BY DEF FieldSchema
    <3> QED
      BY <3>2, <3>3, <3>4
  <2>2. ASSUME NEW k \in 1 .. m PROVE payloads[k].fields[i] \in Descriptors
    <3>1. payloads[k].fields \in Seq(Descriptors) /\ i \in DOMAIN payloads[k].fields
      BY <1>2, <2>1 DEF Payload
    <3> DEFINE s == payloads[k].fields
    <3>2. s \in Seq(Descriptors) /\ i \in DOMAIN s
      BY <3>1
    <3> HIDE DEF s
    <3>3. s[i] \in Descriptors
      BY <3>2, LenProperties, ElementOfSeq
    <3> QED
      BY <3>3 DEF s
  <2>3. ds \in [1 .. m -> Descriptors] /\ \A k \in 1 .. m : ds[k].type = type
    BY <2>1, <2>2
  <2>4. type \in Types
    BY <1>3, <2>2, <2>3 DEF Descriptors, first
  <2>5. stats(i) = [f \in 1 .. m |-> FieldStats(ds[f])]
    BY <1>1
  <2>6. {payloads[k].fields[i] : k \in 1 .. m} = {ds[f] : f \in 1 .. m}
    OBVIOUS
  <2>7. ds[1] = first.fields[i]
    BY <1>3 DEF first
  <2>8. merged.fields[i] = MergedField(first.fields[i], stats(i))
    BY <1>5
  <2> HIDE DEF ds, type, stats
  <2>9. Honest(MergedField(ds[1], [f \in 1 .. m |-> FieldStats(ds[f])]), {ds[f] : f \in 1 .. m})
    BY <1>1, <2>3, <2>4, FieldHonest
  <2> QED
    BY <2>5, <2>6, <2>7, <2>8, <2>9
<1>8. DOMAIN merged.fields = DOMAIN first.fields
  BY <1>5
<1> QED
  BY <1>7, <1>8 DEF merged, first, m

\* A verdict that accepts brings the merge of the files' payloads.
LEMMA VerdictExtras ==
    ASSUME NEW files, NEW index, Verdict(files, index).ok
    PROVE  Verdict(files, index).extras = MergedExtras(files)
<1> DEFINE n == Len(files)
           C == First(CrsMismatches(files), n + 1) <= n
                /\ First(CrsMismatches(files), n + 1) <= First(FormatMismatches(files), n + 1)
           F == First(FormatMismatches(files), n + 1) <= n
           X == First(ExtrasMismatches(files), n + 1) <= n
           T == index # NoCode /\ ~FormatHasGpsTime(files[1].format)
           accepted == [ok |-> TRUE, wkt |-> CanonicalWkt(files),
                        extras |-> MergedExtras(files),
                        width |-> files[ExtrasFile(files)].width,
                        format |-> InputToCopcFormat(files[1].format)]
<1>1. Verdict(files, index) =
         IF C THEN Refused("crs", CrsFile(files), First(CrsMismatches(files), n + 1))
         ELSE IF F THEN Refused("format", 1, First(FormatMismatches(files), n + 1))
         ELSE IF X THEN Refused("extras", ExtrasFile(files), First(ExtrasMismatches(files), n + 1))
         ELSE IF index = 0 THEN Refused("stride", 1, 1)
         ELSE IF T THEN Refused("no gps time", 1, 1)
         ELSE accepted
  BY DEF Verdict
<1>2. \A e, a, b : Refused(e, a, b).ok = FALSE
  BY DEF Refused
<1>3. accepted.extras = MergedExtras(files)
  OBVIOUS
<1> HIDE DEF C, F, X, T, accepted, n
<1>4. Verdict(files, index) = accepted
  BY <1>1, <1>2
<1> QED
  BY <1>3, <1>4

\* The files of a run are files, and there is one.
LEMMA InputsAreFiles ==
    ASSUME VerdictKept, NEW r \in Runs
    PROVE  AreFiles(inputs[r])
BY InputsAreLists, PipelineAssumption DEF VerdictKept, AreFiles

\* What is merged from the files of an accepted run is honest.
LEMMA MergedAreHonest == VerdictKept => StatsHonest
<1> SUFFICES ASSUME VerdictKept, NEW r \in Runs, result[r].ok, result[r].extras # NoExtras
             PROVE  LET withs == {f.extras : f \in {f \in ToSet(inputs[r]) : f.extras # NoExtras}}
                    IN  \A i \in DOMAIN result[r].extras.fields :
                           Honest(result[r].extras.fields[i], {p.fields[i] : p \in withs})
  BY DEF StatsHonest, Honest, Minima, Maxima, SlotIs, Least, Greatest
<1> DEFINE files == inputs[r]
           withs == {f.extras : f \in {f \in ToSet(files) : f.extras # NoExtras}}
           payloads == Concat([i \in DOMAIN files |->
                         IF files[i].extras = NoExtras THEN <<>> ELSE <<files[i].extras>>])
           merged == MergeStats(payloads[1], payloads)
<1>1. AreFiles(files) /\ IsList(files)
  BY InputsAreFiles DEF AreFiles
<1>2. Verdict(files, stride[r]).ok /\ result[r] = Verdict(files, stride[r])
  BY DEF VerdictKept
<1>3. result[r].extras = MergedExtras(files)
  BY <1>2, VerdictExtras
<1> HIDE DEF files
<1>4. ExtrasMismatches(files) = {}
  BY <1>1, <1>2, AcceptedWhen
<1>5. \A i, j \in DOMAIN files : Schema(files[i]) = Schema(files[j])
  BY <1>1, <1>4, MismatchesOfPairs
<1>6. payloads \in Seq(Payload) /\ {payloads[k] : k \in 1 .. Len(payloads)} = withs
  BY <1>1, PayloadsAre
<1>7. MergedExtras(files) = IF payloads = <<>> THEN NoExtras ELSE merged
  BY DEF MergedExtras
<1> HIDE DEF payloads
<1>8. payloads # <<>> /\ result[r].extras = merged
  BY <1>3, <1>7
<1>9. \A k, l \in 1 .. Len(payloads) : SchemaHash(payloads[k]) = SchemaHash(payloads[l])
  <2>1. ASSUME NEW k \in 1 .. Len(payloads)
        PROVE  \E i \in DOMAIN files : payloads[k] = files[i].extras /\ files[i].extras # NoExtras
    <3>1. payloads[k] \in withs
      BY <1>6
    <3>2. ToSet(files) = {files[i] : i \in DOMAIN files}
      BY DEF ToSet
    <3> QED
      BY <3>1, <3>2
  <2>2. ASSUME NEW i \in DOMAIN files, files[i].extras # NoExtras
        PROVE  Schema(files[i]) = SchemaHash(files[i].extras)
    BY <2>2 DEF Schema
  <2> TAKE k, l \in 1 .. Len(payloads)
  <2>3. PICK i \in DOMAIN files : payloads[k] = files[i].extras /\ files[i].extras # NoExtras
    BY <2>1
  <2>4. PICK j \in DOMAIN files : payloads[l] = files[j].extras /\ files[j].extras # NoExtras
    BY <2>1
  <2> QED
    BY <1>5, <2>2, <2>3, <2>4
<1> HIDE DEF merged
<1>10. \A i \in DOMAIN merged.fields :
          Honest(merged.fields[i], {payloads[k].fields[i] : k \in 1 .. Len(payloads)})
  BY <1>6, <1>8, <1>9, MergeHonest DEF merged
<1>11. ASSUME NEW i
       PROVE  {payloads[k].fields[i] : k \in 1 .. Len(payloads)} = {p.fields[i] : p \in withs}
  <2> HIDE DEF withs
  <2> QED
    BY <1>6
<1> HIDE DEF withs
<1>12. \A i \in DOMAIN merged.fields : Honest(merged.fields[i], {p.fields[i] : p \in withs})
  BY <1>10, <1>11
<1> QED
  BY <1>8, <1>12 DEF withs, files

\* The statistics that a conversion writes for the Extra Bytes are those of
\* the files' points: flagged when some file flags a number, and then the
\* extreme of those numbers, or the nearest to it that a double can be, for any
\* number of files, fields, axes and bit patterns and whatever whole numbers
\* doubles can be; no NaN and no initializer of a fold gets in.
THEOREM StatsAreHonest == Spec => []StatsHonest
<1>1. VerdictKept /\ [Next]_vars => VerdictKept'
  BY VerdictStays
<1> QED
  BY <1>1, VerdictAtFirst, MergedAreHonest, PTL DEF Spec

\* Every coordinate within the bounds of the files of a run has a code of 32
\* bits that decodes to it within half a step, whatever offset and scale the
\* first file has and however far apart the bounds lie.
THEOREM CoordinatesFit == Spec => []NoSaturation
<1>1. VerdictKept => NoSaturation
  BY InputsAreFiles, NothingSaturates DEF NoSaturation
<1>2. VerdictKept /\ [Next]_vars => VerdictKept'
  BY VerdictStays
<1> QED
  BY <1>1, <1>2, VerdictAtFirst, PTL DEF Spec
=============================================================================
