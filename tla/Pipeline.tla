------------------------------ MODULE Pipeline ------------------------------
(***************************************************************************)
(* A conversion from end to end (src/src/lib.rs `Pipeline`): scan the      *)
(* inputs in parallel, validate, then distribute, build and write through  *)
(* one temporary directory, which `OctreeBuilder::from_scan` makes and     *)
(* `Drop` removes.  Several processes convert on hosts that share the      *)
(* directory's parent; each may crash at any point, and process ids are    *)
(* used again.                                                             *)
(*                                                                         *)
(* The directory is named by the process id only.  Of its files there are  *)
(* two: the chunk files, which distribute appends to, and the node files;  *)
(* each is the sequence of the runs whose points it holds.  What the       *)
(* stages do inside is modelled by Distribute, OctreeBuild and CopcWriter. *)
(***************************************************************************)
EXTENDS InputChecks, FiniteSets

CONSTANTS Runs,         \* the conversions, each a process of its own
          HostOf,       \* run -> the host it runs on
          Pids,         \* process ids
          InputsOf,     \* run -> the lists of files it may be given
          Strides,      \* what may be asked for as temporal index
          MayCrash      \* the runs that may crash

ASSUME PipelineAssumption ==
    /\ MayCrash \subseteq Runs
    /\ \A r \in Runs : \A files \in InputsOf[r] :
          /\ Len(files) \in Nat \ {0} /\ DOMAIN files = 1 .. Len(files)
          /\ \A i \in DOMAIN files : IsFile(files[i])

Absent == [there |-> FALSE, chunks |-> <<>>, nodes |-> <<>>]
Fresh  == [there |-> TRUE,  chunks |-> <<>>, nodes |-> <<>>]

NoPid    == 0
NoResult == [ok |-> FALSE, error |-> "none", a |-> 0, b |-> 0]

VARIABLES inputs,   \* run -> its files, fixed
          stride,   \* run -> its temporal stride or NoCode, fixed
          pid,      \* run -> its process id once started
          stage,    \* run -> how far it is
          unscanned,\* run -> files whose header is not read yet
          result,   \* run -> the verdict of validate
          builder,  \* run -> whether it owns an OctreeBuilder
          dir,      \* pid -> the temporary directory of that name
          output    \* run -> the runs whose points its output file holds

vars == <<inputs, stride, pid, stage, unscanned, result, builder, dir, output>>

Ended   == {"written", "failed", "unopened", "crashed"}
Running == {"scanning", "scanned", "validated", "analyzing", "clearing",
            "creating", "distributing", "distributed", "built"}

Live(r) == stage[r] \in Running

TypeOK ==
    /\ \A r \in Runs : inputs[r] \in InputsOf[r] /\ stride[r] \in Strides
    /\ pid \in [Runs -> Pids \cup {NoPid}]
    /\ stage \in [Runs -> {"idle"} \cup Running \cup Ended]
    /\ DOMAIN unscanned = Runs
    /\ \A r \in Runs : unscanned[r] \subseteq DOMAIN inputs[r]
    /\ builder \in [Runs -> BOOLEAN]
    /\ dir \in [Pids -> [there : BOOLEAN, chunks : Seq(Runs), nodes : Seq(Runs)]]
    /\ output \in [Runs -> Seq(Runs)]

Init ==
    /\ inputs \in {f \in [Runs -> UNION {InputsOf[r] : r \in Runs}] :
                     \A r \in Runs : f[r] \in InputsOf[r]}
    /\ stride \in [Runs -> Strides]
    /\ pid = [r \in Runs |-> NoPid]
    /\ stage = [r \in Runs |-> "idle"]
    /\ unscanned = [r \in Runs |-> {}]
    /\ result = [r \in Runs |-> NoResult]
    /\ builder = [r \in Runs |-> FALSE]
    /\ dir = [p \in Pids |-> Absent]
    /\ output = [r \in Runs |-> <<>>]

Goes(r, from, to) == stage[r] = from /\ stage' = [stage EXCEPT ![r] = to]

(***************************************************************************)
(* Scan and validate.                                                      *)
(***************************************************************************)
\* A host does not give two live processes one id.
Start(r) ==
    /\ Goes(r, "idle", "scanning")
    /\ \E p \in Pids :
          /\ \A q \in Runs : HostOf[q] = HostOf[r] /\ Live(q) => pid[q] # p
          /\ pid' = [pid EXCEPT ![r] = p]
    /\ unscanned' = [unscanned EXCEPT ![r] = DOMAIN inputs[r]]
    /\ UNCHANGED <<inputs, stride, result, builder, dir, output>>

ScanFile(r, i) ==
    /\ stage[r] = "scanning" /\ i \in unscanned[r] /\ Scans(inputs[r][i])
    /\ unscanned' = [unscanned EXCEPT ![r] = @ \ {i}]
    /\ UNCHANGED <<inputs, stride, pid, stage, result, builder, dir, output>>

\* The header cannot be read, or its Extra Bytes do not parse.
ScanFails(r) ==
    /\ Goes(r, "scanning", "failed") /\ unscanned[r] # {}
    /\ UNCHANGED <<inputs, stride, pid, unscanned, result, builder, dir, output>>

EndScan(r) ==
    /\ Goes(r, "scanning", "scanned") /\ unscanned[r] = {}
    /\ UNCHANGED <<inputs, stride, pid, unscanned, result, builder, dir, output>>

Validate(r) ==
    LET verdict == Verdict(inputs[r], stride[r])
    IN  /\ Goes(r, "scanned", IF verdict.ok THEN "validated" ELSE "failed")
        /\ result' = [result EXCEPT ![r] = verdict]
        /\ UNCHANGED <<inputs, stride, pid, unscanned, builder, dir, output>>

(***************************************************************************)
(* The temporary directory.                                                *)
(***************************************************************************)
\* A slip: whatever an earlier run left is removed, not only this id's.
RemoveEveryLeftover(r) ==
    /\ Goes(r, "clearing", "creating")
    /\ dir' = [p \in Pids |-> Absent]
    /\ UNCHANGED <<inputs, stride, pid, unscanned, result, builder, output>>

\* A slip: a leftover directory is used as it is.
RemoveLeftoverNot(r) ==
    /\ Goes(r, "clearing", "creating")
    /\ UNCHANGED <<inputs, stride, pid, unscanned, result, builder, dir, output>>

RemoveLeftover(r) ==
    /\ Goes(r, "clearing", "creating")
    /\ dir' = [dir EXCEPT ![pid[r]] = Absent]
    /\ UNCHANGED <<inputs, stride, pid, unscanned, result, builder, output>>

\* create_dir_all does nothing to a directory that is there.  next is where
\* the builder is used: in `distribute` or in `analyze_chunking`.
CreateDir(r, next) ==
    /\ Goes(r, "creating", next)
    /\ dir' = [dir EXCEPT ![pid[r]] = IF @.there THEN @ ELSE Fresh]
    /\ builder' = [builder EXCEPT ![r] = TRUE]
    /\ UNCHANGED <<inputs, stride, pid, unscanned, result, output>>

\* distribute and analyze_chunking both begin with from_scan.
FromScan(r) ==
    /\ Goes(r, "validated", "clearing")
    /\ UNCHANGED <<inputs, stride, pid, unscanned, result, builder, dir, output>>

\* The directory cannot be removed or made, or the node store not be opened
\* in it: there is no builder yet whose Drop would remove it.
FromScanFails(r) ==
    /\ stage[r] \in {"clearing", "creating"}
    /\ stage' = [stage EXCEPT ![r] = "unopened"]
    /\ dir' \in {dir, [dir EXCEPT ![pid[r]] = IF @.there THEN @ ELSE Fresh]}
    /\ UNCHANGED <<inputs, stride, pid, unscanned, result, builder, output>>

\* Drop of the OctreeBuilder.
Dropped(r) ==
    /\ builder' = [builder EXCEPT ![r] = FALSE]
    /\ dir' = IF builder[r] THEN [dir EXCEPT ![pid[r]] = Absent] ELSE dir

\* The analyzer only counts; its builder is dropped when it returns, and
\* the validated pipeline can go on from there.
EndAnalyze(r) ==
    /\ Goes(r, "analyzing", "validated")
    /\ Dropped(r)
    /\ UNCHANGED <<inputs, stride, pid, unscanned, result, output>>

(***************************************************************************)
(* The stages that work in it.  A file whose directory is gone is an error.*)
(***************************************************************************)
InDir(r) == dir[pid[r]].there

Distribute(r) ==
    /\ Goes(r, "distributing", "distributed") /\ InDir(r)
    /\ dir' = [dir EXCEPT ![pid[r]] =
                 [there |-> TRUE, chunks |-> Append(@.chunks, r), nodes |-> @.nodes]]
    /\ UNCHANGED <<inputs, stride, pid, unscanned, result, builder, output>>

\* Reads the chunk files, writes the node files, deletes the chunk files.
Build(r) ==
    /\ Goes(r, "distributed", "built") /\ InDir(r)
    /\ dir' = [dir EXCEPT ![pid[r]] =
                 [there |-> TRUE, chunks |-> <<>>, nodes |-> @.chunks]]
    /\ UNCHANGED <<inputs, stride, pid, unscanned, result, builder, output>>

\* A slip: the builder is leaked.
WriteAndLeak(r) ==
    /\ Goes(r, "built", "written") /\ InDir(r)
    /\ output' = [output EXCEPT ![r] = dir[pid[r]].nodes]
    /\ UNCHANGED <<inputs, stride, pid, unscanned, result, builder, dir>>

Write(r) ==
    /\ Goes(r, "built", "written") /\ InDir(r)
    /\ output' = [output EXCEPT ![r] = dir[pid[r]].nodes]
    /\ Dropped(r)
    /\ UNCHANGED <<inputs, stride, pid, unscanned, result>>

\* An error of any stage: the pipeline it consumed is dropped.
StageFails(r) ==
    /\ stage[r] \in {"analyzing", "distributing", "distributed", "built"}
    /\ stage' = [stage EXCEPT ![r] = "failed"]
    /\ Dropped(r)
    /\ UNCHANGED <<inputs, stride, pid, unscanned, result, output>>

\* The process dies: nothing is dropped.
Crash(r) ==
    /\ r \in MayCrash /\ Live(r)
    /\ stage' = [stage EXCEPT ![r] = "crashed"]
    /\ builder' = [builder EXCEPT ![r] = FALSE]
    /\ UNCHANGED <<inputs, stride, pid, unscanned, result, dir, output>>

AllEnded ==
    /\ \A r \in Runs : stage[r] \in Ended
    /\ UNCHANGED vars

Next ==
    \/ \E r \in Runs :
          \/ Start(r)
          \/ \E i \in unscanned[r] : ScanFile(r, i)
          \/ ScanFails(r)
          \/ EndScan(r)
          \/ Validate(r)
          \/ FromScan(r)
          \/ RemoveLeftover(r)
          \/ CreateDir(r, "distributing")
          \/ CreateDir(r, "analyzing")
          \/ FromScanFails(r)
          \/ EndAnalyze(r)
          \/ Distribute(r)
          \/ Build(r)
          \/ Write(r)
          \/ StageFails(r)
          \/ Crash(r)
    \/ AllEnded

Spec == Init /\ [][Next]_vars

(***************************************************************************)
(* Properties.                                                             *)
(***************************************************************************)
\* What a reader makes of a file's CRS, from that file alone.
Horizontal(file) ==
    IF file.wkt # NoWkt
    THEN IF WktEpsg[file.wkt] = NoCode THEN file.wkt ELSE WktEpsg[file.wkt][1]
    ELSE IF CrsKind(file) = NoCrs THEN NoCode ELSE CrsKind(file).h

\* GeoTIFF files beside files of two different WKTs: a WKT is then compared
\* with the reference through the first WKT, not through its own text.
MixesCrs(files) ==
    /\ \E i, j \in DOMAIN files : {files[i].wkt, files[j].wkt} \subseteq Wkts
                                   /\ files[i].wkt # files[j].wkt
    /\ \E k \in DOMAIN files : CrsKind(files[k]).kind = "geo"

\* "Check that all scanned files agree on CRS and point format": files that
\* validate accepts have one horizontal CRS, one point format, one Extra
\* Bytes schema and one record width.  For the mixture above it is not so.
AcceptedAgree ==
    \A r \in Runs : result[r].ok =>
       \A i, j \in DOMAIN inputs[r] :
          LET a == inputs[r][i]
              b == inputs[r][j]
          IN  /\ Horizontal(a) = Horizontal(b) \/ MixesCrs(inputs[r])
              /\ a.format = b.format
              /\ Schema(a) = Schema(b)
              /\ a.width = b.width

\* The same without the exception.
AcceptedShareCrs ==
    \A r \in Runs : result[r].ok =>
       \A i, j \in DOMAIN inputs[r] :
          Horizontal(inputs[r][i]) = Horizontal(inputs[r][j])

\* Whether files are accepted does not depend on their order, although the
\* references and the canonical payloads are those of the first files that
\* have any; the mixture above excepted.
VerdictIgnoresOrder ==
    \A r \in Runs : stage[r] = "scanned" /\ ~MixesCrs(inputs[r]) =>
       LET files  == inputs[r]
           orders == {o \in [DOMAIN files -> DOMAIN files] : IsInjective(o)}
       IN  \A o \in orders :
              Verdict([i \in DOMAIN files |-> files[o[i]]], stride[r]).ok
                = Verdict(files, stride[r]).ok

\* The number in an integer slot or a double's, as the format defines it.
Number(type, raw) ==
    IF type = "float" THEN FloatOf[raw]
    ELSE CHOOSE n \in (IF type = "signed" THEN -HalfRange .. HalfRange - 1 ELSE Patterns) :
            n % (2 * HalfRange) = raw

\* x is the number n, or in a slot of integers as near to it as a double can be.
AsNear(type, x, n) ==
    IF type = "float" THEN x = n
    ELSE \A d \in WholeDoubles : Distance(x, n) <= Distance(d, n)

\* The merged statistics are those of all points: a bound is flagged exactly
\* when a file flags one that is a number, and is then the extreme of those, as
\* near as a double can be to it (exactly, when a double can be it); neither a
\* NaN nor an initializer of the fold reaches the output, and the slots of
\* undocumented types are left as they were.
StatsHonest ==
    \A r \in Runs : result[r].ok /\ result[r].extras # NoExtras =>
       LET payloads == {f.extras : f \in {f \in ToSet(inputs[r]) : f.extras # NoExtras}}
       IN  \A i \in DOMAIN result[r].extras.fields :
              LET merged == result[r].extras.fields[i]
                  fields == {p.fields[i] : p \in payloads}
                  mins(a) == {n \in {Number(d.type, d.min[a]) :
                                       d \in {d \in fields : "min" \in d.options}} : Finite(n)}
                  maxs(a) == {n \in {Number(d.type, d.max[a]) :
                                       d \in {d \in fields : "max" \in d.options}} : Finite(n)}
                  least(S)    == {n \in S : \A m \in S : n <= m}
                  greatest(S) == {n \in S : \A m \in S : n >= m}
                  untouched == {[d EXCEPT !.options = merged.options] : d \in fields}
                  \* a slot nothing was folded into is zero
                  Is(raw, S) == IF S = {} THEN raw = 0
                                ELSE \E n \in S : AsNear(merged.type, Number(merged.type, raw), n)
              IN  IF merged.type = "raw"
                  THEN merged.options \cap {"min", "max"} = {} /\ merged \in untouched
                  ELSE /\ "min" \in merged.options <=> mins(1) # {}
                       /\ "max" \in merged.options <=> maxs(1) # {}
                       /\ "min" \in merged.options =>
                             \A a \in 1 .. Axes : Is(merged.min[a], least(mins(a)))
                       /\ "max" \in merged.options =>
                             \A a \in 1 .. Axes : Is(merged.max[a], greatest(maxs(a)))

\* Every coordinate within the files' bounds is encoded without saturating:
\* decoding gives it back to half a step, around the offset of the first
\* file or the one put in its place.
NoSaturation ==
    \A r \in Runs : stage[r] = "creating" =>
       LET e == Encoding(inputs[r])
       IN  /\ e.scale >= inputs[r][1].scale
           /\ \A f \in ToSet(inputs[r]) : \A x \in f.low .. f.high :
                 2 * Distance(Decode(e, Encode(e, x)), x) <= e.scale

\* What is written holds the points of this run, once: nothing of a run
\* that crashed under the same process id, or that runs beside it.
OutputOwn == \A r \in Runs : stage[r] = "written" => output[r] = <<r>>

\* Scratch space is given back: a directory stays behind only a process that
\* died or could not open it.  The state is of its type.
CleanedUp ==
    /\ TypeOK
    /\ \A p \in Pids : dir[p].there =>
       \E r \in Runs : pid[r] = p /\ (Live(r) \/ stage[r] \in {"crashed", "unopened"})

\* "Remove any leftover temp dir from a previous run": no step removes the
\* directory of a run that is still using it, other than its own end.
NeverPulled ==
    [][\A r \in Runs : builder[r] /\ builder'[r] /\ InDir(r) => InDir(r)']_vars
=============================================================================
