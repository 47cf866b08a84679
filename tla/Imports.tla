------------------------------ MODULE Imports -------------------------------
(***************************************************************************)
(* One import job (service_extraction/extract.py, incremental.py): each    *)
(* run reads the rows of a database that are past the job's watermark,     *)
(* adds them to the dataset the job maintains, and moves the watermark.    *)
(* The dataset is committed first, the watermark with the end of the run.  *)
(*                                                                         *)
(* A row is known by its key; its cursor says when it was last written, so *)
(* <<key, cursor>> is one version of a row.  A dataset is a bag of them.   *)
(***************************************************************************)
EXTENDS Naturals, FiniteSets, FiniteSetsExt

CONSTANTS
    RowKey,
    MaxCursor,     \* bound on writes of the source
    MaxRows,       \* rows a run may read (max_rows)
    Importer,      \* the requests and workers that run the job
    MaxStops,      \* bound on runs that stop early, resets and edits
    RunsOverlap,   \* the job is run again before its run has ended
    CursorsTie,    \* rows share a cursor value
    RowsComeLate,  \* a row appears behind the newest, as slow transactions commit it
    ReadsFail      \* the storage cannot give the dataset's file to a run

ASSUME ImportAssumption ==
    /\ RowKey # {} /\ IsFiniteSet(RowKey) /\ IsFiniteSet(Importer)
    /\ MaxRows \in Nat \ {0} /\ MaxCursor \in Nat \ {0} /\ MaxStops \in Nat

VARIABLES
    source,     \* [RowKey -> its cursor, 0 while it is not there]
    job,        \* [mode, mark, target]: ExtractionJob's row
    data,       \* [Dataset -> [Version -> how often the dataset holds it]]
    runner,     \* [Importer -> [at, mode, mark, target, rows, table]]
    stops,
    happened      \* what happened to the job so far

importVars == <<source, job, data, runner, stops, happened>>

Mode == {"full_refresh", "incremental_append", "incremental_merge"}
Version == RowKey \X (1..MaxCursor)
Dataset == 1..(MaxStops + Cardinality(Importer) + 1)
NoRows == [v \in Version |-> 0]
Upset == {"stopped between", "reset", "mode changed", "deleted"}
Gone == [v \in Version |-> MaxStops + 3]   \* a dataset that is not there
Exists(d) == d # 0 /\ data[d] # Gone

RunnerRests == [at |-> "idle", mode |-> "full_refresh", mark |-> 0, target |-> 0,
                rows |-> {}, table |-> NoRows]

ImportsTypeOK ==
    /\ source \in [RowKey -> 0..MaxCursor]
    /\ job \in [mode : Mode, mark : 0..MaxCursor, target : Dataset \cup {0}]
    /\ DOMAIN data = Dataset
    /\ \A d \in Dataset : data[d] = Gone \/ data[d] \in [Version -> 0..(MaxStops + 2)]
    /\ \A q \in Importer :
         /\ runner[q].at \in {"idle", "reading", "combining", "publishing", "advancing"}
         /\ runner[q].mode \in Mode
         /\ runner[q].mark \in 0..MaxCursor
         /\ runner[q].target \in Dataset \cup {0}
         /\ runner[q].rows \subseteq Version /\ Cardinality(runner[q].rows) <= MaxRows
         /\ runner[q].table \in [Version -> 0..(MaxStops + 2)]
    /\ stops \in 0..MaxStops
    /\ happened \subseteq Upset

ImportsInit ==
    /\ source = [k \in RowKey |-> 0]
    /\ job \in [mode : {"incremental_append", "incremental_merge"}, mark : {0}, target : {0}]
    /\ data = [d \in Dataset |-> Gone]
    /\ runner = [q \in Importer |-> RunnerRests]
    /\ stops = 0
    /\ happened = {}

-----------------------------------------------------------------------------
(* The source.                                                             *)

Newest == Max({source[k] : k \in RowKey})

SourceWrites(k, cursor) ==
    /\ cursor # source[k]
    /\ \/ cursor = Newest + 1
       \/ cursor = Newest /\ cursor > 0 /\ CursorsTie
       \/ cursor < Newest /\ source[k] = 0 /\ RowsComeLate
    /\ source' = [source EXCEPT ![k] = cursor]
    /\ UNCHANGED <<job, data, runner, stops, happened>>

-----------------------------------------------------------------------------
(* A run.                                                                  *)

RunnerAt(q, point) == runner[q].at = point

\* The job's row is read here and not again before the first commit.
StartImport(q) ==
    /\ RunnerAt(q, "idle")
    /\ RunsOverlap \/ \A other \in Importer : RunnerAt(other, "idle")
    /\ runner' = [runner EXCEPT ![q] = [RunnerRests EXCEPT
                    !.at = "reading", !.mode = job.mode, !.mark = job.mark, !.target = job.target]]
    /\ UNCHANGED <<source, job, data, stops, happened>>

Present == {v \in Version : source[v[1]] = v[2]}

PastTheMark(mark) == {v \in Present : v[2] > mark}

\* Mutant: the rows come in no order.
AnyRows(rows) == {b \in SUBSET rows : Cardinality(b) = Min({MaxRows, Cardinality(rows)})}

\* The first MaxRows in the order of the cursor, equal cursors in any order.
ReadBatches(rows) ==
    {b \in SUBSET rows :
        /\ Cardinality(b) = Min({MaxRows, Cardinality(rows)})
        /\ \A in \in b, out \in rows \ b : in[2] <= out[2]}

ReadSource(q) ==
    LET r == runner[q] IN
    /\ RunnerAt(q, "reading")
    /\ \E batch \in IF r.mode = "full_refresh"
                    THEN {b \in SUBSET Present :
                              Cardinality(b) = Min({MaxRows, Cardinality(Present)})}
                    ELSE ReadBatches(PastTheMark(r.mark)) :
         runner' = [runner EXCEPT ![q].at = "combining", ![q].rows = batch]
    /\ UNCHANGED <<source, job, data, stops, happened>>

Merged(mode, existing, rows) ==
    LET Replaced(v) == mode = "incremental_merge" /\ \E r \in rows : r[1] = v[1] IN
    [v \in Version |-> (IF mode = "full_refresh" \/ Replaced(v) THEN 0 ELSE existing[v])
                       + (IF v \in rows THEN 1 ELSE 0)]

\* A dataset that cannot be read counts as one that is not there.
Existing(target) ==
    (IF Exists(target) THEN {data[target]} ELSE {NoRows}) \cup (IF ReadsFail THEN {NoRows} ELSE {})

Combine(q) ==
    LET r == runner[q] IN
    /\ RunnerAt(q, "combining")
    /\ \E existing \in Existing(r.target) :
         runner' = [runner EXCEPT ![q].at = "publishing",
                                  ![q].table = Merged(r.mode, existing, r.rows)]
    /\ UNCHANGED <<source, job, data, stops, happened>>

\* A new dataset when there is none yet, or when it has been deleted.
Publish(q) ==
    LET r == runner[q]
        fresh == {d \in Dataset : data[d] = Gone /\ d # job.target
                                    /\ \A p \in Importer : runner[p].target # d}
        into == IF Exists(r.target) THEN r.target ELSE Min(fresh) IN
    /\ RunnerAt(q, "publishing")
    /\ data' = [data EXCEPT ![into] = r.table]
    /\ runner' = [runner EXCEPT ![q].at = "advancing", ![q].target = into]
    /\ UNCHANGED <<source, job, stops, happened>>

\* Mutant: up to the newest row there is, whether it was read or not.
NewestThereIs(rows) == Max({v[2] : v \in Present})

\* compute_watermark
TopOf(rows) == Max({v[2] : v \in rows})

Advance(q) ==
    LET r == runner[q] IN
    /\ RunnerAt(q, "advancing")
    /\ job' = [job EXCEPT !.target = r.target,
                          !.mark = IF job.mode # "full_refresh" /\ r.rows # {}
                                   THEN TopOf(r.rows) ELSE @]
    /\ runner' = [runner EXCEPT ![q] = RunnerRests]
    /\ UNCHANGED <<source, data, stops, happened>>

-----------------------------------------------------------------------------
(* What happens beside.                                                    *)

Happens(what) ==
    /\ stops < MaxStops /\ stops' = stops + 1
    /\ happened' = happened \cup {what}

\* Before the first commit a run that fails, or whose process dies, leaves nothing.
StopsEarly(q) ==
    /\ runner[q].at \in {"reading", "combining", "publishing"}
    /\ stops < MaxStops /\ stops' = stops + 1
    /\ runner' = [runner EXCEPT ![q] = RunnerRests]
    /\ UNCHANGED <<source, job, data, happened>>

StopsBetween(q) ==
    /\ Happens("stopped between")
    /\ RunnerAt(q, "advancing")
    /\ runner' = [runner EXCEPT ![q] = RunnerRests]
    /\ UNCHANGED <<source, job, data>>

ResetWatermark ==
    /\ Happens("reset")
    /\ job' = [job EXCEPT !.mark = 0]
    /\ UNCHANGED <<source, data, runner>>

EditMode(mode) ==
    /\ Happens("mode changed")
    /\ job' = [job EXCEPT !.mode = mode]
    /\ UNCHANGED <<source, data, runner>>

\* The job's reference goes with the dataset (ON DELETE SET NULL).
DeleteDataset ==
    /\ Happens("deleted")
    /\ Exists(job.target)
    /\ data' = [data EXCEPT ![job.target] = Gone]
    /\ job' = [job EXCEPT !.target = 0]
    /\ UNCHANGED <<source, runner>>

ImportStep(q) == StartImport(q) \/ ReadSource(q) \/ Combine(q) \/ Publish(q) \/ Advance(q)

ImportsNext ==
    \/ \E k \in RowKey, cursor \in 1..MaxCursor : SourceWrites(k, cursor)
    \/ \E q \in Importer : ImportStep(q) \/ StopsEarly(q) \/ StopsBetween(q)
    \/ ResetWatermark \/ DeleteDataset
    \/ \E mode \in Mode : EditMode(mode)

\* The job is run again and again: it is a task of a workflow with a schedule.
ImportsFairness == \A q \in Importer : WF_importVars(ImportStep(q))

ImportsSpec == ImportsInit /\ [][ImportsNext]_importVars
FairImportsSpec == ImportsSpec /\ ImportsFairness

-----------------------------------------------------------------------------
Holds(d, v) == Exists(d) /\ data[d][v] > 0

\* Rows are appended once, unless a run stopped between its commits or someone
\* had the job read again (incremental.py:7-9); and with keys to merge on a
\* key is in the dataset once whatever was read again (incremental.py:10-12).
LoadedOnce ==
    \A d \in Dataset : Exists(d) =>
        /\ job.mode = "incremental_append"
              /\ happened \cap {"stopped between", "reset", "mode changed"} = {} =>
             \A v \in Version : data[d][v] <= 1
        /\ job.mode = "incremental_merge" /\ "mode changed" \notin happened =>
             \A v, w \in Version : data[d][v] > 0 /\ data[d][w] > 0 /\ v[1] = w[1] =>
                                       v = w /\ data[d][v] = 1

\* The watermark is moved only after the rows are stored, so that a failed run
\* skips nothing (extract.py:412-413): a row behind it is in the dataset, as
\* long as nobody took the dataset away or loaded it in another way.
NothingSkipped ==
    happened \cap {"mode changed", "deleted"} = {} =>
        \A k \in RowKey :
            0 < source[k] /\ source[k] <= job.mark => Holds(job.target, <<k, source[k]>>)

\* Rows that come faster than max_rows, and runs that fail, only delay it:
\* once the source is quiet the dataset has every row as it is.
EveryRowArrives ==
    <>[](\/ happened \cap {"mode changed", "deleted"} # {}
         \/ \A k \in RowKey : source[k] > 0 => Holds(job.target, <<k, source[k]>>))

\* What holds of an import at every moment: no row is there twice, and none behind the
\* watermark is missing (run_extraction_job).
ImportSafety ==
    /\ ImportsTypeOK
    /\ LoadedOnce
    /\ NothingSkipped
=============================================================================
