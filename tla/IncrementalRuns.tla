--------------------------- MODULE IncrementalRuns ---------------------------
(***************************************************************************)
(* Runs of a recipe that compute only what changed                         *)
(* (service_transformations/incremental.py, run.py): a run builds on what  *)
(* the last one read and made, or, in full, on an input kept in memory     *)
(* (prefix_cache.py), while the input gets new versions and a person's     *)
(* data is erased from all of them (service_enterprise/service.py).        *)
(*                                                                         *)
(* A row is an identity, the partition it is in and a value.  A result is  *)
(* a sequence of pieces, each with the rows it was made from.              *)
(***************************************************************************)
EXTENDS Naturals, Sequences, FiniteSets, SequencesExt

CONSTANTS
    Maker,              \* the requests and workers that run the recipe
    Part,               \* values of the partition column
    MaxMakes,           \* bound on runs
    MaxRevisions,       \* bound on edits, new versions, prunes, erasures and deaths
    PublishMeanwhile    \* a dataset gets a version between two reads of it by one run,
                        \* or while an erasure rewrites its files

ASSUME IncrementalAssumption ==
    /\ Part # {}
    /\ MaxMakes \in Nat /\ MaxRevisions \in Nat /\ PublishMeanwhile \in BOOLEAN

VARIABLES
    recipe,      \* [kind, steps, mode]
    files,       \* the input's versions: what each one's file holds
    hashes,      \* the content hash recorded with each, as the content it stands for
    joined,      \* the version of the dataset a join reads
    latest,      \* the last run that succeeded, as its record tells
    result,      \* the output dataset, with the run that wrote it
    making,      \* [Maker -> a run that is going on]
    kept,        \* inputs in memory: [of, hash, frame]
    erasing,     \* [at, left]: the versions an erasure has yet to rewrite
    makes, revisions

inputVars == <<files, hashes, joined, erasing>>
incrementalVars == <<recipe, inputVars, latest, result, making, kept, makes, revisions>>

Kind == {"row by row", "joins", "groups by partition", "sorts"}
BuildMode == {"append", "partition"}
Row == [id : 1..(MaxRevisions + 1), part : Part, value : {"hers", "plain", "changed", "erased"}]
Piece == [from : SUBSET Row, steps : 0..MaxRevisions, joined : 0..MaxRevisions]
Newest == Len(files)

NoMake == [base |-> 0, steps |-> 0, joined |-> 0, made |-> <<>>, read |-> <<>>,
           full |-> TRUE, after |-> FALSE, mixed |-> FALSE]
MakerRests == [at |-> "idle", run |-> NoMake, file |-> 0, hash |-> <<>>, mode |-> "full",
               prev |-> NoMake, before |-> <<>>, loaded |-> FALSE]

IncrementalTypeOK ==
    /\ recipe \in [kind : Kind, steps : 0..MaxRevisions, mode : BuildMode \cup {"full"}]
    /\ Newest \in 1..(MaxRevisions + 1) /\ Len(hashes) = Newest
    /\ \A n \in 1..Newest : files[n] \in Seq(Row) /\ hashes[n] \in Seq(Row)
    /\ joined \in 0..MaxRevisions
    /\ \A run \in {latest, result} \cup {making[q].run : q \in Maker} :
         /\ run.base \in 0..Newest /\ run.made \in Seq(Piece) /\ run.read \in Seq(Row)
         /\ run.steps \in 0..MaxRevisions /\ run.joined \in 0..MaxRevisions
    /\ \A q \in Maker :
         /\ making[q].at \in {"idle", "named", "pinned", "before", "now", "in full",
                              "applying", "publishing", "recording"}
         /\ making[q].mode \in BuildMode \cup {"full"}
         /\ making[q].file \in 0..Newest
    /\ \A k \in kept : k.of \in 1..Newest
    /\ erasing.at \in {"none", "rewriting", "done"} /\ erasing.left \subseteq 1..Newest
    /\ makes \in 0..MaxMakes /\ revisions \in 0..MaxRevisions

IncrementalInit ==
    /\ recipe \in [kind : Kind, steps : {0}, mode : BuildMode]
    /\ LET p == CHOOSE p \in Part : TRUE   \* any: partitions differ in nothing else
       IN files = << <<[id |-> 1, part |-> p, value |-> "hers"]>> >>
    /\ hashes = files
    /\ joined = 0
    /\ latest = NoMake /\ result = NoMake
    /\ making = [q \in Maker |-> MakerRests]
    /\ kept = {}
    /\ erasing = [at |-> "none", left |-> {}]
    /\ makes = 0 /\ revisions = 0

-----------------------------------------------------------------------------
(* What the steps make of rows.                                            *)

\* The elements of S, in the order of the sequence.
Those(seq, S) ==
    LET upto[n \in 0..Len(seq)] ==
            IF n = 0 THEN <<>>
            ELSE IF seq[n] \in S THEN Append(upto[n - 1], seq[n]) ELSE upto[n - 1]
    IN upto[Len(seq)]

RowsIn(rows, p) == Those(rows, {row \in ToSet(rows) : row.part = p})
PartsOf(rows) == {row.part : row \in ToSet(rows)}

\* A full run of the steps.
Made(rows, steps, other) ==
    LET Of(from) == [from |-> from, steps |-> steps,
                     joined |-> IF recipe.kind = "joins" THEN other ELSE 0] IN
    CASE recipe.kind \in {"row by row", "joins"} ->
             [i \in DOMAIN rows |-> Of({rows[i]})]
      [] recipe.kind = "groups by partition" ->
             SetToSeq({Of(ToSet(RowsIn(rows, p))) : p \in PartsOf(rows)})
      [] OTHER -> IF rows = <<>> THEN <<>> ELSE <<Of(ToSet(rows))>>

\* Partition runs give the rows in another order.
Same(made, full) == Len(made) = Len(full) /\ ToSet(made) = ToSet(full)

PartOf(piece) == (CHOOSE row \in piece.from : TRUE).part

\* why_not: whether the steps can run in this mode.
Allowed(mode, prev, other) ==
    CASE recipe.kind = "row by row" -> TRUE
      [] recipe.kind = "joins" -> prev.joined = other
      [] recipe.kind = "groups by partition" -> mode = "partition"
      [] OTHER -> FALSE

-----------------------------------------------------------------------------
(* A run.                                                                  *)

Happens == revisions < MaxRevisions /\ revisions' = revisions + 1
MakerAt(q, point) == making[q].at = point
KeepsInput == UNCHANGED <<recipe, inputVars, makes, revisions>>

\* The recipe's steps and the head's file are read, and then the head's number.
StartMake(q) ==
    /\ MakerAt(q, "idle") /\ makes < MaxMakes
    /\ makes' = makes + 1
    /\ making' = [making EXCEPT ![q] = [MakerRests EXCEPT
                    !.at = "named", !.file = Newest,
                    !.run = [NoMake EXCEPT !.steps = recipe.steps, !.after = erasing.at = "done"]]]
    /\ UNCHANGED <<recipe, inputVars, latest, result, kept, revisions>>

\* Mutant: the number the next version gets.
NextPin == Newest + 1

HeadPin == Newest

PinBase(q) ==
    /\ MakerAt(q, "named")
    /\ making' = [making EXCEPT ![q] = [@ EXCEPT !.at = "pinned", !.run.base = HeadPin]]
    /\ KeepsInput /\ UNCHANGED <<latest, result, kept>>

Incremental(run) ==
    /\ latest.base # 0
    /\ latest.steps = run.steps
    /\ Allowed(recipe.mode, latest, joined)

\* Mutant: a file that is kept is known by its path.
PathOnly(n) == <<>>

\* stored_file_identity: by its path and by the hash that is recorded.
Identity(n) == hashes[n]

Decide(q) ==
    LET m == making[q]
        incremental == recipe.mode # "full" /\ Incremental(m.run) IN
    /\ MakerAt(q, "pinned")
    /\ making' = [making EXCEPT ![q] = [@ EXCEPT
                    !.at = IF incremental THEN "before" ELSE "in full",
                    !.mode = IF incremental THEN recipe.mode ELSE "full",
                    !.prev = IF incremental THEN latest ELSE NoMake,
                    !.run = [m.run EXCEPT !.full = ~incremental, !.joined = joined],
                    !.hash = Identity(m.file)]]
    /\ KeepsInput /\ UNCHANGED <<latest, result, kept>>

ReadBefore(q) ==
    /\ MakerAt(q, "before")
    /\ making' = [making EXCEPT ![q] = [@ EXCEPT
                    !.at = "now", !.before = files[making[q].prev.base]]]
    /\ KeepsInput /\ UNCHANGED <<latest, result, kept>>

\* Mutant: the number of rows shows what was added.
LongerIsEnough(before, now) == Len(before) <= Len(now)

\* The rows the last run read are there, unchanged, first.
OnlyAdded(before, now) == IsPrefix(before, now)

Changed(before, now) == {p \in Part : RowsIn(before, p) # RowsIn(now, p)}

Fresh(m, now) ==
    IF m.mode = "append" THEN SubSeq(now, Len(m.before) + 1, Len(now))
    ELSE Those(now, {row \in ToSet(now) : row.part \in Changed(m.before, now)})

Remains(m, now) ==
    IF m.mode = "append" THEN m.prev.made
    ELSE Those(m.prev.made, {piece \in ToSet(m.prev.made) :
                                 PartOf(piece) \notin Changed(m.before, now)})

\* What the last run read is compared with what there is now.
ReadNow(q) ==
    LET m == making[q]
        now == files[m.file]
        apart == m.mode = "append" /\ ~OnlyAdded(m.before, now) IN
    /\ MakerAt(q, "now")
    /\ making' = [making EXCEPT ![q] = [@ EXCEPT
                    !.at = IF apart THEN "in full" ELSE "applying",
                    !.mode = IF apart THEN "full" ELSE m.mode,
                    !.run = [m.run EXCEPT !.full = apart, !.read = now,
                                          !.mixed = ~apart /\ (m.prev.mixed \/
                                              (erasing.at # "none" /\ m.before # m.prev.read))],
                    !.loaded = TRUE]]
    /\ KeepsInput /\ UNCHANGED <<latest, result, kept>>

\* run_steps: from memory, where this process still keeps it, or from the file,
\* read now or when it was compared.
ReadInFull(q) ==
    LET m == making[q]
        there == {k \in kept : k.of = m.file /\ k.hash = m.hash} IN
    /\ MakerAt(q, "in full")
    /\ \/ \E k \in there :
            /\ making' = [making EXCEPT ![q] = [@ EXCEPT !.at = "applying", !.run.read = k.frame]]
            /\ UNCHANGED kept
       \/ \E read \in {files[m.file]} \cup (IF m.loaded THEN {m.run.read} ELSE {}) :
            /\ making' = [making EXCEPT ![q] = [@ EXCEPT !.at = "applying", !.run.read = read]]
            /\ kept' = (kept \ there) \cup {[of |-> m.file, hash |-> m.hash, frame |-> read]}
    /\ KeepsInput /\ UNCHANGED <<latest, result>>

\* The joined dataset is read when there are rows to join.
Apply(q) ==
    LET m == making[q]
        now == m.run.read
        rows == IF m.mode = "full" THEN now ELSE Fresh(m, now)
        other == IF rows = <<>> THEN m.run.joined ELSE joined
        remains == IF m.mode = "full" THEN <<>> ELSE Remains(m, now) IN
    /\ MakerAt(q, "applying")
    /\ \/ making' = [making EXCEPT ![q] = [MakerRests EXCEPT
                        !.at = "publishing",
                        !.run = [m.run EXCEPT !.joined = other,
                                     !.made = remains \o Made(rows, m.run.steps, other)]]]
       \/ \* A step refuses the rows on their own: the run is done in full.
          /\ m.mode # "full"
          /\ making' = [making EXCEPT ![q] = [@ EXCEPT
                          !.at = "in full", !.mode = "full", !.prev = NoMake, !.before = <<>>,
                          !.run = [m.run EXCEPT !.full = TRUE, !.mixed = FALSE]]]
    /\ KeepsInput /\ UNCHANGED <<latest, result, kept>>

\* The version of the output is one commit ...
PublishMade(q) ==
    /\ MakerAt(q, "publishing")
    /\ result' = making[q].run
    /\ making' = [making EXCEPT ![q].at = "recording"]
    /\ KeepsInput /\ UNCHANGED <<latest, kept>>

\* ... and the end of the run another.
RecordMade(q) ==
    /\ MakerAt(q, "recording")
    /\ latest' = making[q].run
    /\ making' = [making EXCEPT ![q] = MakerRests]
    /\ KeepsInput /\ UNCHANGED <<result, kept>>

\* It fails, or its process dies.
MakerStops(q) ==
    /\ ~MakerAt(q, "idle")
    /\ Happens
    /\ making' = [making EXCEPT ![q] = MakerRests]
    /\ UNCHANGED <<recipe, inputVars, latest, result, kept, makes>>

MakeStep(q) ==
    \/ StartMake(q) \/ PinBase(q) \/ Decide(q) \/ ReadBefore(q) \/ ReadNow(q)
    \/ ReadInFull(q) \/ Apply(q) \/ PublishMade(q) \/ RecordMade(q)

-----------------------------------------------------------------------------
(* What happens to the input, the recipe and the versions.                 *)

NewVersion(rows) ==
    /\ Happens
    /\ \/ PublishMeanwhile
       \/ erasing.at # "rewriting" /\ \A q \in Maker : ~MakerAt(q, "named")
    /\ files' = Append(files, rows)
    /\ hashes' = Append(hashes, rows)
    /\ UNCHANGED <<recipe, joined, erasing, latest, result, making, kept, makes>>

Changes(rows) ==
    {Append(rows, [id |-> Newest + 1, part |-> p, value |-> "plain"]) : p \in Part}
        \cup {[rows EXCEPT ![i].value = "changed"] : i \in DOMAIN rows}

\* An append, a correction or a rollback.
InputChanges ==
    \E rows \in Changes(files[Newest]) \cup {files[n] : n \in 1..(Newest - 1)} : NewVersion(rows)

JoinedChanges ==
    /\ recipe.kind = "joins"
    /\ Happens
    /\ PublishMeanwhile \/ \A q \in Maker : making[q].at \in {"idle", "publishing", "recording"}
    /\ joined' = joined + 1
    /\ UNCHANGED <<recipe, files, hashes, erasing, latest, result, making, kept, makes>>

EditRecipe(mode) ==
    /\ Happens
    /\ \/ recipe' = [recipe EXCEPT !.steps = revisions + 1]
       \/ recipe' = [recipe EXCEPT !.mode = mode]
    /\ UNCHANGED <<inputVars, latest, result, making, kept, makes>>

\* The versions the last run read or made are pruned: nothing builds on it any
\* more, and a run that had yet to read them fails.
PruneLatest ==
    /\ latest # NoMake
    /\ Happens
    /\ latest' = NoMake
    /\ making' = [q \in Maker |-> IF making[q].at \in {"before", "now"} THEN MakerRests
                                  ELSE making[q]]
    /\ UNCHANGED <<recipe, inputVars, result, kept, makes>>

\* request_erasure: a person who is not in the current version is not looked for
\* in the earlier ones.
BeginErasure ==
    /\ erasing.at = "none"
    /\ \E i \in DOMAIN files[Newest] : files[Newest][i].value = "hers"
    /\ Happens
    /\ erasing' = [at |-> "rewriting", left |-> 1..Newest]
    /\ UNCHANGED <<recipe, files, hashes, joined, latest, result, making, kept, makes>>

Redacted(rows) ==
    [i \in DOMAIN rows |-> IF rows[i].value = "hers" THEN [rows[i] EXCEPT !.value = "erased"]
                           ELSE rows[i]]

\* The head's file first.
RewriteFile ==
    LET n == IF Newest \in erasing.left THEN Newest
             ELSE CHOOSE n \in erasing.left : \A o \in erasing.left : n <= o IN
    /\ erasing.at = "rewriting" /\ erasing.left # {}
    /\ files' = [files EXCEPT ![n] = Redacted(@)]
    /\ erasing' = [erasing EXCEPT !.left = @ \ {n}]
    /\ UNCHANGED <<recipe, hashes, joined, latest, result, making, kept, makes, revisions>>

CommitErasure ==
    /\ erasing.at = "rewriting" /\ erasing.left = {}
    /\ hashes' = files
    /\ erasing' = [erasing EXCEPT !.at = "done"]
    /\ UNCHANGED <<recipe, files, joined, latest, result, making, kept, makes, revisions>>

IncrementalNext ==
    \/ \E q \in Maker : MakeStep(q) \/ MakerStops(q)
    \/ InputChanges \/ JoinedChanges
    \/ \E mode \in BuildMode \cup {"full"} : EditRecipe(mode)
    \/ PruneLatest \/ BeginErasure \/ RewriteFile \/ CommitErasure

IncrementalSpec == IncrementalInit /\ [][IncrementalNext]_incrementalVars

-----------------------------------------------------------------------------
\* Whatever a run kept from the last one, the result is what a full run makes of
\* the same input (incremental.py:22-23, "the same rows and values as a full
\* run"), unless an erasure rewrote what the last run had read.
AsAFullRun ==
    result.mixed \/ Same(result.made, Made(result.read, result.steps, result.joined))

\* A full run that begins after an erasure finds nothing of the person, neither
\* in a file nor kept in memory (prefix_cache.py:7-9).
ErasedIsGone ==
    result.after /\ result.full =>
        \A i \in DOMAIN result.made : \A row \in result.made[i].from : row.value # "hers"
=============================================================================
