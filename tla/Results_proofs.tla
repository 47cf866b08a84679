--------------------------- MODULE Results_proofs ---------------------------
(***************************************************************************)
(* Theorems about what a run leaves.                                       *)
(*                                                                         *)
(* Of a workflow (WorkflowExecution), for any graphs without a cycle, any  *)
(* number of tasks and of runs: gates agree with how the tasks before      *)
(* ended, what a run records is what it was made from, and a chain of      *)
(* pick-ups does no work twice.                                            *)
(*                                                                         *)
(* Of a recipe (IncrementalRuns), for any number of runs at once and any   *)
(* partitions: what a run keeps from the last one and what it adds are     *)
(* what a full run makes, and nothing of an erased person comes back.      *)
(***************************************************************************)
EXTENDS MCResults, FiniteSetTheorems, SequenceTheorems, WellFoundedInduction, TLAPS

(***************************************************************************)
(* Runs of a workflow: what the variables hold, and the gates.             *)
(***************************************************************************)

Status == {"absent", "queued", "running", "succeeded", "failed", "partial"}
Stage == {"between", "working", "failed", "unresolved", "succeeded"}
Place == [task: 0 .. Tasks, stage: Stage, tries: Nat, output: Nat]
RunRow == [status: Status, resumes: 0 .. Runs, version: Nat, graph: Graphs,
        revision: [Task -> Settings], at: Place]
Result == [status: {"none", "skipped", "succeeded", "failed"},
           settings: Fingerprint, output: Nat, reused: BOOLEAN]
Work == [task: Task, run: Run, settings: Fingerprint, input: Nat,
         after: UNION {[S -> Nat] : S \in SUBSET Task}]

Shaped ==
    /\ graph \in Graphs
    /\ revision \in [Task -> Settings]
    /\ filled \in BOOLEAN
    /\ version \in Nat
    /\ runs \in [Run -> RunRow]
    /\ records \in [Run -> [Task -> Result]]
    /\ made \in Seq(Work)
    /\ deaths \in Nat

\* What validate_graph lets through: links between tasks, none of them in a circle.
LEMMA GraphsAreRight ==
    ASSUME NEW g \in Graphs
    PROVE  /\ g.uses \in [Task -> 0 .. Tasks]
           /\ g.retries \in [Task -> Nat]
           /\ \A l \in g.links : l.from \in Task /\ l.to \in Task /\ l.condition \in Condition
           /\ \A t \in Task : Upstream(g, t) \subseteq Task
           /\ Levels(g) \in [Task -> 0 .. Tasks - 1]
           /\ AreLevels(Levels(g), g)
  <1>1. /\ g.uses \in [Task -> 0 .. Tasks]
        /\ g.retries \in [Task -> Nat]
        /\ \A l \in g.links : l.from \in Task /\ l.to \in Task /\ l.condition \in Condition
    BY ExecutionAssumption
  <1>2. \A t \in Task : Upstream(g, t) \subseteq Task
    BY <1>1 DEF Upstream
  <1>3. \E level \in [Task -> 0 .. Tasks - 1] : AreLevels(level, g)
    BY ExecutionAssumption
  <1>4. Levels(g) \in [Task -> 0 .. Tasks - 1] /\ AreLevels(Levels(g), g)
    BY <1>3 DEF Levels
  <1>5. QED
    BY <1>1, <1>2, <1>4

\* The states of a run that _execute_workflow_run has not loaded yet.
Unstarted == {"absent", "queued"}

\* One run's row is replaced, the other runs are left alone.
Becomes(r, row) == row \in RunRow /\ runs' = [runs EXCEPT ![r] = row]

Moved(r, place) == [runs[r] EXCEPT !.at = place]

\* What each step of an execution makes of the run's row.
LEMMA RowSteps ==
    ASSUME Shaped, NEW r \in Run
    PROVE  /\ Queue(r) => Becomes(r, [runs[r] EXCEPT !.status = "queued"])
           /\ \A e \in Run : Resume(r, e) =>
                Becomes(r, [runs[r] EXCEPT !.status = "queued", !.resumes = e])
           /\ Start(r) =>
                Becomes(r, [runs[r] EXCEPT !.status = IF filled THEN "running" ELSE "failed",
                                           !.version = version, !.graph = graph,
                                           !.revision = revision])
           /\ \A t \in Task : Begin(r, t) =>
                Becomes(r, Moved(r, [task |-> t, stage |-> "working", tries |-> 1, output |-> 0]))
           /\ Succeed(r) =>
                Becomes(r, Moved(r, [runs[r].at EXCEPT !.stage = "succeeded",
                                                       !.output = Len(made) + 1]))
           /\ Fail(r) => Becomes(r, Moved(r, [runs[r].at EXCEPT !.stage = "failed"]))
           /\ Unresolved(r) => Becomes(r, Moved(r, [runs[r].at EXCEPT !.stage = "unresolved"]))
           /\ Retry(r) =>
                Becomes(r, Moved(r, [runs[r].at EXCEPT !.stage = "working",
                                                       !.tries = runs[r].at.tries + 1]))
           /\ Record(r) => Becomes(r, Moved(r, Between))
           /\ Finish(r) => Becomes(r, [runs[r] EXCEPT !.status = Verdict(r)])
           /\ StaleRow(r) \/ Death(r) =>
                Becomes(r, [runs[r] EXCEPT !.status = "failed", !.at = Between])
  <1>1. runs[r] \in RunRow /\ runs \in [Run -> RunRow]
    BY DEF Shaped
  <1>2. runs[r].at \in Place
    BY <1>1 DEF RunRow
  <1>3. Between \in Place
    BY ExecutionAssumption DEF Between, Place, Stage
  <1>4. ASSUME Queue(r) PROVE Becomes(r, [runs[r] EXCEPT !.status = "queued"])
    <2>1. [runs[r] EXCEPT !.status = "queued"] \in RunRow
      BY <1>1 DEF RunRow, Status
    <2>2. runs' = [runs EXCEPT ![r] = [runs[r] EXCEPT !.status = "queued"]]
      BY <1>4, <1>1 DEF Queue
    <2>3. QED
      BY <2>1, <2>2 DEF Becomes
  <1>5. ASSUME NEW e \in Run, Resume(r, e)
        PROVE  Becomes(r, [runs[r] EXCEPT !.status = "queued", !.resumes = e])
    <2>0. e \in 0 .. Runs
      BY ExecutionAssumption DEF Run
    <2>1. [runs[r] EXCEPT !.status = "queued", !.resumes = e] \in RunRow
      BY <1>1, <2>0 DEF RunRow, Status
    <2>2. runs' = [runs EXCEPT ![r] = [runs[r] EXCEPT !.status = "queued", !.resumes = e]]
      BY <1>5, <1>1 DEF Resume
    <2>3. QED
      BY <2>1, <2>2 DEF Becomes
  <1>6. ASSUME Start(r)
        PROVE  Becomes(r, [runs[r] EXCEPT !.status = IF filled THEN "running" ELSE "failed",
                                          !.version = version, !.graph = graph,
                                          !.revision = revision])
    <2>1. [runs[r] EXCEPT !.status = IF filled THEN "running" ELSE "failed",
                          !.version = version, !.graph = graph, !.revision = revision] \in RunRow
      BY <1>1 DEF RunRow, Status, Shaped
    <2>2. QED
      BY <1>6, <2>1 DEF Becomes, Start
  <1>7. ASSUME NEW place \in Place PROVE Moved(r, place) \in RunRow
    BY <1>1, <1>7 DEF Moved, RunRow
  <1>8. ASSUME NEW t \in Task, Begin(r, t)
        PROVE  Becomes(r, Moved(r, [task |-> t, stage |-> "working", tries |-> 1, output |-> 0]))
    <2>1. [task |-> t, stage |-> "working", tries |-> 1, output |-> 0] \in Place
      BY ExecutionAssumption DEF Place, Stage, Task
    <2>2. QED
      BY <1>1, <1>7, <1>8, <2>1 DEF Begin, Becomes, Moved
  <1>9. ASSUME Succeed(r)
        PROVE  Becomes(r, Moved(r, [runs[r].at EXCEPT !.stage = "succeeded",
                                                      !.output = Len(made) + 1]))
    <2>1. Len(made) + 1 \in Nat
      BY DEF Shaped
    <2>2. [runs[r].at EXCEPT !.stage = "succeeded", !.output = Len(made) + 1] \in Place
      BY <1>2, <2>1 DEF Place, Stage
    <2>3. QED
      BY <1>1, <1>2, <1>7, <1>9, <2>2 DEF Succeed, Becomes, Moved
  <1>10. ASSUME Fail(r) PROVE Becomes(r, Moved(r, [runs[r].at EXCEPT !.stage = "failed"]))
    <2>1. [runs[r].at EXCEPT !.stage = "failed"] \in Place
      BY <1>2 DEF Place, Stage
    <2>2. QED
      BY <1>1, <1>2, <1>7, <1>10, <2>1 DEF Fail, Becomes, Moved
  <1>11. ASSUME Unresolved(r)
         PROVE  Becomes(r, Moved(r, [runs[r].at EXCEPT !.stage = "unresolved"]))
    <2>1. [runs[r].at EXCEPT !.stage = "unresolved"] \in Place
      BY <1>2 DEF Place, Stage
    <2>2. QED
      BY <1>1, <1>2, <1>7, <1>11, <2>1 DEF Unresolved, Becomes, Moved
  <1>12. ASSUME Retry(r)
         PROVE  Becomes(r, Moved(r, [runs[r].at EXCEPT !.stage = "working",
                                                       !.tries = runs[r].at.tries + 1]))
    <2>0. runs[r].at.tries + 1 \in Nat
      BY <1>2 DEF Place
    <2>1. [runs[r].at EXCEPT !.stage = "working", !.tries = runs[r].at.tries + 1] \in Place
      BY <1>2, <2>0 DEF Place, Stage
    <2>2. QED
      BY <1>1, <1>2, <1>7, <1>12, <2>1 DEF Retry, Becomes, Moved
  <1>13. ASSUME Record(r) PROVE Becomes(r, Moved(r, Between))
    BY <1>1, <1>3, <1>7, <1>13 DEF Record, Becomes, Moved
  <1>14. ASSUME Finish(r) PROVE Becomes(r, [runs[r] EXCEPT !.status = Verdict(r)])
    <2>1. Verdict(r) \in Status
      BY DEF Verdict, Status
    <2>2. QED
      BY <1>1, <1>14, <2>1 DEF Finish, Becomes, RunRow
  <1>15. ASSUME StaleRow(r) \/ Death(r)
         PROVE  Becomes(r, [runs[r] EXCEPT !.status = "failed", !.at = Between])
    <2>1. [runs[r] EXCEPT !.status = "failed", !.at = Between] \in RunRow
      BY <1>1, <1>3 DEF RunRow, Status
    <2>2. QED
      BY <1>1, <1>15, <2>1 DEF StaleRow, Death, Becomes
  <1>16. QED
    BY <1>4, <1>5, <1>6, <1>8, <1>9, <1>10, <1>11, <1>12, <1>13, <1>14, <1>15

\* The task's record is written, the other records are left alone.
Gets(r, t, got) == got \in Result /\ records' = [records EXCEPT ![r][t] = got]

\* What the steps that decide a task write for it.
LEMMA RecordSteps ==
    ASSUME Shaped, NEW r \in Run
    PROVE  /\ \A t \in Task : Skip(r, t) => Gets(r, t, [NoRecord EXCEPT !.status = "skipped"])
           /\ \A t \in Task : Reuse(r, t) =>
                /\ runs[r].resumes \in Run
                /\ Gets(r, t, [records[runs[r].resumes][t] EXCEPT !.reused = TRUE])
           /\ Record(r) /\ runs[r].at.task \in Task =>
                Gets(r, runs[r].at.task,
                     [status |-> IF runs[r].at.stage = "succeeded" THEN "succeeded" ELSE "failed",
                      settings |-> FingerprintIn(r, runs[r].at.task),
                      output |-> runs[r].at.output, reused |-> FALSE])
  <1>1. runs[r] \in RunRow /\ records \in [Run -> [Task -> Result]]
    BY DEF Shaped
  <1>2. ASSUME NEW t \in Task, Skip(r, t)
        PROVE  Gets(r, t, [NoRecord EXCEPT !.status = "skipped"])
    <2>1. NoPrint \in Fingerprint
      BY ExecutionAssumption DEF NoPrint, Fingerprint
    <2>2. [NoRecord EXCEPT !.status = "skipped"] \in Result
      BY <2>1 DEF NoRecord, Result
    <2>3. QED
      BY <1>2, <2>2 DEF Skip, Gets
  <1>3. ASSUME NEW t \in Task, Reuse(r, t)
        PROVE  /\ runs[r].resumes \in Run
               /\ Gets(r, t, [records[runs[r].resumes][t] EXCEPT !.reused = TRUE])
    <2>1. runs[r].resumes \in Run
      BY <1>1, <1>3, ExecutionAssumption DEF Reuse, Reusable, RunRow, Run
    <2>2. records[runs[r].resumes][t] \in Result
      BY <1>1, <2>1
    <2>3. [records[runs[r].resumes][t] EXCEPT !.reused = TRUE] \in Result
      BY <2>2 DEF Result
    <2>4. QED
      BY <1>3, <2>1, <2>3 DEF Reuse, Gets
  <1>4. ASSUME Record(r), runs[r].at.task \in Task
        PROVE  Gets(r, runs[r].at.task,
                    [status |-> IF runs[r].at.stage = "succeeded" THEN "succeeded" ELSE "failed",
                     settings |-> FingerprintIn(r, runs[r].at.task),
                     output |-> runs[r].at.output, reused |-> FALSE])
    <2> DEFINE t == runs[r].at.task
    <2>1. FingerprintIn(r, t) \in Fingerprint
      <3>1. runs[r].graph.uses \in [Task -> 0 .. Tasks]
        BY <1>1, GraphsAreRight DEF RunRow
      <3>2. QED
        BY <1>1, <1>4, <3>1 DEF FingerprintIn, Fingerprint, RunRow
    <2>2. runs[r].at.output \in Nat
      BY <1>1 DEF RunRow, Place
    <2>3. [status |-> IF runs[r].at.stage = "succeeded" THEN "succeeded" ELSE "failed",
           settings |-> FingerprintIn(r, t), output |-> runs[r].at.output,
           reused |-> FALSE] \in Result
      BY <2>1, <2>2 DEF Result
    <2>4. QED
      BY <1>4, <2>3 DEF Record, Gets
  <1>5. QED
    BY <1>2, <1>3, <1>4

\* The handler's work: what it used and what came before.
Effort(r) ==
    LET t == runs[r].at.task
    IN  [task |-> t, run |-> r, settings |-> FingerprintIn(r, t), input |-> Input(r, t),
         after |-> [u \in Upstream(runs[r].graph, t) |-> records[r][u].output]]

\* A handler that succeeds commits its work after what was there.
LEMMA SucceedMakes ==
    ASSUME Shaped, NEW r \in Run, Succeed(r), runs[r].at.task \in Task
    PROVE  Effort(r) \in Work /\ made' = Append(made, Effort(r))
  <1> DEFINE t == runs[r].at.task
  <1>1. runs[r] \in RunRow /\ records[r] \in [Task -> Result]
    BY DEF Shaped
  <1>2. /\ runs[r].graph.uses \in [Task -> 0 .. Tasks]
        /\ Upstream(runs[r].graph, t) \subseteq Task
    BY <1>1, GraphsAreRight DEF RunRow
  <1>3. FingerprintIn(r, t) \in Fingerprint
    BY <1>1, <1>2 DEF FingerprintIn, Fingerprint, RunRow
  <1>4. \A u \in Task : records[r][u].output \in Nat
    BY <1>1 DEF Result
  <1>5. Input(r, t) \in Nat
    <2>1. runs[r].graph.uses[t] # 0 => runs[r].graph.uses[t] \in Task
      BY <1>2, ExecutionAssumption DEF Task
    <2>2. QED
      BY <1>4, <2>1 DEF Input
  <1>6. [u \in Upstream(runs[r].graph, t) |-> records[r][u].output]
            \in UNION {[S -> Nat] : S \in SUBSET Task}
    BY <1>2, <1>4
  <1>7. Effort(r) \in Work
    BY <1>3, <1>5, <1>6 DEF Effort, Work
  <1>8. QED
    BY <1>7 DEF Succeed, Effort

-----------------------------------------------------------------------------
(* Where the runs are, and what no step takes back.                        *)

Over == {"failed", "partial", "succeeded"}

\* Only a running run is at a task, whose record is still to be written; a run
\* that was not loaded has no records.
RowPlaced(row, recorded) ==
    /\ row.status # "running" => row.at = Between
    /\ row.at.stage = "between" => row.at = Between
    /\ row.at.stage # "between" =>
         row.at.task \in Task /\ recorded[row.at.task].status = "none"
    /\ row.at.output # 0 => row.at.stage = "succeeded"
    /\ row.status \in Unstarted => \A t \in Task : recorded[t].status = "none"

AtPlace == \A r \in Run : RowPlaced(runs[r], records[r])

\* Runs are queued one after the other and pick up earlier ones that failed.
InTurn ==
    \A r \in Run :
         /\ runs[r].status = "absent" => runs[r].resumes = 0
         /\ runs[r].resumes # 0 =>
              /\ runs[r].resumes \in Run /\ runs[r].resumes < r
              /\ runs[runs[r].resumes].status \in {"failed", "partial"}
         /\ \A q \in Run : q < r /\ runs[q].status = "absent" => runs[r].status = "absent"

Placed == AtPlace /\ InTurn

\* What was decided stands: a loaded run keeps what it loaded and what it picks
\* up, an ended run keeps its row, a record is written once.
Stands ==
    /\ \A r \in Run :
         /\ runs[r].status # "absent" => runs'[r].resumes = runs[r].resumes
         /\ runs[r].status \notin Unstarted =>
              /\ runs'[r].status \notin Unstarted
              /\ runs'[r].version = runs[r].version
              /\ runs'[r].graph = runs[r].graph
              /\ runs'[r].revision = runs[r].revision
         /\ runs[r].status \in Over => runs'[r] = runs[r]
    /\ \A r \in Run, t \in Task :
         records[r][t].status # "none" => records'[r][t] = records[r][t]

\* One run's row is replaced by one in the shape of a row.
LEMMA OneRow ==
    ASSUME Shaped, NEW r \in Run, NEW row, Becomes(r, row)
    PROVE  /\ runs' \in [Run -> RunRow]
           /\ runs'[r] = row
           /\ row \in RunRow
           /\ \A q \in Run : q # r => runs'[q] = runs[q]
  BY DEF Shaped, Becomes

\* One record is written.
LEMMA OneRecord ==
    ASSUME Shaped, NEW r \in Run, NEW t \in Task, NEW got, Gets(r, t, got)
    PROVE  /\ records' \in [Run -> [Task -> Result]]
           /\ records'[r][t] = got
           /\ \A q \in Run, u \in Task : q # r \/ u # t => records'[q][u] = records[q][u]
  BY DEF Shaped, Gets

\* The record that is there after a step that decides the task.
LEMMA Written ==
    ASSUME Shaped, NEW r \in Run, NEW t \in Task
    PROVE  /\ Skip(r, t) => records'[r][t] = [NoRecord EXCEPT !.status = "skipped"]
           /\ Reuse(r, t) =>
                /\ runs[r].resumes \in Run
                /\ records'[r][t] = [records[runs[r].resumes][t] EXCEPT !.reused = TRUE]
           /\ Record(r) /\ runs[r].at.task = t =>
                records'[r][t] =
                  [status |-> IF runs[r].at.stage = "succeeded" THEN "succeeded" ELSE "failed",
                   settings |-> FingerprintIn(r, t), output |-> runs[r].at.output,
                   reused |-> FALSE]
  <1>1. ASSUME NEW got, Gets(r, t, got) PROVE records'[r][t] = got
    BY <1>1, OneRecord
  <1>2. ASSUME Skip(r, t) PROVE records'[r][t] = [NoRecord EXCEPT !.status = "skipped"]
    <2>1. Gets(r, t, [NoRecord EXCEPT !.status = "skipped"])
      BY <1>2, RecordSteps
    <2>2. QED
      BY <1>1, <2>1
  <1>3. ASSUME Reuse(r, t)
        PROVE  /\ runs[r].resumes \in Run
               /\ records'[r][t] = [records[runs[r].resumes][t] EXCEPT !.reused = TRUE]
    <2>1. /\ runs[r].resumes \in Run
          /\ Gets(r, t, [records[runs[r].resumes][t] EXCEPT !.reused = TRUE])
      BY <1>3, RecordSteps
    <2>2. QED
      BY <1>1, <2>1
  <1>4. ASSUME Record(r), runs[r].at.task = t
        PROVE  records'[r][t] =
                 [status |-> IF runs[r].at.stage = "succeeded" THEN "succeeded" ELSE "failed",
                  settings |-> FingerprintIn(r, t), output |-> runs[r].at.output,
                  reused |-> FALSE]
    <2> DEFINE got ==
                 [status |-> IF runs[r].at.stage = "succeeded" THEN "succeeded" ELSE "failed",
                  settings |-> FingerprintIn(r, t), output |-> runs[r].at.output,
                  reused |-> FALSE]
    <2>1. Gets(r, t, got)
      BY <1>4, RecordSteps
    <2> HIDE DEF got
    <2>2. records'[r][t] = got
      BY <1>1, <2>1
    <2>3. QED
      BY <2>2 DEF got
  <1>5. QED
    BY <1>2, <1>3, <1>4

\* The turns are kept by a run that leaves the first of the absent ones, or that
\* picks up a failed one.
LEMMA TurnsKept ==
    ASSUME Shaped, InTurn, NEW r \in Run,
           \A q \in Run : q # r => runs'[q] = runs[q],
           runs'[r].status # "absent",
           runs[r].status = "absent" => \A q \in Run : q < r => runs[q].status # "absent",
           runs[r].status \in {"failed", "partial"} => runs'[r].status \in {"failed", "partial"},
           runs'[r].resumes # 0 =>
             /\ runs'[r].resumes \in Run /\ runs'[r].resumes < r
             /\ runs[runs'[r].resumes].status \in {"failed", "partial"}
    PROVE  InTurn'
  <1>0. \A q \in Run : q \in Nat \ {0}
    BY ExecutionAssumption DEF Run
  <1> SUFFICES ASSUME NEW q \in Run
               PROVE  /\ runs'[q].status = "absent" => runs'[q].resumes = 0
                      /\ runs'[q].resumes # 0 =>
                           /\ runs'[q].resumes \in Run /\ runs'[q].resumes < q
                           /\ runs'[runs'[q].resumes].status \in {"failed", "partial"}
                      /\ \A p \in Run : p < q /\ runs'[p].status = "absent"
                                        => runs'[q].status = "absent"
    BY DEF InTurn
  <1>1. runs'[q].status = "absent" => runs'[q].resumes = 0
    BY DEF InTurn
  <1>2. ASSUME NEW p \in Run, p < q, runs'[p].status = "absent"
        PROVE  runs'[q].status = "absent"
    <2>1. p # r /\ runs[p].status = "absent"
      BY <1>2
    <2>2. runs[q].status = "absent"
      BY <1>2, <2>1 DEF InTurn
    <2>3. q # r
      BY <1>2, <2>1, <2>2
    <2>4. QED
      BY <2>2, <2>3
  <1>3. ASSUME runs'[q].resumes # 0
        PROVE  /\ runs'[q].resumes \in Run /\ runs'[q].resumes < q
               /\ runs'[runs'[q].resumes].status \in {"failed", "partial"}
    <2>1. PICK e : e = runs'[q].resumes
      OBVIOUS
    <2>2. e \in Run /\ e < q /\ runs[e].status \in {"failed", "partial"}
      BY <1>3, <2>1 DEF InTurn
    <2>3. runs'[e].status \in {"failed", "partial"}
      BY <2>2
    <2>4. QED
      BY <2>1, <2>2, <2>3
  <1>4. QED
    BY <1>1, <1>2, <1>3

\* A step keeps all shapes and places, and nothing that was decided is undone.
LEMMA PlacedStep ==
    ASSUME Shaped, Placed, [Next]_vars
    PROVE  Shaped' /\ Placed' /\ Stands
  <1>1. /\ runs \in [Run -> RunRow] /\ records \in [Run -> [Task -> Result]]
        /\ \A r \in Run : runs[r].at \in Place
    BY DEF Shaped, RunRow
  <1>2. /\ Between \in Place /\ Between.stage = "between" /\ Between.output = 0
    BY ExecutionAssumption DEF Between, Place, Stage
  <1>3. \A r \in Run : r \in Nat \ {0}
    BY ExecutionAssumption DEF Run
  <1>4. ASSUME NEW r \in Run, Queue(r) PROVE Shaped' /\ Placed' /\ Stands
    <2>1. Becomes(r, [runs[r] EXCEPT !.status = "queued"])
      BY <1>4, RowSteps
    <2>2. /\ runs' \in [Run -> RunRow]
          /\ runs'[r] = [runs[r] EXCEPT !.status = "queued"]
          /\ \A q \in Run : q # r => runs'[q] = runs[q]
      BY <2>1, OneRow
    <2>3. Shaped'
      BY <1>4, <2>2 DEF Queue, Shaped
    <2>4. /\ runs[r].status = "absent" /\ runs'[r].status = "queued"
          /\ runs'[r].at = runs[r].at /\ runs'[r].resumes = runs[r].resumes
          /\ \A q \in Run : q < r => runs[q].status # "absent"
      BY <1>1, <1>4, <2>2 DEF Queue, IsNextRun, RunRow
    <2>5. records' = records
      BY <1>4 DEF Queue
    <2>6. Placed'
      <3>1. RowPlaced(runs'[r], records[r])
        BY <1>2, <2>2, <2>4 DEF Placed, AtPlace, RowPlaced, Unstarted
      <3>2. AtPlace'
        BY <2>2, <2>5, <3>1 DEF Placed, AtPlace
      <3>3. runs'[r].resumes = 0
        BY <2>4 DEF Placed, InTurn
      <3>4. InTurn'
        BY <2>2, <2>4, <3>3, TurnsKept DEF Placed
      <3>5. QED
        BY <3>2, <3>4 DEF Placed
    <2>7. Stands
      BY <1>1, <2>2, <2>4, <2>5 DEF Stands, Unstarted, Over
    <2>8. QED
      BY <2>3, <2>6, <2>7
  <1>5. ASSUME NEW r \in Run, NEW e \in Run, Resume(r, e) PROVE Shaped' /\ Placed' /\ Stands
    <2>1. Becomes(r, [runs[r] EXCEPT !.status = "queued", !.resumes = e])
      BY <1>5, RowSteps
    <2>2. /\ runs' \in [Run -> RunRow]
          /\ runs'[r] = [runs[r] EXCEPT !.status = "queued", !.resumes = e]
          /\ \A q \in Run : q # r => runs'[q] = runs[q]
      BY <2>1, OneRow
    <2>3. Shaped'
      BY <1>5, <2>2 DEF Resume, Shaped
    <2>4. /\ runs[r].status = "absent" /\ runs'[r].status = "queued"
          /\ runs'[r].at = runs[r].at /\ runs'[r].resumes = e
          /\ runs[e].status \in {"failed", "partial"}
          /\ \A q \in Run : q < r => runs[q].status # "absent"
      BY <1>1, <1>5, <2>2 DEF Resume, IsNextRun, RunRow
    <2>5. records' = records
      BY <1>5 DEF Resume
    <2>6. runs[r].resumes = 0 /\ e # r /\ e < r
      BY <1>3, <2>4 DEF Placed, InTurn
    <2>7. Placed'
      <3>1. RowPlaced(runs'[r], records[r])
        BY <1>2, <2>2, <2>4 DEF Placed, AtPlace, RowPlaced, Unstarted
      <3>2. AtPlace'
        BY <2>2, <2>5, <3>1 DEF Placed, AtPlace
      <3>3. InTurn'
        BY <2>2, <2>4, <2>6, TurnsKept DEF Placed
      <3>4. QED
        BY <3>2, <3>3 DEF Placed
    <2>8. Stands
      BY <1>1, <2>2, <2>4, <2>5, <2>6 DEF Stands, Unstarted, Over
    <2>9. QED
      BY <2>3, <2>7, <2>8
  <1>6. ASSUME NEW r \in Run, Start(r) PROVE Shaped' /\ Placed' /\ Stands
    <2> DEFINE row == [runs[r] EXCEPT
                      !.status = IF filled THEN "running" ELSE "failed",
                      !.version = version, !.graph = graph, !.revision = revision]
    <2>1. Becomes(r, row)
      BY <1>6, RowSteps
    <2> HIDE DEF row
    <2>2. /\ runs' \in [Run -> RunRow] /\ runs'[r] = row
          /\ \A q \in Run : q # r => runs'[q] = runs[q]
      BY <2>1, OneRow
    <2>3. Shaped'
      BY <1>6, <2>2 DEF Start, Shaped
    <2>4. /\ runs[r].status = "queued" /\ runs'[r].status \in {"running", "failed"}
          /\ runs'[r].resumes = runs[r].resumes /\ runs'[r].at = runs[r].at
          /\ runs[r].at = Between
      BY <1>1, <1>2, <1>6, <2>2 DEF row, Start, RunRow, Placed, AtPlace, RowPlaced
    <2>5. records' = records
      BY <1>6 DEF Start
    <2>6. AtPlace'
      <3>1. RowPlaced(runs'[r], records[r])
        BY <1>1, <1>2, <2>2, <2>4 DEF Placed, AtPlace, RowPlaced, Unstarted
      <3>2. QED
        BY <2>2, <2>5, <3>1 DEF Placed, AtPlace
    <2>7. InTurn'
      <3>1. runs'[r].resumes # 0 => runs'[r].resumes \in Run /\ runs'[r].resumes < r
                                    /\ runs[runs'[r].resumes].status \in {"failed", "partial"}
        BY <2>4 DEF Placed, InTurn
      <3>2. QED
        BY <2>2, <2>4, <3>1, TurnsKept DEF Placed
    <2>8. Stands
      BY <1>1, <2>2, <2>4, <2>5 DEF Stands, Unstarted, Over
    <2>9. QED
      BY <2>3, <2>6, <2>7, <2>8 DEF Placed
  <1>7. ASSUME NEW r \in Run, NEW t \in Task, Begin(r, t) PROVE Shaped' /\ Placed' /\ Stands
    <2> DEFINE row == Moved(r, [task |-> t, stage |-> "working", tries |-> 1, output |-> 0])
    <2>1. Becomes(r, row)
      BY <1>7, RowSteps
    <2> HIDE DEF row
    <2>2. /\ runs' \in [Run -> RunRow] /\ runs'[r] = row
          /\ \A q \in Run : q # r => runs'[q] = runs[q]
      BY <2>1, OneRow
    <2>3. Shaped'
      BY <1>7, <2>2 DEF Begin, Shaped
    <2>4. /\ runs'[r].resumes = runs[r].resumes /\ runs'[r].version = runs[r].version
          /\ runs'[r].graph = runs[r].graph /\ runs'[r].revision = runs[r].revision
          /\ runs[r].status = "running" /\ runs'[r].status = "running"
          /\ runs'[r].at.stage = "working" /\ runs'[r].at.task = t /\ runs'[r].at.output = 0
          /\ records[r][t].status = "none"
      BY <1>1, <1>2, <1>7, <2>2 DEF row, Begin, At, IsNext, Left, Moved, RunRow, Place
    <2>5. records' = records
      BY <1>7 DEF Begin
    <2>6. AtPlace'
      <3>1. RowPlaced(runs'[r], records[r])
        BY <1>1, <1>2, <2>2, <2>4 DEF Placed, AtPlace, RowPlaced, Unstarted
      <3>2. QED
        BY <2>2, <2>5, <3>1 DEF Placed, AtPlace
    <2>7. InTurn'
      <3>1. runs'[r].resumes # 0 => runs'[r].resumes \in Run /\ runs'[r].resumes < r
                                    /\ runs[runs'[r].resumes].status \in {"failed", "partial"}
        BY <2>4 DEF Placed, InTurn
      <3>2. QED
        BY <2>2, <2>4, <3>1, TurnsKept DEF Placed
    <2>8. Stands
      BY <1>1, <2>2, <2>4, <2>5 DEF Stands, Unstarted, Over
    <2>9. QED
      BY <2>3, <2>6, <2>7, <2>8 DEF Placed
  <1>8. ASSUME NEW r \in Run, Fail(r) PROVE Shaped' /\ Placed' /\ Stands
    <2> DEFINE row == Moved(r, [runs[r].at EXCEPT !.stage = "failed"])
    <2>1. Becomes(r, row)
      BY <1>8, RowSteps
    <2> HIDE DEF row
    <2>2. /\ runs' \in [Run -> RunRow] /\ runs'[r] = row
          /\ \A q \in Run : q # r => runs'[q] = runs[q]
      BY <2>1, OneRow
    <2>3. Shaped'
      BY <1>8, <2>2 DEF Fail, Shaped
    <2>4. /\ runs'[r].resumes = runs[r].resumes /\ runs'[r].version = runs[r].version
          /\ runs'[r].graph = runs[r].graph /\ runs'[r].revision = runs[r].revision
          /\ runs[r].status = "running" /\ runs'[r].status = "running"
          /\ runs[r].at.stage = "working" /\ runs'[r].at.stage = "failed"
          /\ runs'[r].at.task = runs[r].at.task /\ runs'[r].at.output = runs[r].at.output
      BY <1>1, <1>2, <1>8, <2>2 DEF row, Fail, Moved, RunRow, Place
    <2>5. records' = records
      BY <1>8 DEF Fail
    <2>6. AtPlace'
      <3>1. RowPlaced(runs'[r], records[r])
        BY <1>1, <1>2, <2>2, <2>4 DEF Placed, AtPlace, RowPlaced, Unstarted
      <3>2. QED
        BY <2>2, <2>5, <3>1 DEF Placed, AtPlace
    <2>7. InTurn'
      <3>1. runs'[r].resumes # 0 => runs'[r].resumes \in Run /\ runs'[r].resumes < r
                                    /\ runs[runs'[r].resumes].status \in {"failed", "partial"}
        BY <2>4 DEF Placed, InTurn
      <3>2. QED
        BY <2>2, <2>4, <3>1, TurnsKept DEF Placed
    <2>8. Stands
      BY <1>1, <2>2, <2>4, <2>5 DEF Stands, Unstarted, Over
    <2>9. QED
      BY <2>3, <2>6, <2>7, <2>8 DEF Placed
  <1>9. ASSUME NEW r \in Run, Unresolved(r) PROVE Shaped' /\ Placed' /\ Stands
    <2> DEFINE row == Moved(r, [runs[r].at EXCEPT !.stage = "unresolved"])
    <2>1. Becomes(r, row)
      BY <1>9, RowSteps
    <2> HIDE DEF row
    <2>2. /\ runs' \in [Run -> RunRow] /\ runs'[r] = row
          /\ \A q \in Run : q # r => runs'[q] = runs[q]
      BY <2>1, OneRow
    <2>3. Shaped'
      BY <1>9, <2>2 DEF Unresolved, Shaped
    <2>4. /\ runs'[r].resumes = runs[r].resumes /\ runs'[r].version = runs[r].version
          /\ runs'[r].graph = runs[r].graph /\ runs'[r].revision = runs[r].revision
          /\ runs[r].status = "running" /\ runs'[r].status = "running"
          /\ runs[r].at.stage = "working" /\ runs'[r].at.stage = "unresolved"
          /\ runs'[r].at.task = runs[r].at.task /\ runs'[r].at.output = runs[r].at.output
      BY <1>1, <1>2, <1>9, <2>2 DEF row, Unresolved, Moved, RunRow, Place
    <2>5. records' = records
      BY <1>9 DEF Unresolved
    <2>6. AtPlace'
      <3>1. RowPlaced(runs'[r], records[r])
        BY <1>1, <1>2, <2>2, <2>4 DEF Placed, AtPlace, RowPlaced, Unstarted
      <3>2. QED
        BY <2>2, <2>5, <3>1 DEF Placed, AtPlace
    <2>7. InTurn'
      <3>1. runs'[r].resumes # 0 => runs'[r].resumes \in Run /\ runs'[r].resumes < r
                                    /\ runs[runs'[r].resumes].status \in {"failed", "partial"}
        BY <2>4 DEF Placed, InTurn
      <3>2. QED
        BY <2>2, <2>4, <3>1, TurnsKept DEF Placed
    <2>8. Stands
      BY <1>1, <2>2, <2>4, <2>5 DEF Stands, Unstarted, Over
    <2>9. QED
      BY <2>3, <2>6, <2>7, <2>8 DEF Placed
  <1>10. ASSUME NEW r \in Run, Retry(r) PROVE Shaped' /\ Placed' /\ Stands
    <2> DEFINE row == Moved(r, [runs[r].at EXCEPT !.stage = "working",
                                              !.tries = runs[r].at.tries + 1])
    <2>1. Becomes(r, row)
      BY <1>10, RowSteps
    <2> HIDE DEF row
    <2>2. /\ runs' \in [Run -> RunRow] /\ runs'[r] = row
          /\ \A q \in Run : q # r => runs'[q] = runs[q]
      BY <2>1, OneRow
    <2>3. Shaped'
      BY <1>10, <2>2 DEF Retry, Shaped
    <2>4. /\ runs'[r].resumes = runs[r].resumes /\ runs'[r].version = runs[r].version
          /\ runs'[r].graph = runs[r].graph /\ runs'[r].revision = runs[r].revision
          /\ runs[r].status = "running" /\ runs'[r].status = "running"
          /\ runs[r].at.stage = "failed" /\ runs'[r].at.stage = "working"
          /\ runs'[r].at.task = runs[r].at.task /\ runs'[r].at.output = runs[r].at.output
      BY <1>1, <1>2, <1>10, <2>2 DEF row, Retry, Moved, RunRow, Place
    <2>5. records' = records
      BY <1>10 DEF Retry
    <2>6. AtPlace'
      <3>1. RowPlaced(runs'[r], records[r])
        BY <1>1, <1>2, <2>2, <2>4 DEF Placed, AtPlace, RowPlaced, Unstarted
      <3>2. QED
        BY <2>2, <2>5, <3>1 DEF Placed, AtPlace
    <2>7. InTurn'
      <3>1. runs'[r].resumes # 0 => runs'[r].resumes \in Run /\ runs'[r].resumes < r
                                    /\ runs[runs'[r].resumes].status \in {"failed", "partial"}
        BY <2>4 DEF Placed, InTurn
      <3>2. QED
        BY <2>2, <2>4, <3>1, TurnsKept DEF Placed
    <2>8. Stands
      BY <1>1, <2>2, <2>4, <2>5 DEF Stands, Unstarted, Over
    <2>9. QED
      BY <2>3, <2>6, <2>7, <2>8 DEF Placed
  <1>11. ASSUME NEW r \in Run, Finish(r) PROVE Shaped' /\ Placed' /\ Stands
    <2> DEFINE row == [runs[r] EXCEPT !.status = Verdict(r)]
    <2>1. Becomes(r, row)
      BY <1>11, RowSteps
    <2> HIDE DEF row
    <2>2. /\ runs' \in [Run -> RunRow] /\ runs'[r] = row
          /\ \A q \in Run : q # r => runs'[q] = runs[q]
      BY <2>1, OneRow
    <2>3. Shaped'
      BY <1>11, <2>2 DEF Finish, Shaped
    <2>4. /\ runs'[r].resumes = runs[r].resumes /\ runs'[r].version = runs[r].version
          /\ runs'[r].graph = runs[r].graph /\ runs'[r].revision = runs[r].revision
          /\ runs[r].status = "running" /\ runs'[r].status \in Over
          /\ runs'[r].at = Between
      BY <1>1, <1>2, <1>11, <2>2 DEF row, Finish, Verdict, Over, RunRow, Placed, AtPlace, RowPlaced
    <2>5. records' = records
      BY <1>11 DEF Finish
    <2>6. AtPlace'
      <3>1. RowPlaced(runs'[r], records[r])
        BY <1>1, <1>2, <2>2, <2>4 DEF Placed, AtPlace, RowPlaced, Unstarted, Over
      <3>2. QED
        BY <2>2, <2>5, <3>1 DEF Placed, AtPlace
    <2>7. InTurn'
      <3>1. runs'[r].resumes # 0 => runs'[r].resumes \in Run /\ runs'[r].resumes < r
                                    /\ runs[runs'[r].resumes].status \in {"failed", "partial"}
        BY <2>4 DEF Placed, InTurn
      <3>2. QED
        BY <2>2, <2>4, <3>1, TurnsKept DEF Placed, Over
    <2>8. Stands
      BY <1>1, <2>2, <2>4, <2>5 DEF Stands, Unstarted, Over
    <2>9. QED
      BY <2>3, <2>6, <2>7, <2>8 DEF Placed
  <1>12. ASSUME NEW r \in Run, StaleRow(r) \/ Death(r) PROVE Shaped' /\ Placed' /\ Stands
    <2> DEFINE row == [runs[r] EXCEPT !.status = "failed", !.at = Between]
    <2>1. Becomes(r, row)
      BY <1>12, RowSteps
    <2> HIDE DEF row
    <2>2. /\ runs' \in [Run -> RunRow] /\ runs'[r] = row
          /\ \A q \in Run : q # r => runs'[q] = runs[q]
      BY <2>1, OneRow
    <2>3. Shaped'
      BY <1>12, <2>2 DEF StaleRow, Death, Shaped
    <2>4. /\ runs'[r].resumes = runs[r].resumes /\ runs'[r].version = runs[r].version
          /\ runs'[r].graph = runs[r].graph /\ runs'[r].revision = runs[r].revision
          /\ runs[r].status = "running" /\ runs'[r].status = "failed"
          /\ runs'[r].at = Between
      BY <1>1, <1>2, <1>12, <2>2 DEF row, StaleRow, Death, RunRow
    <2>5. records' = records
      BY <1>12 DEF StaleRow, Death
    <2>6. AtPlace'
      <3>1. RowPlaced(runs'[r], records[r])
        BY <1>1, <1>2, <2>2, <2>4 DEF Placed, AtPlace, RowPlaced, Unstarted
      <3>2. QED
        BY <2>2, <2>5, <3>1 DEF Placed, AtPlace
    <2>7. InTurn'
      <3>1. runs'[r].resumes # 0 => runs'[r].resumes \in Run /\ runs'[r].resumes < r
                                    /\ runs[runs'[r].resumes].status \in {"failed", "partial"}
        BY <2>4 DEF Placed, InTurn
      <3>2. QED
        BY <2>2, <2>4, <3>1, TurnsKept DEF Placed
    <2>8. Stands
      BY <1>1, <2>2, <2>4, <2>5 DEF Stands, Unstarted, Over
    <2>9. QED
      BY <2>3, <2>6, <2>7, <2>8 DEF Placed
  <1>13. ASSUME NEW r \in Run, Succeed(r) PROVE Shaped' /\ Placed' /\ Stands
    <2> DEFINE row == Moved(r, [runs[r].at EXCEPT !.stage = "succeeded",
                                                  !.output = Len(made) + 1])
    <2>1. Becomes(r, row)
      BY <1>13, RowSteps
    <2> HIDE DEF row
    <2>2. /\ runs' \in [Run -> RunRow] /\ runs'[r] = row
          /\ \A q \in Run : q # r => runs'[q] = runs[q]
      BY <2>1, OneRow
    <2>3. /\ runs'[r].resumes = runs[r].resumes /\ runs'[r].version = runs[r].version
          /\ runs'[r].graph = runs[r].graph /\ runs'[r].revision = runs[r].revision
          /\ runs[r].status = "running" /\ runs'[r].status = "running"
          /\ runs[r].at.stage = "working" /\ runs'[r].at.stage = "succeeded"
          /\ runs'[r].at.task = runs[r].at.task
      BY <1>1, <1>13, <2>2 DEF row, Moved, Succeed, RunRow, Place
    <2>4. runs[r].at.task \in Task
      BY <2>3 DEF Placed, AtPlace, RowPlaced
    <2>5. Effort(r) \in Work /\ made' = Append(made, Effort(r))
      BY <1>13, <2>4, SucceedMakes
    <2>6. made' \in Seq(Work)
      BY <2>5 DEF Shaped
    <2>7. Shaped'
      BY <1>13, <2>2, <2>6 DEF Succeed, Shaped
    <2>8. records' = records
      BY <1>13 DEF Succeed
    <2>9. AtPlace'
      <3>1. RowPlaced(runs'[r], records[r])
        BY <2>2, <2>3 DEF Placed, AtPlace, RowPlaced, Unstarted
      <3>2. QED
        BY <2>2, <2>8, <3>1 DEF Placed, AtPlace
    <2>10. InTurn'
      <3>1. runs'[r].resumes # 0 => runs'[r].resumes \in Run /\ runs'[r].resumes < r
                                    /\ runs[runs'[r].resumes].status \in {"failed", "partial"}
        BY <2>3 DEF Placed, InTurn
      <3>2. QED
        BY <2>2, <2>3, <3>1, TurnsKept DEF Placed
    <2>11. Stands
      BY <1>1, <2>2, <2>3, <2>8 DEF Stands, Unstarted, Over
    <2>12. QED
      BY <2>7, <2>9, <2>10, <2>11 DEF Placed
  <1>14. ASSUME NEW r \in Run, Record(r) PROVE Shaped' /\ Placed' /\ Stands
    <2> DEFINE row == Moved(r, Between)
               t == runs[r].at.task
               got == [status |-> IF runs[r].at.stage = "succeeded" THEN "succeeded"
                                     ELSE "failed",
                          settings |-> FingerprintIn(r, t),
                          output |-> runs[r].at.output, reused |-> FALSE]
    <2>1. Becomes(r, row)
      BY <1>14, RowSteps
    <2>2. runs[r].status = "running" /\ runs[r].at.stage # "between"
      BY <1>14 DEF Record
    <2>3. t \in Task /\ records[r][t].status = "none"
      BY <2>2 DEF Placed, AtPlace, RowPlaced
    <2>4. Gets(r, t, got)
      BY <1>14, <2>3, RecordSteps
    <2> HIDE DEF row, t, got
    <2>5. /\ runs' \in [Run -> RunRow] /\ runs'[r] = row
          /\ \A q \in Run : q # r => runs'[q] = runs[q]
      BY <2>1, OneRow
    <2>6. /\ records' \in [Run -> [Task -> Result]] /\ records'[r][t] = got
          /\ \A q \in Run, u \in Task : q # r \/ u # t => records'[q][u] = records[q][u]
      BY <2>3, <2>4, OneRecord
    <2>7. Shaped'
      BY <1>14, <2>5, <2>6 DEF Record, Shaped
    <2>8. /\ runs'[r].resumes = runs[r].resumes /\ runs'[r].version = runs[r].version
          /\ runs'[r].graph = runs[r].graph /\ runs'[r].revision = runs[r].revision
          /\ runs'[r].status = "running" /\ runs'[r].at = Between
      BY <1>1, <2>2, <2>5 DEF row, Moved, RunRow
    <2>9. AtPlace'
      <3>1. \A q \in Run : q # r => records'[q] = records[q]
        BY <1>1, <2>6
      <3>2. RowPlaced(runs'[r], records'[r])
        BY <1>2, <2>8 DEF RowPlaced, Unstarted
      <3>3. QED
        BY <2>5, <3>1, <3>2 DEF Placed, AtPlace
    <2>10. InTurn'
      <3>1. runs'[r].resumes # 0 => runs'[r].resumes \in Run /\ runs'[r].resumes < r
                                    /\ runs[runs'[r].resumes].status \in {"failed", "partial"}
        BY <2>8 DEF Placed, InTurn
      <3>2. QED
        BY <2>2, <2>5, <2>8, <3>1, TurnsKept DEF Placed
    <2>11. Stands
      <3>1. \A q \in Run, u \in Task :
              records[q][u].status # "none" => records'[q][u] = records[q][u]
        BY <2>3, <2>6
      <3>2. QED
        BY <1>1, <2>2, <2>5, <2>8, <3>1 DEF Stands, Unstarted, Over
    <2>12. QED
      BY <2>7, <2>9, <2>10, <2>11 DEF Placed
  <1>15. ASSUME NEW r \in Run, NEW t \in Task, Skip(r, t) \/ Reuse(r, t)
         PROVE  Shaped' /\ Placed' /\ Stands
    <2>1. PICK got : Gets(r, t, got)
      BY <1>15, RecordSteps
    <2>2. /\ records' \in [Run -> [Task -> Result]] /\ records'[r][t] = got
          /\ \A q \in Run, u \in Task : q # r \/ u # t => records'[q][u] = records[q][u]
      BY <2>1, OneRecord
    <2>3. /\ runs[r].status = "running" /\ runs[r].at.stage = "between"
          /\ records[r][t].status = "none" /\ runs' = runs
      BY <1>15 DEF Skip, Reuse, At, IsNext, Left
    <2>4. Shaped'
      BY <1>15, <2>2 DEF Skip, Reuse, Shaped
    <2>5. AtPlace'
      <3>1. \A q \in Run : q # r => records'[q] = records[q]
        BY <1>1, <2>2
      <3>2. runs[r].at = Between
        BY <2>3 DEF Placed, AtPlace, RowPlaced
      <3>3. RowPlaced(runs[r], records'[r])
        BY <1>2, <2>3, <3>2 DEF RowPlaced, Unstarted
      <3>4. QED
        BY <2>3, <3>1, <3>3 DEF Placed, AtPlace
    <2>6. InTurn'
      BY <2>3 DEF Placed, InTurn
    <2>7. Stands
      BY <2>2, <2>3 DEF Stands
    <2>8. QED
      BY <2>4, <2>5, <2>6, <2>7 DEF Placed
  <1>16. ASSUME UNCHANGED <<runs, records, made, deaths>>, Shaped'
         PROVE  Shaped' /\ Placed' /\ Stands
    BY <1>16 DEF Placed, AtPlace, InTurn, Stands
  <1>17. ASSUME NEW t \in Task, NEW s \in Settings, SaveSettings(t, s) PROVE Shaped' /\ Placed' /\ Stands
    <2>1. Shaped'
      BY <1>17 DEF SaveSettings, Shaped
    <2>2. QED
      BY <1>16, <1>17, <2>1 DEF SaveSettings
  <1>18. ASSUME NEW g \in Graphs, SaveLinks(g) PROVE Shaped' /\ Placed' /\ Stands
    <2>1. Shaped'
      BY <1>18 DEF SaveLinks, Shaped
    <2>2. QED
      BY <1>16, <1>18, <2>1 DEF SaveLinks
  <1>19. CASE SaveNothing \/ SaveUnfilled
    <2>1. Shaped'
      <3>1. version' \in Nat
        BY <1>19 DEF SaveNothing, SaveUnfilled, Shaped
      <3>2. filled' \in BOOLEAN
        BY <1>19 DEF SaveNothing, SaveUnfilled, Shaped
      <3>3. QED
        BY <1>19, <3>1, <3>2 DEF SaveNothing, SaveUnfilled, Shaped
    <2>2. QED
      BY <1>16, <1>19, <2>1 DEF SaveNothing, SaveUnfilled
  <1>20. CASE UNCHANGED vars
    <2>1. Shaped'
      BY <1>20 DEF vars, Shaped
    <2>2. QED
      BY <1>16, <1>20, <2>1 DEF vars
  <1>21. QED
    BY <1>4, <1>5, <1>6, <1>7, <1>8, <1>9, <1>10, <1>11, <1>12, <1>13, <1>14, <1>15,
       <1>17, <1>18, <1>19, <1>20 DEF Next, Execute, Done

\* A record is new only by a skip, a reuse or the end of the task's work.
LEMMA Decisions ==
    ASSUME Shaped, Placed, [Next]_vars, NEW r \in Run, NEW t \in Task,
           records'[r][t] # records[r][t]
    PROVE  \/ Skip(r, t)
           \/ Reuse(r, t)
           \/ Record(r) /\ runs[r].at.task = t
  <1>1. ASSUME NEW q \in Run, NEW u \in Task, Skip(q, u) \/ Reuse(q, u)
        PROVE  q = r /\ u = t
    <2>1. \E got : Gets(q, u, got)
      BY <1>1, RecordSteps
    <2>2. QED
      BY <2>1, OneRecord
  <1>2. ASSUME NEW q \in Run, Record(q) PROVE q = r /\ runs[q].at.task = t
    BY <1>2 DEF Record, Shaped
  <1>3. ASSUME records' = records PROVE FALSE
    BY <1>3
  <1>4. \/ \E q \in Run, u \in Task : Skip(q, u) \/ Reuse(q, u)
        \/ \E q \in Run : Record(q)
        \/ records' = records
    BY ZenonT(40) DEF Next, Execute, Queue, Resume, Start, Begin, Succeed, Fail, Unresolved, Retry,
           Finish, StaleRow, Death, SaveSettings, SaveLinks, SaveNothing, SaveUnfilled, Done,
           vars
  <1>5. QED
    BY <1>1, <1>2, <1>3, <1>4

\* What a step may make of the place of a run.
SamePlace(r) == runs'[r].at = runs[r].at
Leaves(r) == (Record(r) \/ StaleRow(r) \/ Death(r)) /\ runs'[r].at = Between
Begins(r) ==
    \E t \in Task :
        /\ Begin(r, t)
        /\ runs'[r].at = [task |-> t, stage |-> "working", tries |-> 1, output |-> 0]
Succeeds(r) ==
    /\ Succeed(r)
    /\ runs'[r].at = [runs[r].at EXCEPT !.stage = "succeeded", !.output = Len(made) + 1]
Ends(r) ==
    /\ Fail(r) \/ Unresolved(r)
    /\ runs'[r].at.stage \in {"failed", "unresolved"}
    /\ runs'[r].at.task = runs[r].at.task
    /\ runs'[r].at.tries = runs[r].at.tries
    /\ runs'[r].at.output = runs[r].at.output
Retries(r) ==
    /\ Retry(r)
    /\ runs'[r].at = [runs[r].at EXCEPT !.stage = "working", !.tries = runs[r].at.tries + 1]

\* A run stays where it is, leaves its task, or goes on with it as the code does.
LEMMA Placements ==
    ASSUME Shaped, Placed, [Next]_vars, NEW r \in Run
    PROVE  \/ SamePlace(r) \/ Leaves(r) \/ Begins(r) \/ Succeeds(r) \/ Ends(r) \/ Retries(r)
  <1> DEFINE AnyRun == \/ SamePlace(r) \/ Leaves(r) \/ Begins(r) \/ Succeeds(r) \/ Ends(r)
                    \/ Retries(r)
  <1> SUFFICES AnyRun
    OBVIOUS
  <1>1. runs[r] \in RunRow /\ runs[r].at \in Place
    BY DEF Shaped, RunRow
  <1>2. ASSUME NEW q \in Run, NEW row, q # r, Becomes(q, row) PROVE SamePlace(r)
    BY <1>2, OneRow DEF SamePlace
  <1>3. ASSUME NEW row, Becomes(r, row) PROVE runs'[r] = row
    BY <1>3, OneRow
  <1>4. ASSUME NEW place \in Place, Becomes(r, Moved(r, place)) PROVE runs'[r].at = place
    <2>1. runs'[r] = Moved(r, place)
      BY <1>3, <1>4
    <2>2. QED
      BY <1>1, <2>1 DEF Moved, RunRow
  <1>5. ASSUME Queue(r) PROVE SamePlace(r)
    <2>1. runs'[r] = [runs[r] EXCEPT !.status = "queued"]
      BY <1>3, <1>5, RowSteps
    <2>2. QED
      BY <1>1, <2>1 DEF RunRow, SamePlace
  <1>6. ASSUME NEW e \in Run, Resume(r, e) PROVE SamePlace(r)
    <2>1. runs'[r] = [runs[r] EXCEPT !.status = "queued", !.resumes = e]
      BY <1>3, <1>6, RowSteps
    <2>2. QED
      BY <1>1, <2>1 DEF RunRow, SamePlace
  <1>7. ASSUME Start(r) PROVE SamePlace(r)
    <2>1. runs'[r] = [runs[r] EXCEPT !.status = IF filled THEN "running" ELSE "failed",
                                     !.version = version, !.graph = graph,
                                     !.revision = revision]
      BY <1>3, <1>7, RowSteps
    <2>2. QED
      BY <1>1, <2>1 DEF RunRow, SamePlace
  <1>8. ASSUME Finish(r) PROVE SamePlace(r)
    <2>1. runs'[r] = [runs[r] EXCEPT !.status = Verdict(r)]
      BY <1>3, <1>8, RowSteps
    <2>2. QED
      BY <1>1, <2>1 DEF RunRow, SamePlace
  <1>9. ASSUME StaleRow(r) \/ Death(r) PROVE Leaves(r)
    <2>1. runs'[r] = [runs[r] EXCEPT !.status = "failed", !.at = Between]
      BY <1>3, <1>9, RowSteps
    <2>2. QED
      BY <1>1, <1>9, <2>1 DEF RunRow, Leaves
  <1>10. ASSUME Record(r) PROVE Leaves(r)
    <2>1. runs'[r] = Moved(r, Between)
      BY <1>3, <1>10, RowSteps
    <2>2. QED
      BY <1>1, <1>10, <2>1 DEF Moved, RunRow, Leaves
  <1>11. ASSUME NEW t \in Task, Begin(r, t) PROVE Begins(r)
    <2>1. [task |-> t, stage |-> "working", tries |-> 1, output |-> 0] \in Place
      BY ExecutionAssumption DEF Place, Stage, Task
    <2>2. runs'[r].at = [task |-> t, stage |-> "working", tries |-> 1, output |-> 0]
      BY <1>4, <1>11, <2>1, RowSteps
    <2>3. QED
      BY <1>11, <2>2 DEF Begins
  <1>12. ASSUME Succeed(r) PROVE Succeeds(r)
    <2>1. Len(made) + 1 \in Nat
      BY DEF Shaped
    <2>2. [runs[r].at EXCEPT !.stage = "succeeded", !.output = Len(made) + 1] \in Place
      BY <1>1, <2>1 DEF Place, Stage
    <2>3. QED
      BY <1>4, <1>12, <2>2, RowSteps DEF Succeeds
  <1>13. ASSUME NEW stage \in {"failed", "unresolved"}, Fail(r) \/ Unresolved(r),
                Becomes(r, Moved(r, [runs[r].at EXCEPT !.stage = stage]))
         PROVE  Ends(r)
    <2>1. [runs[r].at EXCEPT !.stage = stage] \in Place
      BY <1>1 DEF Place, Stage
    <2>2. runs'[r].at = [runs[r].at EXCEPT !.stage = stage]
      BY <1>4, <1>13, <2>1
    <2>3. QED
      BY <1>1, <1>13, <2>2 DEF Ends, Place
  <1>14. ASSUME Retry(r) PROVE Retries(r)
    <2>1. runs[r].at.tries + 1 \in Nat
      BY <1>1 DEF Place
    <2>2. [runs[r].at EXCEPT !.stage = "working", !.tries = runs[r].at.tries + 1] \in Place
      BY <1>1, <2>1 DEF Place, Stage
    <2>3. QED
      BY <1>4, <1>14, <2>2, RowSteps DEF Retries
  <1>15. Fail(r) \/ Unresolved(r) => Ends(r)
    BY <1>13, RowSteps
  <1>16. ASSUME NEW q \in Run,
                \/ Queue(q) \/ (\E e \in Run : Resume(q, e)) \/ Start(q) \/ Record(q)
                \/ Finish(q) \/ StaleRow(q) \/ Death(q) \/ Succeed(q) \/ Fail(q)
                \/ Unresolved(q) \/ Retry(q) \/ (\E t \in Task : Begin(q, t))
         PROVE  AnyRun
    <2>1. CASE q = r
      BY <1>5, <1>6, <1>7, <1>8, <1>9, <1>10, <1>11, <1>12, <1>14, <1>15, <1>16, <2>1
    <2>2. CASE q # r
      <3>1. \E row : Becomes(q, row)
        BY <1>16, RowSteps
      <3>2. QED
        BY <1>2, <2>2, <3>1
    <2>3. QED
      BY <2>1, <2>2
  <1>17. ASSUME runs' = runs PROVE SamePlace(r)
    BY <1>17 DEF SamePlace
  <1>18. QED
    BY <1>16, <1>17 DEF Next, Execute, Skip, Reuse, SaveSettings, SaveLinks, SaveNothing,
           SaveUnfilled, Done, vars

\* A run is at a task because it was there or because it has just begun with it.
LEMMA Beginnings ==
    ASSUME Shaped, Placed, [Next]_vars, NEW r \in Run, runs'[r].at.stage # "between"
    PROVE  \/ runs[r].at.stage # "between" /\ runs'[r].at.task = runs[r].at.task
              /\ runs[r].status = "running"
           \/ Begin(r, runs'[r].at.task) /\ runs'[r].at.task \in Task
  <1>1. runs[r].at \in Place /\ Between.stage = "between"
    BY DEF Shaped, RunRow, Between
  <1>2. runs[r].at.stage # "between" => runs[r].status = "running"
    BY <1>1 DEF Placed, AtPlace, RowPlaced
  <1>3. ~Leaves(r)
    BY <1>1 DEF Leaves
  <1>4. Succeeds(r) \/ Ends(r) \/ Retries(r) =>
          runs[r].at.stage # "between" /\ runs'[r].at.task = runs[r].at.task
    BY <1>1 DEF Succeeds, Succeed, Ends, Fail, Unresolved, Retries, Retry, Place
  <1>5. Begins(r) => Begin(r, runs'[r].at.task) /\ runs'[r].at.task \in Task
    BY DEF Begins
  <1>6. QED
    BY <1>2, <1>3, <1>4, <1>5, Placements DEF SamePlace

\* What a handler did is only added, by the run that is at the task.
LEMMA Makings ==
    ASSUME Shaped, Placed, [Next]_vars
    PROVE  \/ made' = made
           \/ \E r \in Run : /\ Succeed(r) /\ runs[r].at.task \in Task
                             /\ Effort(r) \in Work /\ made' = Append(made, Effort(r))
  <1>1. ASSUME NEW r \in Run, Succeed(r)
        PROVE  /\ runs[r].at.task \in Task
               /\ Effort(r) \in Work /\ made' = Append(made, Effort(r))
    <2>1. runs[r].at.task \in Task
      BY <1>1 DEF Succeed, Placed, AtPlace, RowPlaced
    <2>2. QED
      BY <1>1, <2>1, SucceedMakes
  <1>2. (\E r \in Run : Succeed(r)) \/ made' = made
    BY ZenonT(40) DEF Next, Execute, Queue, Resume, Start, Begin, Record, Fail, Unresolved, Retry,
           Finish, StaleRow, Death, SaveSettings, SaveLinks, SaveNothing, SaveUnfilled, Done,
           vars, Skip, Reuse
  <1>3. QED
    BY <1>1, <1>2

-----------------------------------------------------------------------------
(* The gates.                                                              *)

\* The walk comes to a task after the tasks it waits for.
LEMMA NextIsReady ==
    ASSUME Shaped, NEW r \in Run, NEW t \in Task, IsNext(r, t)
    PROVE  \A u \in Upstream(runs[r].graph, t) :
             u \in Task /\ u # t /\ records[r][u].status # "none"
  <1> DEFINE level == Levels(runs[r].graph)
  <1>1. runs[r].graph \in Graphs
    BY DEF Shaped, RunRow
  <1>2. level \in [Task -> 0 .. Tasks - 1] /\ AreLevels(level, runs[r].graph)
    BY <1>1, GraphsAreRight
  <1> SUFFICES ASSUME NEW u \in Upstream(runs[r].graph, t)
               PROVE  u \in Task /\ u # t /\ records[r][u].status # "none"
    OBVIOUS
  <1>3. u \in Task
    BY <1>1, GraphsAreRight
  <1>4. level[u] < level[t]
    BY <1>2 DEF AreLevels
  <1>5. level[u] \in Nat /\ level[t] \in Nat
    BY <1>2, <1>3, ExecutionAssumption
  <1>6. u # t
    BY <1>4, <1>5
  <1>7. u \notin Left(r)
    <2>1. SUFFICES ASSUME u \in Left(r) PROVE FALSE
      OBVIOUS
    <2>2. Precedes(level, t, u)
      BY <1>6, <2>1 DEF IsNext
    <2>3. QED
      BY <1>4, <1>5, <2>2 DEF Precedes
  <1>8. QED
    BY <1>3, <1>6, <1>7 DEF Left

Opens(condition) ==
    IF condition = "on_success" THEN {"succeeded"}
    ELSE IF condition = "on_failure" THEN {"failed"}
    ELSE {"succeeded", "failed"}

\* All tasks before the task are decided, and its gates are open.
Behind(g, recorded, t) == \A u \in Upstream(g, t) : recorded[u].status # "none"
Open(g, recorded, t) ==
    \A l \in g.links : l.to = t => recorded[l.from].status \in Opens(l.condition)

\* A decided task comes behind decided ones and was skipped if a gate is shut; a
\* task a run is at was let through, and not reused.
Walked ==
    /\ \A r \in Run, t \in Task :
         records[r][t].status # "none" =>
           /\ Behind(runs[r].graph, records[r], t)
           /\ records[r][t].status # "skipped" <=> Open(runs[r].graph, records[r], t)
    /\ \A r \in Run :
         runs[r].at.stage # "between" =>
           /\ Behind(runs[r].graph, records[r], runs[r].at.task)
           /\ Open(runs[r].graph, records[r], runs[r].at.task)

\* should_run asks whether all gates are open.
LEMMA ShouldRunIsOpen ==
    ASSUME Shaped, NEW r \in Run, NEW t \in Task
    PROVE  ShouldRun(r, t) <=> Open(runs[r].graph, records[r], t)
  <1>1. runs[r].graph \in Graphs
    BY DEF Shaped, RunRow
  <1>2. \A l \in runs[r].graph.links : l.condition \in Condition
    BY <1>1, GraphsAreRight
  <1>3. ASSUME NEW l \in runs[r].graph.links, NEW status
        PROVE  Satisfied(l, status) <=> status \in Opens(l.condition)
    BY <1>2 DEF Satisfied, Opens, Condition
  <1>4. QED
    BY <1>3 DEF ShouldRun, Open

\* Gates depend on nothing but the records of the tasks before.
LEMMA GatesKept ==
    ASSUME NEW g \in Graphs, NEW t \in Task, NEW recorded, NEW later,
           Behind(g, recorded, t),
           \A u \in Task : recorded[u].status # "none" => later[u] = recorded[u]
    PROVE  /\ Behind(g, later, t)
           /\ Open(g, later, t) <=> Open(g, recorded, t)
  <1>1. \A u \in Upstream(g, t) : later[u] = recorded[u]
    BY GraphsAreRight DEF Behind
  <1>2. Behind(g, later, t)
    BY <1>1 DEF Behind
  <1>3. \A l \in g.links : l.to = t => later[l.from] = recorded[l.from]
    BY <1>1 DEF Upstream
  <1>4. QED
    BY <1>2, <1>3 DEF Open

\* The walk keeps the gates in every step.
LEMMA WalkedStep ==
    ASSUME Shaped, Placed, Walked, [Next]_vars
    PROVE  Walked'
  <1>1. Shaped' /\ Placed' /\ Stands
    BY PlacedStep
  <1>2. \A r \in Run : runs[r].graph \in Graphs /\ runs[r] \in RunRow
    BY DEF Shaped, RunRow
  <1>3. ASSUME NEW r \in Run, NEW t \in Task, Begin(r, t) \/ Skip(r, t) \/ Reuse(r, t)
        PROVE  /\ Behind(runs[r].graph, records[r], t)
               /\ runs[r].status = "running"
               /\ Open(runs[r].graph, records[r], t) <=> ~Skip(r, t)
    BY <1>3, NextIsReady, ShouldRunIsOpen DEF Begin, Skip, Reuse, At, Behind
  <1>4. ASSUME NEW r \in Run, runs[r].status \notin Unstarted
        PROVE  /\ runs'[r].graph = runs[r].graph
               /\ \A u \in Task : records[r][u].status # "none" => records'[r][u] = records[r][u]
    BY <1>1, <1>4 DEF Stands
  <1>5. ASSUME NEW r \in Run, runs[r].status \notin Unstarted, NEW t \in Task,
                Behind(runs[r].graph, records[r], t)
         PROVE  /\ Behind(runs'[r].graph, records'[r], t)
                /\ Open(runs'[r].graph, records'[r], t) <=> Open(runs[r].graph, records[r], t)
    <2>1. PICK g \in Graphs : g = runs[r].graph /\ g = runs'[r].graph
      BY <1>2, <1>4, <1>5
    <2>2. PICK later : later = records'[r]
      OBVIOUS
    <2>3. \A u \in Task : records[r][u].status # "none" => later[u] = records[r][u]
      BY <1>4, <1>5, <2>2
    <2>4. Behind(g, later, t) /\ (Open(g, later, t) <=> Open(g, records[r], t))
      BY <1>5, <2>1, <2>3, GatesKept
    <2>5. QED
      BY <2>1, <2>2, <2>4
  <1>6. ASSUME NEW r \in Run, NEW t \in Task, records'[r][t].status # "none"
        PROVE  /\ Behind(runs'[r].graph, records'[r], t)
               /\ records'[r][t].status # "skipped" <=> Open(runs'[r].graph, records'[r], t)
    <2>1. CASE records[r][t].status # "none"
      <3>1. runs[r].status \notin Unstarted
        BY <2>1 DEF Placed, AtPlace, RowPlaced
      <3>2. Behind(runs[r].graph, records[r], t)
        BY <2>1 DEF Walked
      <3>3. records'[r][t] = records[r][t]
        BY <1>4, <2>1, <3>1
      <3>4. records[r][t].status # "skipped" <=> Open(runs[r].graph, records[r], t)
        BY <2>1 DEF Walked
      <3>5. QED
        BY <1>5, <3>1, <3>2, <3>3, <3>4
    <2>2. CASE records[r][t].status = "none"
      <3>1. Skip(r, t) \/ Reuse(r, t) \/ (Record(r) /\ runs[r].at.task = t)
        BY <1>6, <2>2, Decisions
      <3>2. runs[r].status = "running" /\ Behind(runs[r].graph, records[r], t)
        BY <1>3, <3>1 DEF Record, Walked
      <3>3. /\ Behind(runs'[r].graph, records'[r], t)
            /\ Open(runs'[r].graph, records'[r], t) <=> Open(runs[r].graph, records[r], t)
        BY <1>5, <3>2 DEF Unstarted
      <3>4. CASE Skip(r, t)
        <4>1. records'[r][t].status = "skipped"
          <5>1. records'[r][t] = [NoRecord EXCEPT !.status = "skipped"]
            BY <3>4, Written
          <5>2. QED
            BY <5>1 DEF NoRecord
        <4>2. QED
          BY <1>3, <3>3, <3>4, <4>1
      <3>5. CASE Reuse(r, t)
        <4>1. records'[r][t].status = "succeeded"
          <5>1. records'[r][t] = [records[runs[r].resumes][t] EXCEPT !.reused = TRUE]
                /\ runs[r].resumes \in Run
            BY <3>5, Written
          <5>2. records[runs[r].resumes][t] \in Result
            BY <5>1 DEF Shaped
          <5>3. QED
            BY <3>5, <5>1, <5>2 DEF Reuse, Reusable, Result
        <4>2. ~Skip(r, t)
          BY <3>5 DEF Reuse, Skip
        <4>3. QED
          BY <1>3, <3>3, <3>5, <4>1, <4>2
      <3>6. CASE Record(r) /\ runs[r].at.task = t
        <4>1. records'[r][t].status \in {"succeeded", "failed"}
          <5>1. records'[r][t] =
                  [status |-> IF runs[r].at.stage = "succeeded" THEN "succeeded" ELSE "failed",
                   settings |-> FingerprintIn(r, t), output |-> runs[r].at.output,
                   reused |-> FALSE]
            BY <3>6, Written
          <5>2. QED
            BY <5>1
        <4>2. Open(runs[r].graph, records[r], t)
          BY <3>6 DEF Record, Walked
        <4>3. QED
          BY <3>3, <4>1, <4>2
      <3>7. QED
        BY <3>1, <3>4, <3>5, <3>6
    <2>3. QED
      BY <2>1, <2>2
  <1>7. ASSUME NEW r \in Run, runs'[r].at.stage # "between"
        PROVE  /\ Behind(runs'[r].graph, records'[r], runs'[r].at.task)
               /\ Open(runs'[r].graph, records'[r], runs'[r].at.task)
    <2>1. PICK t : t = runs'[r].at.task
      OBVIOUS
    <2>2. \/ runs[r].at.stage # "between" /\ t = runs[r].at.task /\ runs[r].status = "running"
          \/ t \in Task /\ Begin(r, t)
      BY <1>7, <2>1, Beginnings
    <2>3. t \in Task
      BY <2>2 DEF Placed, AtPlace, RowPlaced
    <2>4. /\ runs[r].status = "running"
          /\ Behind(runs[r].graph, records[r], t) /\ Open(runs[r].graph, records[r], t)
      <3>1. CASE Begin(r, t)
        <4>1. ~Skip(r, t)
          BY <3>1 DEF Begin, Skip
        <4>2. QED
          BY <1>3, <2>3, <3>1, <4>1
      <3>2. QED
        BY <2>2, <3>1 DEF Walked
    <2>5. QED
      BY <1>5, <2>1, <2>3, <2>4 DEF Unstarted
  <1>8. QED
    BY <1>6, <1>7 DEF Walked

\* The first states.
LEMMA FirstIsWalked ==
    ASSUME Init
    PROVE  Shaped /\ Placed /\ Walked
  <1>1. \A r \in Run : runs[r] = Absent
    BY DEF Init
  <1>2. \A r \in Run, t \in Task : records[r][t] = NoRecord
    BY DEF Init
  <1>3. Between \in Place /\ Between.stage = "between" /\ Between.output = 0
    BY ExecutionAssumption DEF Between, Place, Stage
  <1>4. NoRecord \in Result /\ NoRecord.status = "none"
    BY ExecutionAssumption DEF NoRecord, NoPrint, Result, Fingerprint
  <1>5. revision \in [Task -> Settings] /\ graph \in Graphs
    BY ExecutionAssumption DEF Init
  <1>6. Absent \in RunRow
    BY <1>3, <1>5, ExecutionAssumption DEF Absent, RunRow, Status
  <1>7. Shaped
    BY <1>4, <1>5, <1>6 DEF Init, Shaped
  <1>8. AtPlace
    BY <1>1, <1>2, <1>3, <1>4 DEF AtPlace, RowPlaced, Absent
  <1>9. InTurn
    BY <1>1 DEF InTurn, Absent
  <1>10. Walked
    BY <1>1, <1>2, <1>3, <1>4 DEF Walked, Absent
  <1>11. QED
    BY <1>7, <1>8, <1>9, <1>10 DEF Placed

\* "Every incoming edge must be satisfied": a task was done, or taken over from
\* an earlier run, exactly when every task before it ended as its link asks
\* (should_run, and the order of topological_levels), for any graph, retries,
\* saves during the runs and deaths.
THEOREM GatesAreRespected == Spec => []GatesHold
  <1>1. Init => Shaped /\ Placed /\ Walked
    BY FirstIsWalked
  <1>2. Shaped /\ Placed /\ Walked /\ [Next]_vars => (Shaped /\ Placed /\ Walked)'
    BY PlacedStep, WalkedStep
  <1>3. Walked => GatesHold
    BY DEF Walked, GatesHold, Open, Opens
  <1>4. QED
    BY <1>1, <1>2, <1>3, PTL DEF Spec

-----------------------------------------------------------------------------
(* Bounds.                                                                 *)

\* The start of an execution loads the graph and the settings.
LEMMA StartLoads ==
    ASSUME Shaped, NEW r \in Run, Start(r)
    PROVE  /\ runs'[r].status = IF filled THEN "running" ELSE "failed"
           /\ runs'[r].resumes = runs[r].resumes
           /\ runs'[r].version = version
           /\ runs'[r].graph = graph
           /\ runs'[r].revision = revision
  <1> DEFINE row == [runs[r] EXCEPT !.status = IF filled THEN "running" ELSE "failed",
                                    !.version = version, !.graph = graph,
                                    !.revision = revision]
  <1>1. Becomes(r, row)
    BY RowSteps
  <1> HIDE DEF row
  <1>2. runs'[r] = row
    BY <1>1, OneRow
  <1>3. runs[r] \in RunRow
    BY DEF Shaped
  <1>4. QED
    BY <1>2, <1>3 DEF row, RunRow

\* Only the start of its execution loads a run's graph and settings.
LEMMA Loads ==
    ASSUME Shaped, [Next]_vars, NEW r \in Run
    PROVE  \/ /\ runs'[r].version = runs[r].version
              /\ runs'[r].graph = runs[r].graph
              /\ runs'[r].revision = runs[r].revision
           \/ /\ Start(r)
              /\ runs'[r].status = IF filled THEN "running" ELSE "failed"
              /\ runs'[r].version = version
              /\ runs'[r].graph = graph
              /\ runs'[r].revision = revision
  <1> DEFINE AsWere == /\ runs'[r].version = runs[r].version
                     /\ runs'[r].graph = runs[r].graph
                     /\ runs'[r].revision = runs[r].revision
             Loaded == /\ Start(r)
                       /\ runs'[r].status = IF filled THEN "running" ELSE "failed"
                       /\ runs'[r].version = version
                       /\ runs'[r].graph = graph
                       /\ runs'[r].revision = revision
  <1> SUFFICES AsWere \/ Loaded
    OBVIOUS
  <1>1. runs[r] \in RunRow
    BY DEF Shaped
  <1>2. ASSUME NEW q \in Run, NEW row, q # r, Becomes(q, row) PROVE AsWere
    BY <1>2, OneRow
  <1>3. ASSUME NEW row, Becomes(r, row) PROVE runs'[r] = row
    BY <1>3, OneRow
  <1>4. ASSUME Queue(r) PROVE AsWere
    <2>1. runs'[r] = [runs[r] EXCEPT !.status = "queued"]
      BY <1>3, <1>4, RowSteps
    <2>2. QED
      BY <1>1, <2>1 DEF RunRow
  <1>5. ASSUME NEW e \in Run, Resume(r, e) PROVE AsWere
    <2>1. runs'[r] = [runs[r] EXCEPT !.status = "queued", !.resumes = e]
      BY <1>3, <1>5, RowSteps
    <2>2. QED
      BY <1>1, <2>1 DEF RunRow
  <1>6. ASSUME Start(r) PROVE Loaded
    BY <1>6, StartLoads
  <1>7. ASSUME Finish(r) PROVE AsWere
    <2>1. runs'[r] = [runs[r] EXCEPT !.status = Verdict(r)]
      BY <1>3, <1>7, RowSteps
    <2>2. QED
      BY <1>1, <2>1 DEF RunRow
  <1>8. ASSUME StaleRow(r) \/ Death(r) PROVE AsWere
    <2>1. runs'[r] = [runs[r] EXCEPT !.status = "failed", !.at = Between]
      BY <1>3, <1>8, RowSteps
    <2>2. QED
      BY <1>1, <2>1 DEF RunRow
  <1>9. ASSUME \/ (\E t \in Task : Begin(r, t)) \/ Succeed(r) \/ Fail(r) \/ Unresolved(r)
               \/ Retry(r) \/ Record(r)
        PROVE  AsWere
    <2>1. PICK place : Becomes(r, Moved(r, place))
      BY <1>9, RowSteps
    <2>2. runs'[r] = Moved(r, place)
      BY <1>3, <2>1
    <2>3. QED
      BY <1>1, <2>2 DEF Moved, RunRow
  <1>10. ASSUME NEW q \in Run,
                \/ Queue(q) \/ (\E e \in Run : Resume(q, e)) \/ Start(q) \/ Record(q)
                \/ Finish(q) \/ StaleRow(q) \/ Death(q) \/ Succeed(q) \/ Fail(q)
                \/ Unresolved(q) \/ Retry(q) \/ (\E t \in Task : Begin(q, t))
         PROVE  AsWere \/ Loaded
    <2>1. CASE q = r
      BY <1>4, <1>5, <1>6, <1>7, <1>8, <1>9, <1>10, <2>1
    <2>2. CASE q # r
      <3>1. \E row : Becomes(q, row)
        BY <1>10, RowSteps
      <3>2. QED
        BY <1>2, <2>2, <3>1
    <2>3. QED
      BY <2>1, <2>2
  <1>11. ASSUME runs' = runs PROVE AsWere
    BY <1>11
  <1>12. QED
    BY <1>10, <1>11 DEF Next, Execute, Skip, Reuse, SaveSettings, SaveLinks, SaveNothing,
           SaveUnfilled, Done, vars

\* A run loads a version that was there, tries no more often than it may, and
\* records names what was made; what was made by a loaded run used what was
\* made before it.
Bounded ==
    /\ \A r \in Run :
         /\ runs[r].version <= version
         /\ runs[r].at.task # 0 =>
              runs[r].at.tries <= 1 + runs[r].graph.retries[runs[r].at.task]
         /\ runs[r].at.output <= Len(made)
         /\ \A t \in Task : records[r][t].output <= Len(made)
    /\ \A i \in DOMAIN made :
         /\ runs[made[i].run].status \notin Unstarted
         /\ made[i].input < i
         /\ made[i].after \in [Upstream(runs[made[i].run].graph, made[i].task) -> 0 .. i - 1]

\* A version number only grows.
LEMMA VersionGrows ==
    ASSUME Shaped, [Next]_vars
    PROVE  version \in Nat /\ version' \in Nat /\ version <= version'
  <1>1. version \in Nat
    BY DEF Shaped
  <1>2. version' = version \/ version' = version + 1
    BY ZenonT(40) DEF Next, Execute, Queue, Resume, Start, Begin, Succeed, Record, Fail, Unresolved, Retry,
           Finish, StaleRow, Death, SaveSettings, SaveLinks, SaveNothing, SaveUnfilled, Done,
           vars, Skip, Reuse
  <1>3. QED
    BY <1>1, <1>2

\* The inductive step of Bounded.
LEMMA BoundedStep ==
    ASSUME Shaped, Placed, Walked, Bounded, [Next]_vars
    PROVE  Bounded'
  <1>1. Shaped' /\ Placed' /\ Stands
    BY PlacedStep
  <1>2. /\ Len(made) \in Nat /\ Len(made') \in Nat /\ Len(made) <= Len(made')
        /\ DOMAIN made = 1 .. Len(made) /\ DOMAIN made' = 1 .. Len(made')
        /\ \A i \in 1 .. Len(made) : made[i] \in Work /\ made'[i] = made[i]
    <2>1. made \in Seq(Work)
      BY DEF Shaped
    <2>2. CASE made' = made
      BY <2>1, <2>2
    <2>3. ASSUME NEW e \in Work, made' = Append(made, e)
          PROVE  /\ Len(made') = Len(made) + 1
                 /\ made' \in Seq(Work)
                 /\ \A i \in 1 .. Len(made) : made'[i] = made[i]
      BY <2>1, <2>3
    <2>4. QED
      BY <2>1, <2>2, <2>3, Makings
  <1>3. \A r \in Run : runs[r] \in RunRow /\ runs[r].at \in Place /\ runs'[r].at \in Place
    BY <1>1 DEF Shaped, RunRow
  <1>4. \A r \in Run, t \in Task : records[r][t] \in Result
    BY DEF Shaped
  <1>5. ASSUME NEW r \in Run PROVE runs'[r].version <= version'
    <2>1. runs'[r].version = runs[r].version \/ runs'[r].version = version
      BY Loads
    <2>2. runs[r].version <= version /\ runs[r].version \in Nat
      BY <1>3 DEF Bounded, RunRow
    <2>3. QED
      BY <2>1, <2>2, VersionGrows
  <1>6. ASSUME NEW r \in Run, runs'[r].at.task # 0
        PROVE  runs'[r].at.tries <= 1 + runs'[r].graph.retries[runs'[r].at.task]
    <2>1. Between.task = 0
      BY DEF Between
    <2>2. runs'[r].at.stage # "between"
      BY <1>1, <1>6, <2>1 DEF Placed, AtPlace, RowPlaced
    <2>3. PICK t : t = runs'[r].at.task
      OBVIOUS
    <2>4. \/ runs[r].at.task = t /\ runs[r].status = "running"
          \/ Begin(r, t) /\ t \in Task
      BY <2>2, <2>3, Beginnings
    <2>5. runs[r].status = "running"
      BY <2>4 DEF Begin, At
    <2>6. PICK g \in Graphs : g = runs[r].graph /\ g = runs'[r].graph
      BY <1>1, <1>3, <2>5 DEF RunRow, Stands, Unstarted
    <2>7. t \in Task
      BY <1>1, <2>2, <2>3 DEF Placed, AtPlace, RowPlaced
    <2>8. g.retries[t] \in Nat
      BY <2>7, GraphsAreRight
    <2>9. CASE Begins(r)
      <3>1. runs'[r].at.tries = 1
        BY <2>9 DEF Begins
      <3>2. QED
        BY <2>3, <2>6, <2>8, <3>1
    <2>10. CASE Retries(r)
      <3>1. /\ runs'[r].at.tries = runs[r].at.tries + 1 /\ runs[r].at.tries \in Nat
            /\ runs'[r].at.task = runs[r].at.task
        BY <1>3, <2>10 DEF Retries, Place
      <3>2. runs[r].at.tries <= g.retries[t]
        BY <2>3, <2>6, <2>10, <3>1 DEF Retries, Retry
      <3>3. QED
        BY <2>3, <2>6, <2>8, <3>1, <3>2
    <2>11. CASE SamePlace(r) \/ Succeeds(r) \/ Ends(r)
      <3>1. runs'[r].at.tries = runs[r].at.tries /\ runs'[r].at.task = runs[r].at.task
        BY <1>3, <2>11 DEF SamePlace, Succeeds, Ends, Place
      <3>2. QED
        BY <1>6, <2>6, <3>1 DEF Bounded
    <2>12. ~Leaves(r)
      BY <1>6, <2>1 DEF Leaves
    <2>13. QED
      BY <2>9, <2>10, <2>11, <2>12, Placements
  <1>7. ASSUME NEW r \in Run PROVE runs'[r].at.output <= Len(made')
    <2>1. runs[r].at.output \in Nat /\ runs[r].at.output <= Len(made)
      BY <1>3 DEF Bounded, Place
    <2>2. CASE Succeeds(r)
      <3>1. made' = Append(made, Effort(r))
        BY <2>2 DEF Succeeds, Succeed, Effort
      <3>2. Len(made') = Len(made) + 1
        BY <3>1 DEF Shaped
      <3>3. QED
        BY <1>2, <1>3, <2>2, <3>2 DEF Succeeds, Place
    <2>3. CASE ~Succeeds(r)
      <3>1. runs'[r].at.output \in {0, runs[r].at.output}
        <4>1. SamePlace(r) \/ Ends(r) \/ Retries(r) => runs'[r].at.output = runs[r].at.output
          BY <1>3 DEF SamePlace, Ends, Retries, Place
        <4>2. Leaves(r) => runs'[r].at.output = 0
          BY DEF Leaves, Between
        <4>3. Begins(r) => runs'[r].at.output = 0
          BY DEF Begins
        <4>4. QED
          BY <2>3, <4>1, <4>2, <4>3, Placements
      <3>2. QED
        BY <1>2, <2>1, <3>1
    <2>4. QED
      BY <2>2, <2>3
  <1>8. ASSUME NEW r \in Run, NEW t \in Task PROVE records'[r][t].output <= Len(made')
    <2>1. \A q \in Run : records[q][t].output \in Nat /\ records[q][t].output <= Len(made)
      BY <1>4 DEF Bounded, Result
    <2>2. CASE records'[r][t] = records[r][t]
      BY <1>2, <2>1, <2>2
    <2>3. CASE Skip(r, t)
      <3>1. records'[r][t] = [NoRecord EXCEPT !.status = "skipped"]
        BY <2>3, Written
      <3>2. QED
        BY <1>2, <3>1 DEF NoRecord
    <2>4. CASE Reuse(r, t)
      <3>1. PICK e \in Run : records'[r][t] = [records[e][t] EXCEPT !.reused = TRUE]
        BY <2>4, Written
      <3>2. records'[r][t].output = records[e][t].output
        BY <1>4, <3>1 DEF Result
      <3>3. QED
        BY <1>2, <2>1, <3>2
    <2>5. CASE Record(r) /\ runs[r].at.task = t
      <3>1. records'[r][t].output = runs[r].at.output
        <4>1. records'[r][t] =
                [status |-> IF runs[r].at.stage = "succeeded" THEN "succeeded" ELSE "failed",
                 settings |-> FingerprintIn(r, t), output |-> runs[r].at.output,
                 reused |-> FALSE]
          BY <2>5, Written
        <4>2. QED
          BY <4>1
      <3>2. QED
        BY <1>2, <1>3, <3>1 DEF Bounded, Place
    <2>6. QED
      BY <2>2, <2>3, <2>4, <2>5, Decisions
  <1>9. ASSUME NEW i \in DOMAIN made
        PROVE  /\ runs'[made'[i].run].status \notin Unstarted
               /\ made'[i].input < i
               /\ made'[i].after \in
                    [Upstream(runs'[made'[i].run].graph, made'[i].task) -> 0 .. i - 1]
    <2>1. made'[i] = made[i]
      BY <1>2
    <2>2. PICK r \in Run : r = made[i].run
      BY <1>2 DEF Work
    <2>3. /\ runs[r].status \notin Unstarted
          /\ made[i].input < i
          /\ made[i].after \in [Upstream(runs[r].graph, made[i].task) -> 0 .. i - 1]
      BY <2>2 DEF Bounded
    <2>4. runs'[r].status \notin Unstarted /\ runs'[r].graph = runs[r].graph
      BY <1>1, <2>3 DEF Stands
    <2>5. QED
      BY <2>1, <2>2, <2>3, <2>4
  <1>10. ASSUME NEW i \in DOMAIN made', i \notin DOMAIN made
         PROVE  /\ runs'[made'[i].run].status \notin Unstarted
                /\ made'[i].input < i
                /\ made'[i].after \in
                     [Upstream(runs'[made'[i].run].graph, made'[i].task) -> 0 .. i - 1]
    <2>1. PICK r \in Run : /\ Succeed(r) /\ runs[r].at.task \in Task
                           /\ Effort(r) \in Work /\ made' = Append(made, Effort(r))
      BY <1>10, Makings
    <2>2. i = Len(made) + 1 /\ made'[i] = Effort(r)
      BY <1>2, <1>10, <2>1 DEF Shaped
    <2>3. PICK t \in Task : t = runs[r].at.task
      BY <2>1
    <2>4. /\ made'[i].run = r /\ made'[i].task = t /\ made'[i].input = Input(r, t)
          /\ made'[i].after = [u \in Upstream(runs[r].graph, t) |-> records[r][u].output]
      BY <2>2, <2>3 DEF Effort
    <2>5. runs'[r].status \notin Unstarted /\ runs'[r].graph = runs[r].graph
      BY <1>1, <2>1 DEF Stands, Succeed, Unstarted
    <2>6. runs[r].graph \in Graphs
      BY <1>3 DEF RunRow
    <2>7. \A u \in Task : records[r][u].output \in 0 .. i - 1
      BY <1>2, <1>4, <2>2 DEF Bounded, Result
    <2>8. Input(r, t) \in 0 .. i - 1
      <3>1. runs[r].graph.uses[t] # 0 => runs[r].graph.uses[t] \in Task
        <4>1. runs[r].graph.uses[t] \in 0 .. Tasks
          BY <2>6, GraphsAreRight
        <4>2. QED
          BY <4>1, ExecutionAssumption DEF Task
      <3>2. QED
        BY <1>2, <2>2, <2>7, <3>1, SMTT(30) DEF Input
    <2>9. [u \in Upstream(runs[r].graph, t) |-> records[r][u].output]
             \in [Upstream(runs[r].graph, t) -> 0 .. i - 1]
      BY <2>6, <2>7, GraphsAreRight
    <2>10. QED
      BY <1>2, <2>2, <2>4, <2>5, <2>8, <2>9
  <1>11. QED
    BY <1>5, <1>6, <1>7, <1>8, <1>9, <1>10 DEF Bounded

\* Nothing is made in the first states.
LEMMA FirstIsBounded ==
    ASSUME Init
    PROVE  Bounded
  <1>1. \A r \in Run : /\ runs[r].version = 0 /\ runs[r].at = Between
                       /\ \A t \in Task : records[r][t] = NoRecord
    BY DEF Init, Absent
  <1>2. version = 0 /\ made = << >>
    BY DEF Init
  <1>3. QED
    BY <1>1, <1>2 DEF Bounded, Between, NoRecord

\* The rows, the records and what was made have their types: a run resumes an
\* earlier one, a task is tried once more than its retries at most, a record
\* names work that was done, and work names work done before it.
THEOREM TypesHold == Spec => []TypeOK
  <1>1. Init => Shaped /\ Placed /\ Walked /\ Bounded
    BY FirstIsWalked, FirstIsBounded
  <1>2. Shaped /\ Placed /\ Walked /\ Bounded /\ [Next]_vars
        => (Shaped /\ Placed /\ Walked /\ Bounded)'
    BY PlacedStep, WalkedStep, BoundedStep
  <1>3. Shaped /\ Placed /\ Walked /\ Bounded => TypeOK
    <2> SUFFICES ASSUME Shaped, Placed, Bounded PROVE TypeOK
      OBVIOUS
    <2>1. Len(made) \in Nat /\ DOMAIN made = 1 .. Len(made)
      BY DEF Shaped
    <2>2. ASSUME NEW r \in Run
          PROVE  /\ runs[r].status \in Status
                 /\ runs[r].resumes \in 0 .. r - 1
                 /\ runs[r].version \in 0 .. version
                 /\ runs[r].graph \in Graphs
                 /\ runs[r].revision \in [Task -> Settings]
                 /\ runs[r].at.task \in 0 .. Tasks
                 /\ runs[r].at.stage \in Stage
                 /\ runs[r].at.tries \in Nat
                 /\ runs[r].at.task # 0 =>
                      runs[r].at.tries <= 1 + runs[r].graph.retries[runs[r].at.task]
                 /\ runs[r].at.output \in 0 .. Len(made)
      <3>1. runs[r] \in RunRow /\ runs[r].at \in Place /\ r \in Nat \ {0}
        BY ExecutionAssumption DEF Shaped, RunRow, Run
      <3>2. runs[r].resumes \in 0 .. r - 1
        BY <3>1 DEF Placed, InTurn, RunRow
      <3>3. runs[r].version \in 0 .. version /\ runs[r].at.output \in 0 .. Len(made)
        BY <2>1, <3>1 DEF Bounded, RunRow, Place, Shaped
      <3>4. QED
        BY <3>1, <3>2, <3>3 DEF Bounded, RunRow, Place
    <2>3. ASSUME NEW r \in Run, NEW t \in Task
          PROVE  /\ records[r][t].status \in {"none", "skipped", "succeeded", "failed"}
                 /\ records[r][t].settings \in Fingerprint
                 /\ records[r][t].output \in 0 .. Len(made)
                 /\ records[r][t].reused \in BOOLEAN
      <3>1. records[r][t] \in Result
        BY DEF Shaped
      <3>2. records[r][t].output \in 0 .. Len(made)
        BY <2>1, <3>1 DEF Bounded, Result
      <3>3. QED
        BY <3>1, <3>2 DEF Result
    <2>4. ASSUME NEW i \in DOMAIN made
          PROVE  /\ made[i].task \in Task /\ made[i].run \in Run
                 /\ made[i].settings \in Fingerprint
                 /\ made[i].input \in 0 .. i - 1
                 /\ made[i].after \in
                      [Upstream(runs[made[i].run].graph, made[i].task) -> 0 .. i - 1]
      <3>1. made[i] \in Work /\ i \in Nat
        BY <2>1 DEF Shaped
      <3>2. QED
        BY <3>1 DEF Bounded, Work
    <2>5. QED
      BY <2>2, <2>3, <2>4 DEF TypeOK, Shaped, Status, Stage
  <1>4. QED
    BY <1>1, <1>2, <1>3, PTL DEF Spec

-----------------------------------------------------------------------------
(* What a run records is what it was made from.                            *)

\* Every task is linked behind the task whose dataset it uses.
UsesAreLinked ==
    \A g \in Graphs : \A t \in Task : g.uses[t] # 0 => g.uses[t] \in Upstream(g, t)

\* A set of runs holds what its runs, and the run, pick up.
Closed(r, S) == \A q \in S \cup {r} : runs[q].resumes # 0 => runs[q].resumes \in S

\* The runs a run picks up from are the one it resumes and those that one picks
\* up from; all of them ended without success before it was queued.
LEMMA Chain ==
    ASSUME Shaped, Placed, NEW r \in Run
    PROVE  /\ runs[r].resumes = 0 => Ancestors(r) = {}
           /\ runs[r].resumes # 0 =>
                /\ runs[r].resumes \in Run
                /\ Ancestors(r) = {runs[r].resumes} \cup Ancestors(runs[r].resumes)
           /\ \A a \in Ancestors(r) :
                a \in Run /\ a < r /\ runs[a].status \in {"failed", "partial"}
  <1>1. \A q \in Run : Ancestors(q) = {a \in Run : \A S \in SUBSET Run : Closed(q, S) => a \in S}
    BY DEF Ancestors, Closed
  <1>2. \A q \in Run : q \in Nat /\ runs[q].resumes \in Nat
    BY ExecutionAssumption DEF Run, Shaped, RunRow
  <1>3. \A q \in Run : runs[q].resumes # 0 =>
          /\ runs[q].resumes \in Run /\ runs[q].resumes < q
          /\ runs[runs[q].resumes].status \in {"failed", "partial"}
    BY DEF Placed, InTurn
  <1>4. ASSUME runs[r].resumes = 0 PROVE Ancestors(r) = {}
    <2>1. Closed(r, {})
      BY <1>4 DEF Closed
    <2>2. QED
      BY <1>1, <2>1
  <1>5. ASSUME NEW p \in Run, p = runs[r].resumes, runs[r].resumes # 0
        PROVE  Ancestors(r) = {p} \cup Ancestors(p)
    <2>1. ASSUME NEW S \in SUBSET Run, Closed(r, S) PROVE p \in S /\ Closed(p, S)
      BY <1>5, <2>1 DEF Closed
    <2>2. {p} \cup Ancestors(p) \subseteq Ancestors(r)
      BY <1>1, <2>1
    <2>3. Closed(r, {p} \cup Ancestors(p))
      <3>1. ASSUME NEW q \in {p} \cup Ancestors(p), runs[q].resumes # 0
            PROVE  runs[q].resumes \in Ancestors(p)
        <4>1. q \in Run
          BY <1>1, <3>1
        <4>2. \A S \in SUBSET Run : Closed(p, S) => runs[q].resumes \in S
          BY <1>1, <3>1 DEF Closed
        <4>3. QED
          BY <1>1, <1>3, <3>1, <4>1, <4>2
      <3>2. QED
        BY <1>5, <3>1 DEF Closed
    <2>4. {p} \cup Ancestors(p) \in SUBSET Run
      BY <1>1
    <2>5. Ancestors(r) \subseteq {p} \cup Ancestors(p)
      BY <1>1, <2>3, <2>4
    <2>6. QED
      BY <2>2, <2>5
  <1>6. ASSUME NEW a \in Ancestors(r)
        PROVE  a \in Run /\ a < r /\ runs[a].status \in {"failed", "partial"}
    <2> DEFINE S == {q \in Run : q < r /\ runs[q].status \in {"failed", "partial"}}
    <2>1. Closed(r, S)
      <3>1. ASSUME NEW q \in S \cup {r}, runs[q].resumes # 0 PROVE runs[q].resumes \in S
        <4>1. q \in Run /\ q <= r
          BY <1>2, <3>1
        <4>2. runs[q].resumes \in Run /\ runs[q].resumes < q
              /\ runs[runs[q].resumes].status \in {"failed", "partial"}
          BY <1>3, <3>1, <4>1
        <4>3. runs[q].resumes < r
          BY <1>2, <4>1, <4>2
        <4>4. QED
          BY <4>2, <4>3
      <3>2. QED
        BY <3>1 DEF Closed
    <2>2. a \in S
      BY <1>1, <2>1
    <2>3. QED
      BY <2>2
  <1>7. QED
    BY <1>3, <1>4, <1>5, <1>6

\* The runs a queued run picks up from stay what they are.
LEMMA ChainKept ==
    ASSUME Shaped, Placed, [Next]_vars, NEW r \in Run, runs[r].status # "absent"
    PROVE  Ancestors(r)' = Ancestors(r)
  <1>0. PICK There : There = {q \in Run : runs[q].status # "absent"}
    OBVIOUS
  <1>1. Stands
    BY PlacedStep
  <1>2. r \in There /\ \A q \in There : runs'[q].resumes = runs[q].resumes
    BY <1>0, <1>1 DEF Stands
  <1>3. \A q \in There : runs[q].resumes # 0 => runs[q].resumes \in There
    BY <1>0 DEF Placed, InTurn
  <1>4. ASSUME NEW S \in SUBSET Run, Closed(r, S) PROVE Closed(r, S \cap There)'
    BY <1>2, <1>3, <1>4 DEF Closed
  <1>5. ASSUME NEW S \in SUBSET Run, Closed(r, S)' PROVE Closed(r, S \cap There)
    BY <1>2, <1>3, <1>5 DEF Closed
  <1>6. /\ Ancestors(r) = {a \in Run : \A S \in SUBSET Run : Closed(r, S) => a \in S}
        /\ Ancestors(r)' = {a \in Run : \A S \in SUBSET Run : Closed(r, S)' => a \in S}
    BY DEF Ancestors, Closed
  <1>7. ASSUME NEW a \in Ancestors(r) PROVE a \in Ancestors(r)'
    BY <1>5, <1>6
  <1>8. ASSUME NEW a \in Ancestors(r)' PROVE a \in Ancestors(r)
    BY <1>4, <1>6, <1>8
  <1>9. QED
    BY <1>7, <1>8

\* The work has the settings the run loaded and follows what the run records.
Agrees(i, r, t) ==
    /\ made[i].settings = FingerprintIn(r, t)
    /\ UsesAreLinked => made[i].input = Input(r, t)
    /\ \A u \in Upstream(runs[r].graph, t) : made[i].after[u] = records[r][u].output

DoneBy(i, r, t) ==
    /\ i \in DOMAIN made
    /\ made[i].task = t /\ made[i].run = r
    /\ Agrees(i, r, t)

\* What a run has done is recorded as it was done; what it took over is what the
\* run it resumes records, like all before it.
Kept ==
    /\ \A r \in Run :
         runs[r].at.stage = "succeeded" => DoneBy(runs[r].at.output, r, runs[r].at.task)
    /\ \A r \in Run, t \in Task :
         /\ records[r][t].output # 0 => records[r][t].status = "succeeded"
         /\ records[r][t].status = "succeeded" =>
              /\ records[r][t].output \in DOMAIN made
              /\ made[records[r][t].output].settings = FingerprintIn(r, t)
              /\ records[r][t].settings = FingerprintIn(r, t)
              /\ ~records[r][t].reused => DoneBy(records[r][t].output, r, t)
         /\ records[r][t].reused =>
              /\ runs[r].resumes \in Run
              /\ records[r][t].status = "succeeded"
              /\ records[runs[r].resumes][t].status = "succeeded"
              /\ records[runs[r].resumes][t].output = records[r][t].output
              /\ \A u \in Upstream(runs[r].graph, t) : records[r][u].reused

\* Work that agrees with decided records goes on to agree with them.
LEMMA AgreesOn ==
    ASSUME Shaped, Placed, [Next]_vars,
           NEW r \in Run, NEW t \in Task, NEW i \in DOMAIN made,
           runs[r].status \notin Unstarted, Behind(runs[r].graph, records[r], t)
    PROVE  /\ i \in DOMAIN made' /\ made'[i] = made[i]
           /\ FingerprintIn(r, t)' = FingerprintIn(r, t)
           /\ Agrees(i, r, t)' <=> Agrees(i, r, t)
  <1>1. Stands
    BY PlacedStep
  <1>2. PICK g \in Graphs : g = runs[r].graph /\ g = runs'[r].graph
    BY <1>1 DEF Stands, Shaped, RunRow
  <1>3. runs'[r].revision = runs[r].revision
    BY <1>1 DEF Stands
  <1>4. \A u \in Upstream(g, t) : u \in Task /\ records'[r][u] = records[r][u]
    BY <1>1, <1>2, GraphsAreRight DEF Stands, Behind
  <1>5. i \in DOMAIN made' /\ made'[i] = made[i]
    <2>1. made \in Seq(Work)
      BY DEF Shaped
    <2>2. ASSUME NEW e \in Work, made' = Append(made, e)
          PROVE  i \in DOMAIN made' /\ made'[i] = made[i]
      BY <2>1, <2>2
    <2>3. QED
      BY <2>2, Makings
  <1>6. FingerprintIn(r, t)' = FingerprintIn(r, t)
    BY <1>2, <1>3 DEF FingerprintIn
  <1>7. UsesAreLinked => Input(r, t)' = Input(r, t)
    <2>1. UsesAreLinked /\ g.uses[t] # 0 => records'[r][g.uses[t]] = records[r][g.uses[t]]
      BY <1>4 DEF UsesAreLinked
    <2>2. QED
      BY <1>2, <2>1 DEF Input
  <1>8. Agrees(i, r, t)' <=> Agrees(i, r, t)
    BY <1>2, <1>4, <1>5, <1>6, <1>7 DEF Agrees
  <1>9. QED
    BY <1>5, <1>6, <1>8

\* The inductive step of Kept.
LEMMA KeptStep ==
    ASSUME Shaped, Placed, Walked, Bounded, Kept, [Next]_vars
    PROVE  Kept'
  <1>1. Shaped' /\ Placed' /\ Stands
    BY PlacedStep
  <1>2. \A r \in Run : /\ runs[r] \in RunRow /\ runs[r].at \in Place
                       /\ runs[r].at.stage # "between" =>
                            runs[r].status = "running" /\ runs[r].at.task \in Task
    <2>1. Between.stage = "between"
      BY DEF Between
    <2>2. QED
      BY <2>1 DEF Shaped, RunRow, Placed, AtPlace, RowPlaced
  <1>3. \A r \in Run, t \in Task :
          /\ records[r][t] \in Result
          /\ records[r][t].status # "none" => runs[r].status \notin Unstarted
    BY DEF Shaped, Placed, AtPlace, RowPlaced
  <1>4. ASSUME NEW r \in Run, NEW t \in Task, NEW i, runs[r].status \notin Unstarted,
               Behind(runs[r].graph, records[r], t), DoneBy(i, r, t)
        PROVE  DoneBy(i, r, t)'
    BY <1>4, AgreesOn DEF DoneBy
  <1>5. ASSUME NEW r \in Run, NEW i, NEW t, runs'[r].at.stage = "succeeded",
               i = runs'[r].at.output, t = runs'[r].at.task
        PROVE  DoneBy(i, r, t)'
    <2>1. CASE SamePlace(r)
      <3>1. /\ runs[r].status = "running" /\ t \in Task
            /\ DoneBy(i, r, t) /\ Behind(runs[r].graph, records[r], t)
        BY <1>2, <1>5, <2>1 DEF SamePlace, Kept, Walked
      <3>2. QED
        BY <1>4, <3>1 DEF Unstarted
    <2>2. CASE Succeeds(r)
      <3>1. runs[r].status = "running" /\ runs[r].at.stage = "working" /\ records' = records
        BY <2>2 DEF Succeeds, Succeed
      <3>2. i = Len(made) + 1 /\ t = runs[r].at.task /\ t \in Task
        BY <1>2, <1>5, <2>2, <3>1 DEF Succeeds, Place
      <3>3. made' = Append(made, Effort(r)) /\ Effort(r) \in Work
        BY <2>2, <3>2, SucceedMakes DEF Succeeds
      <3>4. i \in DOMAIN made' /\ made'[i] = Effort(r)
        BY <3>2, <3>3 DEF Shaped
      <3>5. runs'[r].graph = runs[r].graph /\ runs'[r].revision = runs[r].revision
        BY <1>1, <3>1 DEF Stands, Unstarted
      <3>6. /\ FingerprintIn(r, t)' = FingerprintIn(r, t)
            /\ Input(r, t)' = Input(r, t)
        BY <3>1, <3>5 DEF FingerprintIn, Input
      <3>7. Agrees(i, r, t)'
        BY <3>1, <3>2, <3>4, <3>5, <3>6 DEF Agrees, Effort
      <3>8. made'[i].task = t /\ made'[i].run = r
        BY <3>2, <3>4 DEF Effort
      <3>9. QED
        BY <3>4, <3>7, <3>8 DEF DoneBy
    <2>3. ~Leaves(r)
      BY <1>5 DEF Leaves, Between
    <2>4. ~Begins(r)
      <3>1. Begins(r) => runs'[r].at.stage = "working"
        BY DEF Begins
      <3>2. QED
        BY <1>5, <3>1
    <2>5. ~Ends(r) /\ ~Retries(r)
      BY <1>2, <1>5 DEF Ends, Retries, Place
    <2>6. QED
      BY <2>1, <2>2, <2>3, <2>4, <2>5, Placements
  <1>6. ASSUME NEW r \in Run, NEW t \in Task, NEW o, NEW p,
               o = records'[r][t].output, p = runs'[r].resumes
        PROVE  /\ o # 0 => records'[r][t].status = "succeeded"
               /\ records'[r][t].status = "succeeded" =>
                    /\ o \in DOMAIN made'
                    /\ made'[o].settings = FingerprintIn(r, t)'
                    /\ records'[r][t].settings = FingerprintIn(r, t)'
                    /\ ~records'[r][t].reused => DoneBy(o, r, t)'
               /\ records'[r][t].reused =>
                    /\ p \in Run
                    /\ records'[r][t].status = "succeeded"
                    /\ records'[p][t].status = "succeeded"
                    /\ records'[p][t].output = o
                    /\ \A u \in Upstream(runs'[r].graph, t) : records'[r][u].reused
    <2>1. CASE records'[r][t] = records[r][t] /\ records[r][t].status # "none"
      <3>1. /\ runs[r].status \notin Unstarted /\ runs'[r].resumes = runs[r].resumes
            /\ runs'[r].graph = runs[r].graph /\ runs[r].graph \in Graphs
        BY <1>1, <1>2, <1>3, <2>1 DEF Stands, Unstarted, RunRow
      <3>2. Behind(runs[r].graph, records[r], t)
        BY <2>1 DEF Walked
      <3>3. ASSUME records[r][t].status = "succeeded"
            PROVE  /\ o \in DOMAIN made'
                   /\ made'[o].settings = FingerprintIn(r, t)'
                   /\ records'[r][t].settings = FingerprintIn(r, t)'
                   /\ ~records'[r][t].reused => DoneBy(o, r, t)'
        BY <1>4, <1>6, <2>1, <3>1, <3>2, <3>3, AgreesOn DEF Kept
      <3>4. ASSUME records[r][t].reused
            PROVE  /\ p \in Run
                   /\ records[r][t].status = "succeeded"
                   /\ records'[p][t].status = "succeeded"
                   /\ records'[p][t].output = o
                   /\ \A u \in Upstream(runs'[r].graph, t) : records'[r][u].reused
        <4>1. /\ p \in Run /\ records[r][t].status = "succeeded"
              /\ records[p][t].status = "succeeded" /\ records[p][t].output = o
          BY <1>6, <2>1, <3>1, <3>4 DEF Kept
        <4>2. records'[p][t] = records[p][t]
          BY <1>1, <4>1 DEF Stands
        <4>3. \A u \in Upstream(runs[r].graph, t) : u \in Task /\ records[r][u].reused
          BY <3>1, <3>4, GraphsAreRight DEF Kept
        <4>4. \A u \in Upstream(runs[r].graph, t) : records'[r][u] = records[r][u]
          BY <1>1, <3>2, <4>3 DEF Stands, Behind
        <4>5. QED
          BY <3>1, <4>1, <4>2, <4>3, <4>4
      <3>5. QED
        BY <1>6, <2>1, <3>3, <3>4 DEF Kept
    <2>2. CASE records'[r][t] = records[r][t] /\ records[r][t].status = "none"
      BY <1>6, <2>2 DEF Kept
    <2>3. CASE Skip(r, t)
      <3>1. records'[r][t] = [NoRecord EXCEPT !.status = "skipped"]
        BY <2>3, Written
      <3>2. QED
        BY <1>6, <3>1 DEF NoRecord
    <2>4. CASE Reuse(r, t)
      <3>1. /\ runs' = runs /\ made' = made /\ p \in Run
            /\ records'[r][t] = [records[p][t] EXCEPT !.reused = TRUE]
        <4>1. runs' = runs /\ made' = made
          BY <2>4 DEF Reuse
        <4>2. p = runs[r].resumes
          BY <1>6, <4>1
        <4>3. QED
          BY <2>4, <4>1, <4>2, Written
      <3>2. /\ records[p][t].status = "succeeded"
            /\ records[p][t].settings = FingerprintIn(r, t)
            /\ \A u \in Upstream(runs[r].graph, t) : records[r][u].reused
        BY <1>6, <2>4, <3>1 DEF Reuse, Reusable
      <3>3. /\ records'[r][t].status = "succeeded" /\ records'[r][t].reused
            /\ records'[r][t].settings = FingerprintIn(r, t) /\ o = records[p][t].output
        BY <1>3, <1>6, <3>1, <3>2 DEF Result
      <3>4. FingerprintIn(r, t)' = FingerprintIn(r, t)
        BY <3>1 DEF FingerprintIn
      <3>5. o \in DOMAIN made /\ made[o].settings = FingerprintIn(r, t)
        BY <3>1, <3>2, <3>3 DEF Kept
      <3>6. records'[p][t] = records[p][t]
        BY <1>1, <3>1, <3>2 DEF Stands
      <3>7. \A u \in Upstream(runs[r].graph, t) : records'[r][u].reused
        <4>1. \A u \in Upstream(runs[r].graph, t) :
                u \in Task /\ u # t
          BY <2>4, NextIsReady DEF Reuse, At
        <4>2. \A u \in Upstream(runs[r].graph, t) : records'[r][u] = records[r][u]
          BY <2>4, <4>1 DEF Reuse, Shaped
        <4>3. QED
          BY <3>2, <4>2
      <3>8. QED
        BY <3>1, <3>2, <3>3, <3>4, <3>5, <3>6, <3>7
    <2>5. CASE Record(r) /\ runs[r].at.task = t
      <3>1. records'[r][t] =
              [status |-> IF runs[r].at.stage = "succeeded" THEN "succeeded" ELSE "failed",
               settings |-> FingerprintIn(r, t), output |-> runs[r].at.output,
               reused |-> FALSE]
        BY <2>5, Written
      <3>2. /\ records'[r][t].status = IF runs[r].at.stage = "succeeded" THEN "succeeded"
                                       ELSE "failed"
            /\ records'[r][t].settings = FingerprintIn(r, t)
            /\ o = runs[r].at.output /\ records'[r][t].reused = FALSE
        BY <1>6, <3>1
      <3>3. o # 0 => runs[r].at.stage = "succeeded"
        BY <3>2 DEF Placed, AtPlace, RowPlaced
      <3>4. runs[r].status = "running" /\ Behind(runs[r].graph, records[r], t)
        BY <1>2, <2>5 DEF Record, Walked
      <3>5. ASSUME runs[r].at.stage = "succeeded"
            PROVE  /\ o \in DOMAIN made' /\ DoneBy(o, r, t)'
                   /\ made'[o].settings = FingerprintIn(r, t)'
                   /\ FingerprintIn(r, t)' = FingerprintIn(r, t)
        <4>1. DoneBy(o, r, t)
          BY <2>5, <3>2, <3>5 DEF Kept
        <4>2. o \in DOMAIN made
          BY <4>1 DEF DoneBy
        <4>3. DoneBy(o, r, t)'
          BY <1>4, <3>4, <4>1 DEF Unstarted
        <4>4. FingerprintIn(r, t)' = FingerprintIn(r, t)
          BY <3>4, <4>2, AgreesOn DEF Unstarted
        <4>5. QED
          BY <4>3, <4>4 DEF DoneBy, Agrees
      <3>6. QED
        BY <3>2, <3>3, <3>5
    <2>6. QED
      BY <2>1, <2>2, <2>3, <2>4, <2>5, Decisions
  <1>7. QED
    <2>1. \A r \in Run : runs'[r].at.stage = "succeeded" =>
            DoneBy(runs[r].at.output, r, runs[r].at.task)'
      BY <1>5
    <2>2. QED
      BY <1>6, <2>1 DEF Kept

\* The inductive step of CoherentResults.
LEMMA CoherentStep ==
    ASSUME UsesAreLinked, Shaped, Placed, Walked, Bounded, Kept, CoherentResults, [Next]_vars
    PROVE  CoherentResults'
  <1>1. Stands
    BY PlacedStep
  <1>2. SUFFICES ASSUME NEW r \in Run, NEW t \in Task, NEW o,
                        o = records'[r][t].output,
                        records'[r][t].status = "succeeded",
                        \A q \in Ancestors(r)' : runs'[q].graph = runs'[r].graph
                 PROVE  Agrees(o, r, t)'
    BY DEF CoherentResults, Agrees
  <1>3. \A q \in Run, u \in Task : records[q][u] \in Result
    BY DEF Shaped
  <1>4. ASSUME NEW q \in Run, NEW u \in Task, records[q][u].status = "succeeded",
               \A a \in Ancestors(q) : runs[a].graph = runs[q].graph
        PROVE  Agrees(records[q][u].output, q, u)
    BY <1>4 DEF CoherentResults, Agrees
  <1>5. ASSUME runs[r].status \notin Unstarted
        PROVE  /\ Ancestors(r)' = Ancestors(r)
               /\ \A q \in Ancestors(r) : q \in Run /\ runs[q].graph = runs[r].graph
    <2>1. Ancestors(r)' = Ancestors(r)
      BY <1>5, ChainKept DEF Unstarted
    <2>2. ASSUME NEW q \in Ancestors(r)
          PROVE  q \in Run /\ runs[q].graph = runs[r].graph
      <3>1. q \in Run /\ runs[q].status \notin Unstarted
        BY <2>2, Chain DEF Unstarted
      <3>2. runs'[q].graph = runs[q].graph /\ runs'[r].graph = runs[r].graph
        BY <1>1, <1>5, <3>1 DEF Stands
      <3>3. QED
        BY <1>2, <2>1, <3>1, <3>2
    <2>3. QED
      BY <2>1, <2>2
  <1>6. CASE records'[r][t] = records[r][t]
    <2>1. records[r][t].status = "succeeded" /\ o = records[r][t].output
      BY <1>2, <1>6
    <2>2. runs[r].status \notin Unstarted
      BY <2>1 DEF Placed, AtPlace, RowPlaced
    <2>3. Behind(runs[r].graph, records[r], t) /\ o \in DOMAIN made
      BY <2>1 DEF Walked, Kept
    <2>4. Agrees(o, r, t)
      BY <1>4, <1>5, <2>1, <2>2
    <2>5. QED
      BY <2>2, <2>3, <2>4, AgreesOn
  <1>7. CASE Skip(r, t)
    <2>1. records'[r][t] = [NoRecord EXCEPT !.status = "skipped"]
      BY <1>7, Written
    <2>2. QED
      BY <1>2, <2>1 DEF NoRecord
  <1>8. CASE Reuse(r, t)
    <2>1. PICK p \in Run :
            /\ p = runs[r].resumes
            /\ records'[r][t] = [records[p][t] EXCEPT !.reused = TRUE]
      BY <1>8, Written
    <2>2. /\ runs[r].status = "running" /\ p # 0
          /\ records[p][t].status = "succeeded"
          /\ records[p][t].settings = FingerprintIn(r, t)
          /\ \A u \in Upstream(runs[r].graph, t) : records[r][u].reused
      BY <1>8, <2>1 DEF Reuse, Reusable, At
    <2>3. o = records[p][t].output
      BY <1>2, <1>3, <2>1 DEF Result
    <2>4. Ancestors(r) = {p} \cup Ancestors(p)
      BY <2>1, <2>2, Chain
    <2>5. PICK g \in Graphs : g = runs[r].graph /\ g = runs[p].graph
      BY <1>5, <2>2, <2>4 DEF Shaped, RunRow, Unstarted
    <2>6. Agrees(o, p, t)
      BY <1>4, <1>5, <2>2, <2>3, <2>4, <2>5 DEF Unstarted
    <2>7. \A u \in Upstream(g, t) : u \in Task /\ records[p][u].output = records[r][u].output
      BY <2>1, <2>2, <2>5, GraphsAreRight DEF Kept
    <2>8. Input(p, t) = Input(r, t)
      BY <2>5, <2>7 DEF Input, UsesAreLinked
    <2>9. made[o].settings = FingerprintIn(r, t)
      BY <2>2, <2>3 DEF Kept
    <2>10. Agrees(o, r, t)
      BY <2>5, <2>6, <2>7, <2>8, <2>9 DEF Agrees
    <2>11. o \in DOMAIN made /\ Behind(runs[r].graph, records[r], t)
      BY <1>8, <2>2, <2>3, NextIsReady DEF Kept, Reuse, At, Behind
    <2>12. QED
      BY <2>2, <2>10, <2>11, AgreesOn DEF Unstarted
  <1>9. CASE Record(r) /\ runs[r].at.task = t
    <2>1. Kept'
      BY KeptStep
    <2>2. records'[r][t] =
            [status |-> IF runs[r].at.stage = "succeeded" THEN "succeeded" ELSE "failed",
             settings |-> FingerprintIn(r, t), output |-> runs[r].at.output,
             reused |-> FALSE]
      BY <1>9, Written
    <2>3. records'[r][t].reused = FALSE
      BY <2>2
    <2>4. DoneBy(records[r][t].output, r, t)'
      BY <1>2, <2>1, <2>3 DEF Kept
    <2>5. QED
      BY <1>2, <2>4 DEF DoneBy, Agrees
  <1>10. QED
    BY <1>6, <1>7, <1>8, <1>9, Decisions

\* "With these settings on the same input, so its result stands": over a chain
\* of pick-ups that loaded the same links, what a run records of a task, done or
\* taken over, was made with the settings the run loaded, from what the run
\* records for the task it uses and after what it records for the tasks before.
\* The workflow has to link a task behind the task it uses: the code compares
\* no input.
THEOREM ResultsCohere ==
    ASSUME UsesAreLinked
    PROVE  Spec => []CoherentResults
  <1> DEFINE Inv == Shaped /\ Placed /\ Walked /\ Bounded /\ Kept /\ CoherentResults
  <1>1. Init => Inv
    <2> SUFFICES ASSUME Init PROVE Inv
      OBVIOUS
    <2>1. \A r \in Run : /\ runs[r].at = Between
                         /\ \A t \in Task : records[r][t] = NoRecord
      BY DEF Init, Absent
    <2>2. Kept
      BY <2>1 DEF Kept, Between, NoRecord
    <2>3. CoherentResults
      BY <2>1 DEF CoherentResults, NoRecord
    <2>4. QED
      BY <2>2, <2>3, FirstIsWalked, FirstIsBounded
  <1>2. Inv /\ [Next]_vars => Inv'
    BY PlacedStep, WalkedStep, BoundedStep, KeptStep, CoherentStep
  <1>3. QED
    BY <1>1, <1>2, PTL DEF Spec

-----------------------------------------------------------------------------
(* Work is not done twice.                                                 *)

\* Whatever was made is on record, or about to be recorded, in the run that made
\* it, unless that run was cut short; no record names the work of a later run; no
\* run is at a task it could reuse.
OnRecord ==
    /\ \A i \in DOMAIN made :
         LET r == made[i].run
             t == made[i].task
         IN  /\ Agrees(i, r, t)
             /\ Behind(runs[r].graph, records[r], t)
             /\ \/ records[r][t].status = "succeeded" /\ records[r][t].output = i
                \/ /\ runs[r].at.stage = "succeeded"
                   /\ runs[r].at.task = t /\ runs[r].at.output = i
                \/ runs[r].status \in Over /\ records[r][t].status = "none"
    /\ \A r \in Run, t \in Task :
         records[r][t].output # 0 => made[records[r][t].output].run <= r
    /\ \A r \in Run :
         runs[r].at.stage # "between" => ~Reusable(r, runs[r].at.task)

\* In both runs the task has the same settings and comes after the same work; in
\* the first of them it succeeded.
Repeats(a, r, t) ==
    /\ records[a][t].status = "succeeded"
    /\ FingerprintIn(a, t) = FingerprintIn(r, t)
    /\ \A u \in Upstream(runs[r].graph, t) :
         records[a][u].output = records[r][u].output /\ records[r][u].output # 0

\* From run a on, every run recorded the task, with the settings and the links run r has.
Unbroken(a, r, t) == \A q \in Since(a, r) : ~Interrupts(q, r, t)

\* What succeeded before the same way is never decided in another way.
Lasting ==
    \A r \in Run, t \in Task : \A a \in Ancestors(r) :
        Repeats(a, r, t) /\ Unbroken(a, r, t) /\ records[r][t].status # "none"
        => records[r][t].status = "succeeded"

\* An ended run records nothing more.
LEMMA EndedIsFinal ==
    ASSUME Shaped, Placed, [Next]_vars, NEW r \in Run, runs[r].status \in Over
    PROVE  runs'[r] = runs[r] /\ records'[r] = records[r]
  <1>1. runs'[r] = runs[r]
    BY PlacedStep DEF Stands
  <1>2. \A t \in Task : records'[r][t] = records[r][t]
    BY Decisions DEF Over, Skip, Reuse, At, Record
  <1>3. records[r] \in [Task -> Result] /\ records'[r] \in [Task -> Result]
    BY PlacedStep DEF Shaped
  <1>4. QED
    BY <1>1, <1>2, <1>3

\* Whether a task can be reused does not change once the tasks before it are decided.
LEMMA ReusableOn ==
    ASSUME Shaped, Placed, [Next]_vars, NEW r \in Run, NEW t \in Task,
           runs[r].status \notin Unstarted, Behind(runs[r].graph, records[r], t)
    PROVE  Reusable(r, t)' <=> Reusable(r, t)
  <1>1. Stands
    BY PlacedStep
  <1>2. PICK g \in Graphs : g = runs[r].graph /\ g = runs'[r].graph
    BY <1>1 DEF Stands, Shaped, RunRow
  <1>3. PICK p : p = runs[r].resumes /\ p = runs'[r].resumes
    BY <1>1 DEF Stands, Unstarted
  <1>4. p # 0 => records'[p] = records[p]
    <2>1. runs[r].resumes # 0 =>
            runs[r].resumes \in Run /\ runs[runs[r].resumes].status \in {"failed", "partial"}
      BY DEF Placed, InTurn
    <2>2. p # 0 => p \in Run /\ runs[p].status \in Over
      BY <1>3, <2>1 DEF Over
    <2>3. QED
      BY <2>2, EndedIsFinal
  <1>5. FingerprintIn(r, t)' = FingerprintIn(r, t)
    BY <1>1, <1>2 DEF FingerprintIn, Stands
  <1>6. \A u \in Upstream(g, t) : records'[r][u] = records[r][u]
    BY <1>1, <1>2, GraphsAreRight DEF Stands, Behind
  <1>7. QED
    BY <1>2, <1>3, <1>4, <1>5, <1>6 DEF Reusable

\* The inductive step of OnRecord: a task that is begun could not be reused, and a
\* run takes over no work but that of earlier runs.
LEMMA OnRecordStep ==
    ASSUME Shaped, Placed, Walked, Bounded, Kept, OnRecord, [Next]_vars
    PROVE  OnRecord'
  <1>1. Shaped' /\ Placed' /\ Stands
    BY PlacedStep
  <1>2. Walked' /\ Bounded' /\ Kept'
    BY WalkedStep, BoundedStep, KeptStep
  <1>3. /\ \A r \in Run : runs[r].at \in Place
        /\ \A r \in Run, t \in Task : records[r][t] \in Result
        /\ \A i \in DOMAIN made : made[i].run \in Run /\ made[i].task \in Task
        /\ \A r \in Run : r \in Nat
    <2>1. \A r \in Run : runs[r].at \in Place
      BY DEF Shaped, RunRow
    <2>2. \A r \in Run, t \in Task : records[r][t] \in Result
      BY DEF Shaped
    <2>3. \A i \in DOMAIN made : made[i] \in Work
      BY DEF Shaped
    <2>4. \A i \in DOMAIN made : made[i].run \in Run /\ made[i].task \in Task
      BY <2>3 DEF Work
    <2>5. \A r \in Run : r \in Nat
      BY ExecutionAssumption DEF Run
    <2>6. QED
      BY <2>1, <2>2, <2>4, <2>5
  <1>4. ASSUME NEW i \in DOMAIN made, NEW r \in Run, NEW t \in Task,
               r = made[i].run, t = made[i].task
        PROVE  /\ i \in DOMAIN made' /\ made'[i] = made[i]
               /\ Agrees(i, r, t)'
               /\ Behind(runs'[r].graph, records'[r], t)
               /\ \/ records'[r][t].status = "succeeded" /\ records'[r][t].output = i
                  \/ /\ runs'[r].at.stage = "succeeded"
                     /\ runs'[r].at.task = t /\ runs'[r].at.output = i
                  \/ runs'[r].status \in Over /\ records'[r][t].status = "none"
    <2>1. runs[r].status \notin Unstarted
      BY <1>4 DEF Bounded
    <2>2. Agrees(i, r, t) /\ Behind(runs[r].graph, records[r], t)
      BY <1>4 DEF OnRecord
    <2>3. i \in DOMAIN made' /\ made'[i] = made[i] /\ Agrees(i, r, t)'
      BY <2>1, <2>2, AgreesOn
    <2>4. Behind(runs'[r].graph, records'[r], t)
      <3>1. PICK g \in Graphs : g = runs[r].graph /\ g = runs'[r].graph
        BY <1>1, <2>1 DEF Stands, Shaped, RunRow
      <3>2. \A u \in Upstream(g, t) : u \in Task /\ records[r][u].status # "none"
        BY <2>2, <3>1, GraphsAreRight DEF Behind
      <3>3. \A u \in Upstream(g, t) : records'[r][u] = records[r][u]
        BY <1>1, <3>2 DEF Stands
      <3>4. QED
        BY <3>1, <3>2, <3>3 DEF Behind
    <2>5. CASE records[r][t].status = "succeeded" /\ records[r][t].output = i
      <3>1. records'[r][t] = records[r][t]
        BY <1>1, <2>5 DEF Stands
      <3>2. QED
        BY <2>3, <2>4, <2>5, <3>1
    <2>6. CASE runs[r].at.stage = "succeeded" /\ runs[r].at.task = t /\ runs[r].at.output = i
      <3>1. CASE Record(r)
        <4>1. records'[r][t] =
                [status |-> IF runs[r].at.stage = "succeeded" THEN "succeeded" ELSE "failed",
                 settings |-> FingerprintIn(r, t), output |-> runs[r].at.output,
                 reused |-> FALSE]
          BY <2>6, <3>1, Written
        <4>2. records'[r][t].status = "succeeded" /\ records'[r][t].output = i
          BY <2>6, <4>1
        <4>3. QED
          BY <2>3, <2>4, <4>2
      <3>2. CASE SamePlace(r)
        BY <2>3, <2>4, <2>6, <3>2 DEF SamePlace
      <3>3. ~Begins(r)
        BY <2>6 DEF Begins, Begin, At
      <3>4. ~Succeeds(r) /\ ~Ends(r) /\ ~Retries(r)
        BY <2>6 DEF Succeeds, Succeed, Ends, Fail, Unresolved, Retries, Retry
      <3>5. CASE StaleRow(r) \/ Death(r)
        <4>1. runs'[r] = [runs[r] EXCEPT !.status = "failed", !.at = Between]
          BY <3>5, RowSteps, OneRow
        <4>2. runs'[r].status \in Over
          BY <4>1 DEF Shaped, RunRow, Over
        <4>3. records' = records /\ records[r][t].status = "none"
          BY <2>6, <3>5 DEF StaleRow, Death, Placed, AtPlace, RowPlaced
        <4>4. QED
          BY <2>3, <2>4, <4>2, <4>3
      <3>6. QED
        BY <3>1, <3>2, <3>3, <3>4, <3>5, Placements DEF Leaves
    <2>7. CASE runs[r].status \in Over /\ records[r][t].status = "none"
      <3>1. runs'[r] = runs[r] /\ records'[r] = records[r]
        BY <2>7, EndedIsFinal
      <3>2. QED
        BY <2>3, <2>4, <2>7, <3>1
    <2>8. QED
      BY <1>4, <2>5, <2>6, <2>7 DEF OnRecord
  <1>5. ASSUME NEW i \in DOMAIN made', NEW r, NEW t, i \notin DOMAIN made,
               r = made'[i].run, t = made'[i].task
        PROVE  /\ Agrees(i, r, t)'
               /\ Behind(runs'[r].graph, records'[r], t)
               /\ runs'[r].at.stage = "succeeded"
               /\ runs'[r].at.task = t /\ runs'[r].at.output = i
    <2>1. PICK q \in Run : /\ Succeed(q) /\ runs[q].at.task \in Task
                           /\ Effort(q) \in Work /\ made' = Append(made, Effort(q))
      BY <1>5, Makings
    <2>2. i = Len(made) + 1 /\ made'[i] = Effort(q)
      BY <1>5, <2>1 DEF Shaped
    <2>3. q = r /\ t = runs[q].at.task
      BY <1>5, <2>2 DEF Effort
    <2>4. runs'[r].at = [runs[r].at EXCEPT !.stage = "succeeded", !.output = Len(made) + 1]
      <3>0. Len(made) + 1 \in Nat /\ runs[r].at \in Place
        BY <1>3, <2>1, <2>3 DEF Shaped
      <3>1. [runs[r].at EXCEPT !.stage = "succeeded", !.output = Len(made) + 1] \in Place
        BY <3>0 DEF Place, Stage
      <3>2. PICK place \in Place : /\ Becomes(r, Moved(r, place))
                                   /\ place = [runs[r].at EXCEPT !.stage = "succeeded",
                                                                 !.output = Len(made) + 1]
        BY <2>1, <2>3, <3>1, RowSteps
      <3>3. runs'[r] = Moved(r, place) /\ runs[r] \in RunRow
        BY <2>1, <2>3, <3>2, OneRow DEF Shaped
      <3>4. QED
        BY <3>2, <3>3 DEF Moved, RunRow
    <2>5. /\ runs'[r].at.stage = "succeeded" /\ runs'[r].at.task = t
          /\ runs'[r].at.output = i
      BY <1>3, <2>1, <2>2, <2>3, <2>4 DEF Place
    <2>6. DoneBy(i, r, t)'
      BY <1>2, <2>1, <2>3, <2>5 DEF Kept
    <2>7. Behind(runs'[r].graph, records'[r], t)
      BY <1>2, <2>1, <2>3, <2>5 DEF Walked
    <2>8. QED
      BY <2>5, <2>6, <2>7 DEF DoneBy
  <1>6. ASSUME NEW r \in Run, NEW t \in Task, NEW o, o = records'[r][t].output, o # 0
        PROVE  made'[o].run <= r
    <2>1. /\ records'[r][t].status = "succeeded" /\ o \in DOMAIN made'
          /\ ~records'[r][t].reused => DoneBy(o, r, t)'
      BY <1>2, <1>6 DEF Kept
    <2>2. CASE ~records'[r][t].reused
      BY <1>3, <2>1, <2>2 DEF DoneBy
    <2>3. CASE records'[r][t].reused /\ records'[r][t] = records[r][t]
      <3>1. o \in DOMAIN made /\ made[o].run <= r /\ runs[r].status \notin Unstarted
        BY <1>6, <2>1, <2>3 DEF Kept, OnRecord, Placed, AtPlace, RowPlaced
      <3>2. made'[o] = made[o]
        BY <1>3, <1>4, <3>1
      <3>3. QED
        BY <3>1, <3>2
    <2>4. CASE Reuse(r, t)
      <3>1. PICK p \in Run :
              /\ p = runs[r].resumes
              /\ records'[r][t] = [records[p][t] EXCEPT !.reused = TRUE]
        BY <2>4, Written
      <3>2. o = records[p][t].output /\ records[p][t].status = "succeeded"
        BY <1>3, <1>6, <2>4, <3>1 DEF Result, Reuse, Reusable
      <3>3. p < r
        <4>1. p # 0
          BY <2>4, <3>1 DEF Reuse, Reusable
        <4>2. QED
          BY <3>1, <4>1 DEF Placed, InTurn
      <3>4. o \in DOMAIN made /\ made[o].run <= p
        BY <1>6, <3>2 DEF Kept, OnRecord
      <3>5. made'[o] = made[o] /\ made[o].run \in Nat
        BY <1>3, <1>4, <3>4
      <3>6. QED
        BY <1>3, <3>3, <3>4, <3>5
    <2>5. CASE Record(r) /\ runs[r].at.task = t
      <3>1. records'[r][t] =
              [status |-> IF runs[r].at.stage = "succeeded" THEN "succeeded" ELSE "failed",
               settings |-> FingerprintIn(r, t), output |-> runs[r].at.output,
               reused |-> FALSE]
        BY <2>5, Written
      <3>2. records'[r][t].reused = FALSE
        BY <3>1
      <3>3. QED
        BY <2>2, <3>2
    <2>6. CASE Skip(r, t)
      <3>1. records'[r][t] = [NoRecord EXCEPT !.status = "skipped"]
        BY <2>6, Written
      <3>2. QED
        BY <1>6, <3>1 DEF NoRecord
    <2>7. QED
      BY <2>2, <2>3, <2>4, <2>5, <2>6, Decisions
  <1>7. ASSUME NEW r \in Run, NEW t, runs'[r].at.stage # "between", t = runs'[r].at.task
        PROVE  ~Reusable(r, t)'
    <2>1. \/ runs[r].at.stage # "between" /\ t = runs[r].at.task /\ runs[r].status = "running"
          \/ t \in Task /\ Begin(r, t)
      BY <1>7, Beginnings
    <2>2. t \in Task /\ ~Reusable(r, t)
      BY <2>1 DEF Placed, AtPlace, RowPlaced, OnRecord, Begin
    <2>3. runs[r].status = "running" /\ Behind(runs[r].graph, records[r], t)
      BY <2>1, NextIsReady DEF Walked, Begin, At, Behind
    <2>4. QED
      BY <2>2, <2>3, ReusableOn DEF Unstarted
  <1>8. QED
    <2>1. ASSUME NEW i \in DOMAIN made'
          PROVE  /\ Agrees(i, made[i].run, made[i].task)'
                 /\ Behind(runs'[made'[i].run].graph, records'[made'[i].run], made'[i].task)
                 /\ \/ /\ records'[made'[i].run][made'[i].task].status = "succeeded"
                       /\ records'[made'[i].run][made'[i].task].output = i
                    \/ /\ runs'[made'[i].run].at.stage = "succeeded"
                       /\ runs'[made'[i].run].at.task = made'[i].task
                       /\ runs'[made'[i].run].at.output = i
                    \/ /\ runs'[made'[i].run].status \in Over
                       /\ records'[made'[i].run][made'[i].task].status = "none"
      <3>1. PICK r, t : r = made'[i].run /\ t = made'[i].task
        OBVIOUS
      <3>2. CASE i \in DOMAIN made
        <4>1. PICK q \in Run, u \in Task : q = made[i].run /\ u = made[i].task
          BY <1>3, <3>2
        <4>2. made'[i] = made[i] /\ q = r /\ u = t
          BY <1>4, <3>1, <3>2, <4>1
        <4>3. /\ Agrees(i, q, u)' /\ Behind(runs'[q].graph, records'[q], u)
              /\ \/ records'[q][u].status = "succeeded" /\ records'[q][u].output = i
                 \/ /\ runs'[q].at.stage = "succeeded"
                    /\ runs'[q].at.task = u /\ runs'[q].at.output = i
                 \/ runs'[q].status \in Over /\ records'[q][u].status = "none"
          BY <1>4, <3>2, <4>1
        <4>4. QED
          BY <3>1, <4>2, <4>3
      <3>3. CASE i \notin DOMAIN made
        <4>1. /\ Agrees(i, r, t)' /\ Behind(runs'[r].graph, records'[r], t)
              /\ runs'[r].at.stage = "succeeded"
              /\ runs'[r].at.task = t /\ runs'[r].at.output = i
          BY <1>5, <3>1, <3>3
        <4>2. QED
          BY <3>1, <4>1
      <3>4. QED
        BY <3>2, <3>3
    <2>2. \A r \in Run : runs'[r].at.stage # "between" => ~Reusable(r, runs[r].at.task)'
      BY <1>7
    <2>3. QED
      BY <1>6, <2>1, <2>2 DEF OnRecord

\* The pick-ups from run a to run r end with the run that r resumes; if none of
\* them interrupts, they have the links of r.
LEMMA SinceIs ==
    ASSUME Shaped, Placed, NEW r \in Run, NEW a \in Ancestors(r), NEW t \in Task,
           Unbroken(a, r, t), NEW q, q \in {a, runs[r].resumes}
    PROVE  /\ q \in Run /\ q \in Since(a, r)
           /\ records[q][t].status # "none"
           /\ FingerprintIn(q, t) = FingerprintIn(r, t)
           /\ LinksInto(q, t) = LinksInto(r, t)
           /\ Upstream(runs[q].graph, t) = Upstream(runs[r].graph, t)
  <1>1. runs[r].resumes # 0 /\ runs[r].resumes \in Ancestors(r)
    BY Chain
  <1>2. a \in {runs[r].resumes} \cup Ancestors(runs[r].resumes)
    BY <1>1, Chain
  <1>3. q \in Since(a, r) /\ q \in Run
    BY <1>1, <1>2, Chain DEF Since
  <1>4. ~Interrupts(q, r, t)
    BY <1>3 DEF Unbroken
  <1>5. /\ records[q][t].status # "none"
        /\ FingerprintIn(q, t) = FingerprintIn(r, t)
        /\ LinksInto(q, t) = LinksInto(r, t)
    BY <1>4 DEF Interrupts, Left
  <1>6. \A p \in Run : Upstream(runs[p].graph, t) = {l.from : l \in LinksInto(p, t)}
    BY DEF Upstream, LinksInto
  <1>7. QED
    BY <1>3, <1>5, <1>6

\* A task that succeeded before the same way is let through and can be reused.
LEMMA ReuseForced ==
    ASSUME Shaped, Placed, Walked, Kept, OnRecord, Lasting,
           NEW r \in Run, runs[r].status = "running", NEW t \in Task,
           Behind(runs[r].graph, records[r], t),
           NEW a \in Ancestors(r), Repeats(a, r, t), Unbroken(a, r, t)
    PROVE  Reusable(r, t) /\ Open(runs[r].graph, records[r], t)
  <1>1. PICK p \in Run : p = runs[r].resumes /\ p # 0
    BY Chain, ExecutionAssumption DEF Run
  <1>2. /\ a \in Run /\ a < r /\ a \in {p} \cup Ancestors(p)
        /\ runs[p].status \in {"failed", "partial"}
    BY <1>1, Chain DEF Placed, InTurn
  <1>3. PICK g \in Graphs : g = runs[r].graph
    BY DEF Shaped, RunRow
  <1>4. ASSUME NEW u \in Upstream(g, t)
        PROVE  /\ u \in Task /\ records[r][u].reused
               /\ records[r][u].status = "succeeded" /\ records[a][u].status = "succeeded"
               /\ records[p][u].output = records[a][u].output
               /\ records[p][u].output # 0
    <2>1. u \in Task
      BY <1>3, <1>4, GraphsAreRight
    <2>2. PICK o : o = records[r][u].output /\ o = records[a][u].output /\ o # 0
      BY <1>3, <1>4 DEF Repeats
    <2>3. records[r][u].status = "succeeded" /\ records[a][u].status = "succeeded"
      BY <1>2, <2>1, <2>2 DEF Kept
    <2>4. o \in DOMAIN made /\ made[o].run <= a
      BY <1>2, <2>1, <2>2, <2>3 DEF Kept, OnRecord
    <2>5. made[o].run # r
      <3>1. a \in Nat /\ r \in Nat
        BY <1>2, ExecutionAssumption DEF Run
      <3>2. QED
        BY <1>2, <2>4, <3>1
    <2>6. records[r][u].reused
      <3>1. ~records[r][u].reused => DoneBy(records[r][u].output, r, u)
        BY <2>1, <2>3 DEF Kept
      <3>2. QED
        BY <2>2, <2>5, <3>1, SMTT(30) DEF DoneBy
    <2>7. records[p][u].output = o
      BY <1>1, <2>1, <2>2, <2>6 DEF Kept
    <2>8. QED
      BY <2>1, <2>2, <2>3, <2>6, <2>7
  <1>5. /\ records[p][t].status # "none"
        /\ FingerprintIn(p, t) = FingerprintIn(r, t)
        /\ LinksInto(p, t) = LinksInto(r, t)
        /\ Upstream(runs[p].graph, t) = Upstream(g, t)
    BY <1>1, <1>3, SinceIs
  <1>6. records[p][t].status = "succeeded"
    <2>1. CASE a = p
      BY <2>1 DEF Repeats
    <2>2. CASE a \in Ancestors(p)
      <3>1. Unbroken(a, p, t)
        <4>1. ASSUME NEW q \in Since(a, p) PROVE ~Interrupts(q, r, t)
          <5>1. q \in Since(a, r)
            BY <1>1, Chain DEF Since
          <5>2. QED
            BY <5>1 DEF Unbroken
        <4>2. QED
          BY <1>5, <4>1 DEF Unbroken, Interrupts
      <3>2. FingerprintIn(a, t) = FingerprintIn(p, t)
        BY <1>5 DEF Repeats
      <3>3. Repeats(a, p, t)
        BY <1>4, <1>5, <3>2 DEF Repeats
      <3>4. QED
        BY <1>5, <2>2, <3>1, <3>3 DEF Lasting
    <2>3. QED
      BY <1>2, <2>1, <2>2
  <1>7. records[p][t].settings = FingerprintIn(r, t)
    BY <1>5, <1>6 DEF Kept
  <1>8. Open(g, records[r], t)
    <2>1. Open(runs[a].graph, records[a], t)
      BY <1>2 DEF Repeats, Walked
    <2>2. LinksInto(a, t) = LinksInto(r, t)
      BY SinceIs
    <2>3. \A l \in g.links : l.to = t => l.from \in Upstream(g, t) /\ l \in LinksInto(r, t)
      BY <1>3 DEF Upstream, LinksInto
    <2>4. \A l \in LinksInto(r, t) : records[a][l.from].status \in Opens(l.condition)
      BY <2>1, <2>2 DEF Open, LinksInto
    <2>5. QED
      BY <1>4, <2>3, <2>4 DEF Open
  <1>9. Reusable(r, t)
    BY <1>1, <1>3, <1>4, <1>6, <1>7 DEF Reusable
  <1>10. QED
    BY <1>3, <1>8, <1>9

\* What a decided task repeats stays what it repeats.
LEMMA RepeatsOn ==
    ASSUME Shaped, Placed, [Next]_vars, NEW r \in Run, NEW t \in Task,
           runs[r].status \notin Unstarted, Behind(runs[r].graph, records[r], t),
           NEW a \in Ancestors(r)
    PROVE  Repeats(a, r, t)' <=> Repeats(a, r, t)
  <1>1. Stands
    BY PlacedStep
  <1>2. PICK g \in Graphs : g = runs[r].graph /\ g = runs'[r].graph
    BY <1>1 DEF Stands, Shaped, RunRow
  <1>3. a \in Run /\ runs'[a] = runs[a] /\ records'[a] = records[a]
    BY Chain, EndedIsFinal DEF Over
  <1>4. FingerprintIn(r, t)' = FingerprintIn(r, t)
    BY <1>1, <1>2 DEF FingerprintIn, Stands
  <1>5. FingerprintIn(a, t)' = FingerprintIn(a, t)
    BY <1>3 DEF FingerprintIn
  <1>6. \A u \in Upstream(g, t) : records'[r][u] = records[r][u]
    BY <1>1, <1>2, GraphsAreRight DEF Stands, Behind
  <1>7. QED
    BY <1>2, <1>3, <1>4, <1>5, <1>6 DEF Repeats

\* Whether the pick-ups that lead to a started run are unbroken is settled.
LEMMA UnbrokenOn ==
    ASSUME Shaped, Placed, [Next]_vars, NEW r \in Run, NEW t \in Task,
           runs[r].status \notin Unstarted, NEW a \in Ancestors(r)
    PROVE  Unbroken(a, r, t)' <=> Unbroken(a, r, t)
  <1>1. Ancestors(r)' = Ancestors(r)
    BY ChainKept DEF Unstarted
  <1>2. ASSUME NEW q \in Ancestors(r)
        PROVE  /\ q \in Run /\ Ancestors(q)' = Ancestors(q)
               /\ runs'[q] = runs[q] /\ records'[q] = records[q]
    <2>1. q \in Run /\ runs[q].status \in Over /\ runs[q].status # "absent"
      BY Chain DEF Over
    <2>2. QED
      BY <2>1, ChainKept, EndedIsFinal
  <1>3. runs'[r].graph = runs[r].graph /\ runs'[r].revision = runs[r].revision
    BY PlacedStep DEF Stands
  <1>4. FingerprintIn(r, t)' = FingerprintIn(r, t) /\ LinksInto(r, t)' = LinksInto(r, t)
    BY <1>3 DEF FingerprintIn, LinksInto
  <1>5. ASSUME NEW q \in Ancestors(r) PROVE Interrupts(q, r, t)' <=> Interrupts(q, r, t)
    BY <1>2, <1>4 DEF Interrupts, Left, FingerprintIn, LinksInto
  <1>6. Since(a, r)' = Since(a, r) /\ Since(a, r) \subseteq Ancestors(r)
    BY <1>1, <1>2 DEF Since
  <1>7. QED
    BY <1>5, <1>6 DEF Unbroken

\* The inductive step of Lasting.
LEMMA LastingStep ==
    ASSUME Shaped, Placed, Walked, Kept, OnRecord, Lasting, [Next]_vars
    PROVE  Lasting'
  <1> SUFFICES ASSUME NEW r \in Run, NEW t \in Task, NEW a \in Ancestors(r)',
                      Repeats(a, r, t)', Unbroken(a, r, t)', records'[r][t].status # "none"
               PROVE  records'[r][t].status = "succeeded"
    BY DEF Lasting
  <1>1. /\ runs[r].status \notin Unstarted
        /\ Behind(runs[r].graph, records[r], t)
    <2>1. CASE records'[r][t] = records[r][t]
      BY <2>1 DEF Placed, AtPlace, RowPlaced, Walked
    <2>2. CASE records'[r][t] # records[r][t]
      <3>1. CASE Skip(r, t) \/ Reuse(r, t)
        BY <3>1, NextIsReady DEF Skip, Reuse, At, Behind, Unstarted
      <3>2. CASE Record(r) /\ runs[r].at.task = t
        <4>1. runs[r].status = "running" /\ runs[r].at.stage # "between"
          BY <3>2 DEF Record
        <4>2. QED
          BY <3>2, <4>1 DEF Walked, Unstarted
      <3>3. QED
        BY <2>2, <3>1, <3>2, Decisions
    <2>3. QED
      BY <2>1, <2>2
  <1>2. a \in Ancestors(r) /\ Repeats(a, r, t) /\ Unbroken(a, r, t)
    <2>1. a \in Ancestors(r)
      BY <1>1, ChainKept DEF Unstarted
    <2>2. QED
      BY <1>1, <2>1, RepeatsOn, UnbrokenOn
  <1>3. CASE records'[r][t] = records[r][t]
    BY <1>2, <1>3 DEF Lasting
  <1>4. CASE records'[r][t] # records[r][t]
    <2>1. runs[r].status = "running"
      BY <1>4, Decisions DEF Skip, Reuse, At, Record
    <2>2. Reusable(r, t) /\ Open(runs[r].graph, records[r], t)
      BY <1>1, <1>2, <2>1, ReuseForced
    <2>3. ~Skip(r, t)
      BY <2>2, ShouldRunIsOpen DEF Skip
    <2>4. ~(Record(r) /\ runs[r].at.task = t)
      BY <2>2 DEF Record, OnRecord
    <2>5. Reuse(r, t)
      BY <1>4, <2>3, <2>4, Decisions
    <2>6. PICK p \in Run :
            /\ p = runs[r].resumes
            /\ records'[r][t] = [records[p][t] EXCEPT !.reused = TRUE]
      BY <2>5, Written
    <2>7. records[p][t] \in Result /\ records[p][t].status = "succeeded"
      BY <2>2, <2>6 DEF Shaped, Reusable
    <2>8. QED
      BY <2>6, <2>7 DEF Result
  <1>5. QED
    BY <1>3, <1>4

\* The inductive step of NotRunAgain.
LEMMA NotRunAgainStep ==
    ASSUME Shaped, Placed, Walked, Bounded, Kept, OnRecord, Lasting, NotRunAgain,
           [Next]_vars
    PROVE  NotRunAgain'
  <1> SUFFICES ASSUME NEW i \in DOMAIN made', NEW j \in DOMAIN made', i < j, SameWork(i, j)',
                      NEW r, r = made'[j].run, NEW a, a = made'[i].run,
                      NEW t, t = made'[j].task,
                      a \in Ancestors(r)', Unbroken(a, r, t)'
               PROVE  FALSE
    BY DEF NotRunAgain, Unbroken
  <1>0. made \in Seq(Work)
    BY DEF Shaped
  <1>1. \A k \in DOMAIN made :
            /\ made[k].run \in Run /\ runs[made[k].run].status \notin Unstarted
            /\ made[k].task \in Task
    <2>1. \A k \in DOMAIN made : made[k] \in Work
      BY <1>0
    <2>2. QED
      BY <2>1 DEF Work, Bounded
  <1>2. CASE made' = made
    <2>1. r \in Run /\ runs[r].status \notin Unstarted /\ t \in Task
      BY <1>1, <1>2
    <2>2. a \in Ancestors(r)
      BY <2>1, ChainKept DEF Unstarted
    <2>3. SameWork(i, j)
      BY <1>2 DEF SameWork
    <2>4. Unbroken(a, r, t)
      BY <2>1, <2>2, UnbrokenOn
    <2>5. QED
      BY <1>2, <2>2, <2>3, <2>4 DEF NotRunAgain, Unbroken
  <1>3. ASSUME NEW q \in Run, Succeed(q), runs[q].at.task \in Task, Effort(q) \in Work,
               made' = Append(made, Effort(q))
        PROVE  FALSE
    <2>1. /\ i \in DOMAIN made /\ made'[i] = made[i]
          /\ \/ j \in DOMAIN made /\ made'[j] = made[j]
             \/ j \notin DOMAIN made /\ made'[j] = Effort(q)
      BY <1>0, <1>3
    <2>2. CASE j \in DOMAIN made /\ made'[j] = made[j]
      <3>1. r \in Run /\ runs[r].status \notin Unstarted /\ t \in Task
        BY <1>1, <2>2
      <3>2. a \in Ancestors(r)
        BY <3>1, ChainKept DEF Unstarted
      <3>3. SameWork(i, j)
        BY <2>1, <2>2 DEF SameWork
      <3>4. Unbroken(a, r, t)
        BY <3>1, <3>2, UnbrokenOn
      <3>5. QED
        BY <2>1, <2>2, <3>2, <3>3, <3>4 DEF NotRunAgain, Unbroken
    <2>3. CASE j \notin DOMAIN made /\ made'[j] = Effort(q)
      <3>1. t \in Task /\ t = runs[q].at.task
        BY <1>3, <2>3 DEF Effort
      <3>2. /\ r = q /\ runs[r].status = "running" /\ runs[r].at.stage = "working"
            /\ made'[j].settings = FingerprintIn(r, t)
            /\ made'[j].after = [u \in Upstream(runs[r].graph, t) |-> records[r][u].output]
        <4>1. runs[q].status = "running" /\ runs[q].at.stage = "working"
          BY <1>3 DEF Succeed
        <4>2. /\ Effort(q).run = q /\ Effort(q).settings = FingerprintIn(q, t)
              /\ Effort(q).after = [u \in Upstream(runs[q].graph, t) |-> records[q][u].output]
          BY <3>1 DEF Effort
        <4>3. r = q
          BY <2>3, <4>2
        <4>4. QED
          BY <2>3, <4>1, <4>2, <4>3
      <3>3. a \in Ancestors(r)
        BY <3>2, ChainKept
      <3>4. Unbroken(a, r, t)
        BY <3>1, <3>2, <3>3, UnbrokenOn DEF Unstarted
      <3>5. /\ a \in Run /\ runs[a].status \in {"failed", "partial"}
            /\ a = made[i].run /\ t = made[i].task
        BY <2>1, <3>2, <3>3, Chain DEF SameWork
      <3>6. /\ records[a][t].status # "none"
            /\ Upstream(runs[a].graph, t) = Upstream(runs[r].graph, t)
        BY <3>1, <3>2, <3>3, <3>4, SinceIs
      <3>7. /\ Agrees(i, a, t)
            /\ records[a][t].status = "succeeded"
        <4>1. runs[a].at.stage = "between"
          BY <3>5 DEF Placed, AtPlace, RowPlaced, Between
        <4>2. QED
          BY <2>1, <3>5, <3>6, <4>1 DEF OnRecord
      <3>8. Behind(runs[r].graph, records[r], t)
        BY <3>1, <3>2 DEF Walked
      <3>9. ASSUME NEW u \in Upstream(runs[r].graph, t)
            PROVE  records[a][u].output = records[r][u].output /\ records[r][u].output # 0
        <4>1. made[i].after[u] = records[a][u].output
          BY <3>6, <3>7 DEF Agrees
        <4>2. made[i].after = made'[j].after /\ made'[j].after[u] # 0
          BY <2>1, <3>2 DEF SameWork
        <4>3. made'[j].after[u] = records[r][u].output
          BY <3>2
        <4>4. QED
          BY <4>1, <4>2, <4>3
      <3>10. FingerprintIn(a, t) = FingerprintIn(r, t)
        BY <2>1, <3>2, <3>7 DEF Agrees, SameWork
      <3>11. Repeats(a, r, t)
        BY <3>7, <3>9, <3>10 DEF Repeats
      <3>12. Reusable(r, t)
        BY <3>1, <3>2, <3>3, <3>4, <3>8, <3>11, ReuseForced
      <3>13. QED
        BY <3>1, <3>2, <3>12 DEF OnRecord
    <2>4. QED
      BY <2>1, <2>2, <2>3
  <1>4. QED
    BY <1>2, <1>3, Makings

\* "Tasks that succeeded are not run again, unless you changed them": a run that
\* picks up another, which may have picked up a third, does a piece of work one of
\* them had done, with the same settings and after the same work, only if one of
\* the runs since then ended before it recorded the task, or had loaded other
\* settings of it or other links into it.  Saves and deaths may come at any time.
THEOREM NoWorkTwice == Spec => []NotRunAgain
  <1> DEFINE Inv == /\ Shaped /\ Placed /\ Walked /\ Bounded /\ Kept
                    /\ OnRecord /\ Lasting /\ NotRunAgain
  <1>1. Init => Inv
    <2> SUFFICES ASSUME Init PROVE Inv
      OBVIOUS
    <2>1. \A r \in Run : /\ runs[r] = Absent /\ runs[r].at = Between
                         /\ \A t \in Task : records[r][t] = NoRecord
      BY DEF Init, Absent
    <2>2. Shaped /\ Placed /\ Walked /\ Bounded
      BY FirstIsWalked, FirstIsBounded
    <2>3. Kept
      BY <2>1 DEF Kept, Between, NoRecord
    <2>4. made = << >>
      BY DEF Init
    <2>5. OnRecord
      BY <2>1, <2>4 DEF OnRecord, Between, NoRecord
    <2>6. Lasting
      BY <2>1 DEF Lasting, NoRecord
    <2>7. NotRunAgain
      BY <2>4 DEF NotRunAgain
    <2>8. QED
      BY <2>2, <2>3, <2>5, <2>6, <2>7
  <1>2. Inv /\ [Next]_vars => Inv'
    BY PlacedStep, WalkedStep, BoundedStep, KeptStep, OnRecordStep, LastingStep, NotRunAgainStep
  <1>3. Inv => NotRunAgain
    OBVIOUS
  <1>4. QED
    BY <1>1, <1>2, <1>3, PTL DEF Spec

-----------------------------------------------------------------------------
(***************************************************************************)
(* Runs of a recipe: sequences, and what is picked from them.              *)
(***************************************************************************)

\* Among some numbers there is a least one.
LEMMA LeastNumber ==
    ASSUME NEW S \in SUBSET Nat, S # {}
    PROVE  \E s \in S : \A q \in S : s <= q
<1> DEFINE R == OpToRel(<, Nat)
<1>1. IsWellFoundedOn(R, Nat)
  BY NatLessThanWellFounded
<1>2. \A x, y \in Nat : y < x => <<y, x>> \in R
  BY DEF OpToRel
<1> HIDE DEF R
<1>3. PICK s \in S : \A q \in S : ~ (<<q, s>> \in R)
  BY <1>1, WFMin
<1>4. \A q \in S : ~ (q < s)
  BY <1>2, <1>3
<1> QED BY <1>4

\* f gives what the first n elements leave of S.
PicksFrom(f, seq, S, n) ==
    f = [i \in 0..n |->
           IF i = 0 THEN <<>>
           ELSE IF seq[i] \in S THEN Append(f[i - 1], seq[i]) ELSE f[i - 1]]

LEMMA ThoseDefined ==
    ASSUME NEW seq, NEW S, NEW len \in Nat
    PROVE  \E f : PicksFrom(f, seq, S, len)
<1> DEFINE step(i, x) == IF seq[i] \in S THEN Append(x, seq[i]) ELSE x
           Bad == {m \in Nat : ~ \E f : PicksFrom(f, seq, S, m)}
<1> SUFFICES ASSUME Bad # {} PROVE FALSE
  OBVIOUS
<1>1. PICK m \in Bad : \A q \in Bad : m <= q
  BY LeastNumber
<1>2. m # 0
  <2> DEFINE f == [i \in 0..0 |-> <<>>]
  <2>1. PicksFrom(f, seq, S, 0)
    BY DEF PicksFrom
  <2> QED BY <2>1
<1>3. m \in Nat /\ m - 1 \in Nat /\ m - 1 \notin Bad
  BY <1>1, <1>2
<1>4. PICK f : PicksFrom(f, seq, S, m - 1)
  BY <1>3
<1> DEFINE g == [i \in 0..m |-> IF i = m THEN step(m, f[m - 1]) ELSE f[i]]
<1>5. f = [i \in 0..(m - 1) |-> IF i = 0 THEN <<>> ELSE step(i, f[i - 1])]
  BY <1>4 DEF PicksFrom
<1> HIDE DEF step
<1>6. ASSUME NEW i \in 0..m
      PROVE  g[i] = IF i = 0 THEN <<>> ELSE step(i, g[i - 1])
  <2>1. CASE i = m
    <3>1. g[m - 1] = f[m - 1] /\ g[m] = step(m, f[m - 1])
      BY <1>3
    <3> QED BY <1>2, <2>1, <3>1
  <2>2. CASE i # m
    <3>1. i \in 0..(m - 1) /\ g[i] = f[i] /\ (i # 0 => g[i - 1] = f[i - 1])
      BY <1>3, <2>2
    <3>2. f[i] = IF i = 0 THEN <<>> ELSE step(i, f[i - 1])
      BY <1>5, <3>1
    <3> HIDE DEF g
    <3> QED BY <3>1, <3>2
  <2> QED BY <2>1, <2>2
<1>7. g = [i \in 0..m |-> g[i]]
  OBVIOUS
<1> HIDE DEF g
<1>8. [i \in 0..m |-> g[i]] = [i \in 0..m |-> IF i = 0 THEN <<>> ELSE step(i, g[i - 1])]
  BY <1>6
<1>9. PicksFrom(g, seq, S, m)
  BY <1>7, <1>8 DEF PicksFrom, step
<1> QED BY <1>1, <1>9

\* A sequence with one element more.
LEMMA OneMore ==
    ASSUME NEW T, NEW seq \in Seq(T), NEW x \in T
    PROVE  /\ Append(seq, x) \in Seq(T)
           /\ ToSet(Append(seq, x)) = ToSet(seq) \cup {x}
           /\ x \notin ToSet(seq) /\ IsInjective(seq) => IsInjective(Append(seq, x))
<1> DEFINE more == Append(seq, x)
           n == Len(seq)
<1>1. /\ more \in Seq(T) /\ n \in Nat /\ DOMAIN more = 1..(n + 1) /\ DOMAIN seq = 1..n
      /\ more[n + 1] = x /\ \A i \in 1..n : more[i] = seq[i]
  OBVIOUS
<1>2. \A i \in 1..(n + 1) : i \in 1..n \/ i = n + 1
  BY <1>1
<1>3. 1..n \subseteq 1..(n + 1) /\ n + 1 \in 1..(n + 1)
  BY <1>1
<1> HIDE DEF more, n
<1>4. ToSet(more) = ToSet(seq) \cup {x}
  <2>1. ASSUME NEW y \in ToSet(more) PROVE y \in ToSet(seq) \cup {x}
    <3>1. PICK i \in 1..(n + 1) : y = more[i]
      BY <1>1, <2>1 DEF ToSet
    <3> QED BY <1>1, <1>2, <3>1 DEF ToSet
  <2>2. ASSUME NEW y \in ToSet(seq) PROVE y \in ToSet(more)
    <3>1. PICK i \in 1..n : y = seq[i]
      BY <1>1, <2>2 DEF ToSet
    <3> QED BY <1>1, <1>3, <3>1 DEF ToSet
  <2>3. x \in ToSet(more)
    BY <1>1, <1>3 DEF ToSet
  <2> QED BY <2>1, <2>2, <2>3
<1>5. ASSUME x \notin ToSet(seq), IsInjective(seq) PROVE IsInjective(more)
  <2> SUFFICES ASSUME NEW a \in 1..(n + 1), NEW b \in 1..(n + 1), more[a] = more[b] PROVE a = b
    BY <1>1 DEF IsInjective
  <2>1. \A i \in 1..n : seq[i] # x
    BY <1>1, <1>5 DEF ToSet
  <2>2. \A i, j \in 1..n : seq[i] = seq[j] => i = j
    BY <1>1, <1>5 DEF IsInjective
  <2> QED BY <1>1, <1>2, <2>1, <2>2
<1> QED BY <1>1, <1>4, <1>5 DEF more

\* Those that are in S are the elements in S, and none comes twice that did not before.
LEMMA ThoseIs ==
    ASSUME NEW T, NEW seq \in Seq(T), NEW S
    PROVE  /\ Those(seq, S) \in Seq(T)
           /\ ToSet(Those(seq, S)) = {x \in ToSet(seq) : x \in S}
           /\ IsInjective(seq) => IsInjective(Those(seq, S))
<1> DEFINE len == Len(seq)
           f == CHOOSE f : f = [n \in 0..Len(seq) |->
                  IF n = 0 THEN <<>>
                  ELSE IF seq[n] \in S THEN Append(f[n - 1], seq[n]) ELSE f[n - 1]]
<1>1. len \in Nat /\ DOMAIN seq = 1..len /\ \A j \in 1..len : seq[j] \in T
  OBVIOUS
<1>2. Those(seq, S) = f[len]
  BY DEF Those
<1>3. \E g : g = [n \in 0..Len(seq) |->
                  IF n = 0 THEN <<>>
                  ELSE IF seq[n] \in S THEN Append(g[n - 1], seq[n]) ELSE g[n - 1]]
  <2>1. Len(seq) \in Nat
    BY <1>1
  <2>2. PICK g : PicksFrom(g, seq, S, Len(seq))
    BY ONLY <2>1, ThoseDefined
  <2> QED BY <2>2 DEF PicksFrom
<1>4. f = [n \in 0..Len(seq) |->
                  IF n = 0 THEN <<>>
                  ELSE IF seq[n] \in S THEN Append(f[n - 1], seq[n]) ELSE f[n - 1]]
  BY <1>3
<1> HIDE DEF f
<1> DEFINE pick(i, x) == IF seq[i] \in S THEN Append(x, seq[i]) ELSE x
<1>10. f = [n \in 0..Len(seq) |-> IF n = 0 THEN <<>> ELSE pick(n, f[n - 1])]
  BY <1>4
<1> HIDE DEF pick
<1>11. f[0] = <<>> /\ \A i \in 1..len : f[i] = pick(i, f[i - 1])
  BY <1>1, <1>10
<1>5. f[0] = <<>> /\ \A i \in 1..len : f[i] = IF seq[i] \in S THEN Append(f[i - 1], seq[i]) ELSE f[i - 1]
  BY <1>11 DEF pick
<1> HIDE DEF len
<1> DEFINE Right(m) ==
      /\ f[m] \in Seq(T)
      /\ \A x : x \in ToSet(f[m]) <=> x \in S /\ \E i \in 1..m : seq[i] = x
      /\ IsInjective(seq) => IsInjective(f[m])
    Bad == {m \in 0..len : ~ Right(m)}
<1>6. Right(0)
  <2>1. f[0] \in Seq(T) /\ DOMAIN f[0] = {}
    BY <1>5
  <2> QED BY <2>1 DEF ToSet, IsInjective
<1>7. ASSUME NEW m \in 1..len, Right(m - 1) PROVE Right(m)
  <2> DEFINE s == f[m - 1]
  <2>1. s \in Seq(T) /\ (IsInjective(seq) => IsInjective(s))
        /\ \A x : x \in ToSet(s) <=> x \in S /\ \E i \in 1..(m - 1) : seq[i] = x
    BY <1>7
  <2>2. f[m] = IF seq[m] \in S THEN Append(s, seq[m]) ELSE s
    BY <1>5
  <2>3. m - 1 \in Nat /\ \A i : i \in 1..m <=> i \in 1..(m - 1) \/ i = m
    BY <1>1
  <2>4. seq[m] \in T /\ 1..m \subseteq DOMAIN seq /\ m \notin 1..(m - 1)
    BY <1>1
  <2> HIDE DEF s
  <2>5. CASE seq[m] \in S
    <3>1. /\ f[m] \in Seq(T) /\ ToSet(f[m]) = ToSet(s) \cup {seq[m]}
          /\ seq[m] \notin ToSet(s) /\ IsInjective(s) => IsInjective(f[m])
      BY <2>1, <2>2, <2>4, <2>5, OneMore
    <3>2. IsInjective(seq) => seq[m] \notin ToSet(s)
      BY <2>1, <2>3, <2>4 DEF IsInjective
    <3>3. \A x : x \in ToSet(f[m]) <=> x \in S /\ \E i \in 1..m : seq[i] = x
      BY <2>1, <2>3, <2>5, <3>1
    <3> QED BY <2>1, <3>1, <3>2, <3>3
  <2>6. CASE seq[m] \notin S
    <3>1. f[m] = s
      BY <2>2, <2>6
    <3>2. \A x : x \in ToSet(f[m]) <=> x \in S /\ \E i \in 1..m : seq[i] = x
      BY <2>1, <2>3, <2>6, <3>1
    <3> QED BY <2>1, <3>1, <3>2
  <2> QED BY <2>5, <2>6
<1>8. Bad = {}
  <2> SUFFICES ASSUME Bad # {} PROVE FALSE
    OBVIOUS
  <2>1. Bad \in SUBSET Nat
    BY <1>1
  <2>2. PICK m \in Bad : \A q \in Bad : m <= q
    <3> HIDE DEF Bad
    <3> QED BY <2>1, LeastNumber
  <2> HIDE DEF Right
  <2>3. m # 0 /\ m \in 0..len
    BY <1>6, <2>2
  <2>4. m \in 1..len /\ m - 1 \in 0..len /\ ~ (m <= m - 1)
    BY <1>1, <2>3
  <2>5. Right(m - 1)
    BY <2>2, <2>4
  <2> QED BY <1>7, <2>2, <2>4, <2>5
<1>9. Right(len)
  <2> HIDE DEF Right
  <2>1. len \in 0..len
    BY <1>1
  <2> QED BY <1>8, <2>1
<1>12. /\ f[len] \in Seq(T) /\ (IsInjective(seq) => IsInjective(f[len]))
       /\ \A x : x \in ToSet(f[len]) <=> x \in S /\ \E i \in 1..len : seq[i] = x
  BY <1>9
<1> HIDE DEF Right
<1>13. ToSet(seq) = {seq[i] : i \in 1..len}
  BY <1>1 DEF ToSet
<1>14. \A x : x \in ToSet(f[len]) <=> x \in {y \in ToSet(seq) : y \in S}
  BY <1>12, <1>13
<1>15. ToSet(f[len]) = {x \in ToSet(seq) : x \in S}
  BY <1>14
<1> QED BY <1>2, <1>12, <1>15

-----------------------------------------------------------------------------
(***************************************************************************)
(* What steps make of rows.                                                *)
(***************************************************************************)

OneOfEach(rows) == \A i, j \in DOMAIN rows : rows[i].id = rows[j].id => i = j

LEMMA NoneTwice == \A rows : OneOfEach(rows) => IsInjective(rows)
BY DEF OneOfEach, IsInjective

PieceOf(kind, from, steps, other) ==
    [from |-> from, steps |-> steps, joined |-> IF kind = "joins" THEN other ELSE 0]

\* The rows of a partition.
InPart(rows, p) == {row \in ToSet(rows) : row.part = p}

\* What each piece of the result is made from.
Sources(kind, rows) ==
    IF kind \in {"row by row", "joins"} THEN {{row} : row \in ToSet(rows)}
    ELSE IF kind = "groups by partition" THEN {InPart(rows, p) : p \in PartsOf(rows)}
    ELSE IF rows = <<>> THEN {} ELSE {ToSet(rows)}

Pieces(kind, rows, steps, other) == {PieceOf(kind, from, steps, other) : from \in Sources(kind, rows)}

LEMMA SetToSeqIs ==
    ASSUME NEW S, IsFiniteSet(S)
    PROVE  SetToSeq(S) \in Seq(S) /\ ToSet(SetToSeq(S)) = S /\ IsInjective(SetToSeq(S))
<1> DEFINE n == Cardinality(S)
           s == CHOOSE f \in [1..n -> S] : IsInjective(f)
<1>1. n \in Nat /\ ExistsBijection(1..n, S)
  BY FS_CardinalityType
<1>2. \E f \in [1..n -> S] : IsInjective(f)
  BY <1>1 DEF ExistsBijection, Bijection, Injection
<1>3. s \in [1..n -> S] /\ IsInjective(s)
  BY <1>2
<1>4. SetToSeq(S) = s
  BY DEF SetToSeq
<1> HIDE DEF s
<1>5. s \in Injection(1..n, S)
  BY <1>3 DEF Injection
<1>6. Cardinality(1..n) = n
  BY <1>1, FS_Interval
<1> HIDE DEF n
<1>7. Cardinality(1..n) = Cardinality(S)
  BY <1>6 DEF n
<1>8. s \in Surjection(1..n, S)
  BY <1>5, <1>7, FS_Injection
<1>9. ToSet(s) = S
  BY <1>3, <1>8 DEF ToSet, Surjection
<1>10. s \in Seq(S)
  BY <1>1, <1>3
<1> QED BY <1>3, <1>4, <1>9, <1>10

LEMMA InPartIs ==
    ASSUME NEW rows \in Seq(Row), NEW p
    PROVE  ToSet(RowsIn(rows, p)) = InPart(rows, p)
BY ThoseIs DEF RowsIn, InPart

LEMMA SourcesTyped ==
    ASSUME NEW rows \in Seq(Row), NEW kind
    PROVE  /\ ToSet(rows) \subseteq Row
           /\ \A from \in Sources(kind, rows) : from \subseteq ToSet(rows)
<1>1. ToSet(rows) \subseteq Row
  BY DEF ToSet
<1> QED BY <1>1 DEF Sources, InPart

\* Every source is among finitely many.
LEMMA SourcesFinite ==
    ASSUME NEW rows \in Seq(Row), NEW steps, NEW other
    PROVE  IsFiniteSet(Pieces("groups by partition", rows, steps, other))
<1> DEFINE n == Len(rows)
           S == Pieces("groups by partition", rows, steps, other)
           f == [i \in 1..n |-> PieceOf("groups by partition", InPart(rows, rows[i].part), steps, other)]
<1>1. n \in Nat /\ DOMAIN rows = 1..n
  OBVIOUS
<1>2. \A x : x \in S <=> \E p \in PartsOf(rows) : x = PieceOf("groups by partition", InPart(rows, p), steps, other)
  BY DEF Pieces, Sources
<1>3. \A p : p \in PartsOf(rows) <=> \E i \in 1..n : p = rows[i].part
  BY <1>1 DEF PartsOf, ToSet
<1> HIDE DEF n
<1>8. \A i \in 1..n : f[i] = PieceOf("groups by partition", InPart(rows, rows[i].part), steps, other)
  OBVIOUS
<1>9. f = [i \in 1..n |-> f[i]]
  OBVIOUS
<1> HIDE DEF f, S
<1>4. \A x : x \in S <=> \E i \in 1..n : x = f[i]
  <2>1. ASSUME NEW x \in S PROVE \E i \in 1..n : x = f[i]
    <3>1. PICK p \in PartsOf(rows) : x = PieceOf("groups by partition", InPart(rows, p), steps, other)
      BY <1>2, <2>1
    <3>2. PICK i \in 1..n : p = rows[i].part
      BY <1>3
    <3> QED BY <1>8, <3>1, <3>2
  <2>2. ASSUME NEW i \in 1..n PROVE f[i] \in S
    <3>1. rows[i].part \in PartsOf(rows)
      BY <1>3
    <3> QED BY <1>2, <1>8, <3>1
  <2> QED BY <2>1, <2>2
<1>5. f \in [1..n -> S]
  BY <1>4, <1>9
<1>6. f \in Surjection(1..n, S)
  BY <1>4, <1>5 DEF Surjection
<1>7. IsFiniteSet(1..n)
  BY <1>1, FS_Interval
<1> QED BY <1>6, <1>7, FS_Surjection DEF S

\* A full run makes each piece once.
LEMMA MadeIs ==
    ASSUME recipe.kind \in Kind, NEW rows \in Seq(Row),
           NEW steps \in 0..MaxRevisions, NEW other \in 0..MaxRevisions
    PROVE  /\ Made(rows, steps, other) \in Seq(Piece)
           /\ ToSet(Made(rows, steps, other)) = Pieces(recipe.kind, rows, steps, other)
           /\ OneOfEach(rows) => IsInjective(Made(rows, steps, other))
<1> DEFINE kind == recipe.kind
           s == Made(rows, steps, other)
           Of(from) == PieceOf(kind, from, steps, other)
<1>1. MaxRevisions \in Nat /\ Len(rows) \in Nat /\ DOMAIN rows = 1..Len(rows)
  BY IncrementalAssumption
<1>2. \A from \in SUBSET Row : Of(from) \in Piece
  BY <1>1 DEF Piece, PieceOf
<1>3. ToSet(rows) \subseteq Row
  BY SourcesTyped
<1>4. Pieces(kind, rows, steps, other) \subseteq Piece
  <2>1. \A from \in Sources(kind, rows) : from \in SUBSET Row
    BY SourcesTyped
  <2> QED BY <1>2, <2>1 DEF Pieces
<1>5. CASE kind \in {"row by row", "joins"}
  <2>1. s = [i \in DOMAIN rows |-> Of({rows[i]})]
    BY <1>5 DEF Made, PieceOf
  <2> HIDE DEF s
  <2>2. \A i \in DOMAIN rows : rows[i] \in Row /\ Of({rows[i]}) \in Piece
    BY <1>2, <1>3 DEF ToSet
  <2>3. s \in Seq(Piece)
    BY <1>1, <2>1, <2>2
  <2>4. ToSet(s) = {Of({row}) : row \in ToSet(rows)}
    BY <2>1 DEF ToSet
  <2>5. Pieces(kind, rows, steps, other) = {Of({row}) : row \in ToSet(rows)}
    BY <1>5 DEF Pieces, Sources
  <2>6. ASSUME OneOfEach(rows) PROVE IsInjective(s)
    <3>1. \A i, j \in DOMAIN rows : Of({rows[i]}) = Of({rows[j]}) => {rows[i]} = {rows[j]}
      BY DEF PieceOf
    <3>2. \A i, j \in DOMAIN rows : rows[i] = rows[j] => i = j
      BY <2>6, NoneTwice DEF IsInjective
    <3>3. \A i, j \in DOMAIN rows : Of({rows[i]}) = Of({rows[j]}) => i = j
      <4> SUFFICES ASSUME NEW i \in DOMAIN rows, NEW j \in DOMAIN rows, Of({rows[i]}) = Of({rows[j]})
                   PROVE  i = j
        OBVIOUS
      <4>1. {rows[i]} = {rows[j]}
        BY <3>1
      <4>2. rows[i] = rows[j]
        BY <4>1
      <4> QED BY <3>2, <4>2
    <3>4. DOMAIN s = DOMAIN rows /\ \A i \in DOMAIN rows : s[i] = Of({rows[i]})
      BY <2>1
    <3> HIDE DEF Of
    <3> QED BY <3>3, <3>4 DEF IsInjective
  <2> QED BY <2>3, <2>4, <2>5, <2>6 DEF s
<1>6. CASE kind = "groups by partition"
  <2>1. s = SetToSeq({Of(ToSet(RowsIn(rows, p))) : p \in PartsOf(rows)})
    BY <1>6 DEF Made, PieceOf
  <2>2. {Of(ToSet(RowsIn(rows, p))) : p \in PartsOf(rows)} = {Of(InPart(rows, p)) : p \in PartsOf(rows)}
    <3> HIDE DEF Of
    <3> QED BY InPartIs
  <2>3. Pieces(kind, rows, steps, other) = {Of(InPart(rows, p)) : p \in PartsOf(rows)}
    BY <1>6 DEF Pieces, Sources
  <2>4. IsFiniteSet(Pieces(kind, rows, steps, other))
    BY <1>6, SourcesFinite
  <2> HIDE DEF s, Of
  <2>5. s = SetToSeq(Pieces(kind, rows, steps, other))
    BY <2>1, <2>2, <2>3
  <2>6. s \in Seq(Pieces(kind, rows, steps, other)) /\ IsInjective(s)
        /\ ToSet(s) = Pieces(kind, rows, steps, other)
    BY <2>4, <2>5, SetToSeqIs
  <2>7. s \in Seq(Piece)
    BY <1>4, <2>6
  <2> QED BY <2>6, <2>7 DEF s
<1>7. CASE kind = "sorts"
  <2>1. s = IF rows = <<>> THEN <<>> ELSE <<Of(ToSet(rows))>>
    BY <1>7 DEF Made, PieceOf
  <2>2. Pieces(kind, rows, steps, other) = IF rows = <<>> THEN {} ELSE {Of(ToSet(rows))}
    BY <1>7 DEF Pieces, Sources
  <2>3. Of(ToSet(rows)) \in Piece
    BY <1>2, <1>3
  <2> HIDE DEF s, Of
  <2>4. CASE rows = <<>>
    <3>1. s \in Seq(Piece) /\ DOMAIN s = {}
      BY <2>1, <2>4
    <3> QED BY <2>2, <2>4, <3>1 DEF ToSet, IsInjective, s
  <2>5. CASE rows # <<>>
    <3>1. s \in Seq(Piece) /\ DOMAIN s = {1} /\ s[1] = Of(ToSet(rows))
      BY <2>1, <2>3, <2>5
    <3> QED BY <2>2, <2>5, <3>1 DEF ToSet, IsInjective, s
  <2> QED BY <2>4, <2>5
<1> QED BY <1>5, <1>6, <1>7 DEF Kind

\* Two sequences one after the other.
LEMMA Joint ==
    ASSUME NEW T, NEW s \in Seq(T), NEW t \in Seq(T)
    PROVE  /\ s \o t \in Seq(T)
           /\ ToSet(s \o t) = ToSet(s) \cup ToSet(t)
           /\ IsInjective(s) /\ IsInjective(t) /\ ToSet(s) \cap ToSet(t) = {} => IsInjective(s \o t)
<1> DEFINE m == Len(s)
           n == Len(t)
           st == s \o t
<1>1. /\ m \in Nat /\ n \in Nat /\ DOMAIN s = 1..m /\ DOMAIN t = 1..n /\ DOMAIN st = 1..(m + n)
      /\ st \in Seq(T) /\ \A i \in 1..m : st[i] = s[i]
  OBVIOUS
<1>2. \A j \in 1..n : st[m + j] = t[j]
  <2> SUFFICES ASSUME NEW j \in 1..n PROVE st[m + j] = t[j]
    OBVIOUS
  <2>1. m + j \in 1..(m + n) /\ m + j > m /\ m + j - m = j
    BY <1>1
  <2>2. st[m + j] = t[m + j - m]
    BY <2>1
  <2> QED BY <2>1, <2>2
<1> HIDE DEF st, m, n
<1>3. \A i \in 1..(m + n) : i \in 1..m \/ \E j \in 1..n : i = m + j
  <2> SUFFICES ASSUME NEW i \in 1..(m + n), i \notin 1..m PROVE \E j \in 1..n : i = m + j
    OBVIOUS
  <2>1. i - m \in 1..n /\ i = m + (i - m)
    BY <1>1
  <2> QED BY <2>1
<1>4. /\ \A i \in 1..m : i \in 1..(m + n)
      /\ \A j \in 1..n : m + j \in 1..(m + n)
  BY <1>1
<1>5. ToSet(st) = ToSet(s) \cup ToSet(t)
  <2>1. ASSUME NEW x \in ToSet(st) PROVE x \in ToSet(s) \cup ToSet(t)
    <3>1. PICK i \in 1..(m + n) : x = st[i]
      BY <1>1, <2>1 DEF ToSet
    <3> QED BY <1>1, <1>2, <1>3, <3>1 DEF ToSet
  <2>2. ASSUME NEW x \in ToSet(s) PROVE x \in ToSet(st)
    <3>1. PICK i \in 1..m : x = s[i]
      BY <1>1, <2>2 DEF ToSet
    <3> QED BY <1>1, <1>4, <3>1 DEF ToSet
  <2>3. ASSUME NEW x \in ToSet(t) PROVE x \in ToSet(st)
    <3>1. PICK j \in 1..n : x = t[j]
      BY <1>1, <2>3 DEF ToSet
    <3> QED BY <1>1, <1>2, <1>4, <3>1 DEF ToSet
  <2> QED BY <2>1, <2>2, <2>3
<1>6. ASSUME IsInjective(s), IsInjective(t), ToSet(s) \cap ToSet(t) = {}
      PROVE  IsInjective(st)
  <2> SUFFICES ASSUME NEW a \in 1..(m + n), NEW b \in 1..(m + n), st[a] = st[b] PROVE a = b
    BY <1>1 DEF IsInjective
  <2>1. /\ \A i, j \in 1..m : s[i] = s[j] => i = j
        /\ \A i, j \in 1..n : t[i] = t[j] => i = j
    BY <1>1, <1>6 DEF IsInjective
  <2>6. \A i \in 1..m : \A j \in 1..n : s[i] # t[j]
    <3>1. \A i \in 1..m : s[i] \in ToSet(s)
      BY <1>1 DEF ToSet
    <3>2. \A j \in 1..n : t[j] \in ToSet(t)
      BY <1>1 DEF ToSet
    <3> QED BY <1>6, <3>1, <3>2
  <2>2. CASE a \in 1..m /\ b \in 1..m
    BY <1>1, <2>1, <2>2
  <2>3. ASSUME NEW j \in 1..n, a = m + j, b \in 1..m PROVE a = b
    BY <1>1, <1>2, <2>6, <2>3
  <2>4. ASSUME NEW j \in 1..n, b = m + j, a \in 1..m PROVE a = b
    <3>1. s[a] = t[j]
      BY <1>1, <1>2, <2>4
    <3> QED BY <2>6, <2>4, <3>1
  <2>5. ASSUME NEW i \in 1..n, NEW j \in 1..n, a = m + i, b = m + j PROVE a = b
    BY <1>2, <2>1, <2>5
  <2> QED BY <1>3, <2>2, <2>3, <2>4, <2>5
<1> QED BY <1>1, <1>5, <1>6 DEF st

\* What was appended.
LEMMA RestIs ==
    ASSUME NEW before \in Seq(Row), NEW now \in Seq(Row), IsPrefix(before, now), OneOfEach(now)
    PROVE  LET fresh == SubSeq(now, Len(before) + 1, Len(now)) IN
           /\ fresh \in Seq(Row) /\ OneOfEach(fresh)
           /\ ToSet(now) = ToSet(before) \cup ToSet(fresh)
           /\ ToSet(before) \cap ToSet(fresh) = {}
<1> DEFINE m == Len(before)
           n == Len(now)
           fresh == SubSeq(now, m + 1, n)
<1>1. m \in Nat /\ n \in Nat /\ DOMAIN before = 1..m /\ DOMAIN now = 1..n
  OBVIOUS
<1>2. m <= n /\ SubSeq(before, 1, m) = SubSeq(now, 1, m)
  BY DEF IsPrefix
<1>3. \A i \in 1..m : before[i] = now[i]
  <2> SUFFICES ASSUME NEW i \in 1..m PROVE before[i] = now[i]
    OBVIOUS
  <2>1. SubSeq(before, 1, m)[i] = before[i] /\ SubSeq(now, 1, m)[i] = now[i]
    BY <1>1, <1>2
  <2> QED BY <1>2, <2>1
<1>4. fresh \in Seq(Row) /\ DOMAIN fresh = 1..(n - m)
  BY <1>1, <1>2
<1>5. \A j \in 1..(n - m) : fresh[j] = now[m + j]
  <2> SUFFICES ASSUME NEW j \in 1..(n - m) PROVE fresh[j] = now[m + j]
    OBVIOUS
  <2>1. m + 1 + j - 1 = m + j
    BY <1>1
  <2> QED BY <1>1, <1>2, <2>1
<1> HIDE DEF fresh, m, n
<1>6. /\ \A i \in 1..m : i \in 1..n
      /\ \A j \in 1..(n - m) : m + j \in 1..n /\ m + j \notin 1..m
      /\ \A i \in 1..n : i \in 1..m \/ \E j \in 1..(n - m) : i = m + j
  <2>1. ASSUME NEW i \in 1..n, i \notin 1..m PROVE \E j \in 1..(n - m) : i = m + j
    <3>1. i - m \in 1..(n - m) /\ i = m + (i - m)
      BY <1>1, <2>1
    <3> QED BY <3>1
  <2> QED BY <1>1, <1>2, <2>1
<1>7. OneOfEach(fresh)
  <2> SUFFICES ASSUME NEW i \in 1..(n - m), NEW j \in 1..(n - m), fresh[i].id = fresh[j].id PROVE i = j
    BY <1>4 DEF OneOfEach
  <2>2. m + i \in DOMAIN now /\ m + j \in DOMAIN now /\ now[m + i].id = now[m + j].id
    BY <1>1, <1>5, <1>6
  <2>1. m + i = m + j
    BY <2>2 DEF OneOfEach
  <2> QED BY <1>1, <2>1
<1>8. ToSet(now) = ToSet(before) \cup ToSet(fresh)
  <2>1. ASSUME NEW x \in ToSet(now) PROVE x \in ToSet(before) \cup ToSet(fresh)
    <3>1. PICK i \in 1..n : x = now[i]
      BY <1>1, <2>1 DEF ToSet
    <3>2. CASE i \in 1..m
      BY <1>1, <1>3, <3>1, <3>2 DEF ToSet
    <3>3. CASE \E j \in 1..(n - m) : i = m + j
      BY <1>4, <1>5, <3>1, <3>3 DEF ToSet
    <3> QED BY <1>6, <3>1, <3>2, <3>3
  <2>2. ASSUME NEW x \in ToSet(before) PROVE x \in ToSet(now)
    <3>1. PICK i \in 1..m : x = before[i]
      BY <1>1, <2>2 DEF ToSet
    <3> QED BY <1>1, <1>3, <1>6, <3>1 DEF ToSet
  <2>3. ASSUME NEW x \in ToSet(fresh) PROVE x \in ToSet(now)
    <3>1. PICK j \in 1..(n - m) : x = fresh[j]
      BY <1>4, <2>3 DEF ToSet
    <3> QED BY <1>1, <1>5, <1>6, <3>1 DEF ToSet
  <2> QED BY <2>1, <2>2, <2>3
<1>9. ToSet(before) \cap ToSet(fresh) = {}
  <2> SUFFICES ASSUME NEW x \in ToSet(before), x \in ToSet(fresh) PROVE FALSE
    OBVIOUS
  <2>1. PICK i \in 1..m : x = before[i]
    BY <1>1 DEF ToSet
  <2>2. PICK j \in 1..(n - m) : x = fresh[j]
    BY <1>4 DEF ToSet
  <2>3. now[i] = now[m + j]
    BY <1>3, <1>5, <2>1, <2>2
  <2>4. i = m + j
    BY <1>1, <1>6, <2>3 DEF OneOfEach
  <2> QED BY <1>6, <2>4
<1> QED BY <1>4, <1>7, <1>8, <1>9 DEF fresh, m, n

\* Only rows were added; s was made of the rows before, and t of those that were added.
Adds(before, now, kind, steps, other, s, t) ==
    /\ before \in Seq(Row) /\ now \in Seq(Row) /\ IsPrefix(before, now) /\ OneOfEach(now)
    /\ kind \in {"row by row", "joins"}
    /\ s \in Seq(Piece) /\ IsInjective(s) /\ ToSet(s) = Pieces(kind, before, steps, other)
    /\ t \in Seq(Piece) /\ IsInjective(t)
    /\ ToSet(t) = Pieces(kind, SubSeq(now, Len(before) + 1, Len(now)), steps, other)

\* Where only rows were added, the pieces made of them are all that is missing.
LEMMA AppendRight ==
    ASSUME NEW before, NEW now, NEW kind, NEW steps, NEW other, NEW s, NEW t,
           Adds(before, now, kind, steps, other, s, t)
    PROVE  IsInjective(s \o t) /\ ToSet(s \o t) = Pieces(kind, now, steps, other)
<1>0. /\ before \in Seq(Row) /\ now \in Seq(Row) /\ IsPrefix(before, now) /\ OneOfEach(now)
      /\ kind \in {"row by row", "joins"}
      /\ s \in Seq(Piece) /\ IsInjective(s) /\ ToSet(s) = Pieces(kind, before, steps, other)
      /\ t \in Seq(Piece) /\ IsInjective(t)
      /\ ToSet(t) = Pieces(kind, SubSeq(now, Len(before) + 1, Len(now)), steps, other)
  BY DEF Adds
<1> USE <1>0
<1> DEFINE fresh == SubSeq(now, Len(before) + 1, Len(now))
<1>1. ToSet(now) = ToSet(before) \cup ToSet(fresh) /\ ToSet(before) \cap ToSet(fresh) = {}
  BY RestIs
<1> HIDE DEF fresh
<1>4. ToSet(t) = Pieces(kind, fresh, steps, other)
  BY DEF fresh
<1>2. /\ \A x : x \in ToSet(s) <=> \E row \in ToSet(before) : x = PieceOf(kind, {row}, steps, other)
      /\ \A x : x \in ToSet(t) <=> \E row \in ToSet(fresh) : x = PieceOf(kind, {row}, steps, other)
      /\ \A x : x \in Pieces(kind, now, steps, other)
                 <=> \E row \in ToSet(now) : x = PieceOf(kind, {row}, steps, other)
  BY <1>4 DEF Pieces, Sources
<1>3. \A a, b : PieceOf(kind, {a}, steps, other) = PieceOf(kind, {b}, steps, other) => a = b
  <2> SUFFICES ASSUME NEW a, NEW b, PieceOf(kind, {a}, steps, other) = PieceOf(kind, {b}, steps, other)
               PROVE  a = b
    OBVIOUS
  <2>1. {a} = {b}
    BY DEF PieceOf
  <2> QED BY <2>1
<1>5. ToSet(s) \cap ToSet(t) = {}
  <2> SUFFICES ASSUME NEW x \in ToSet(s), x \in ToSet(t) PROVE FALSE
    OBVIOUS
  <2>1. PICK a \in ToSet(before) : x = PieceOf(kind, {a}, steps, other)
    BY <1>2
  <2>2. PICK b \in ToSet(fresh) : x = PieceOf(kind, {b}, steps, other)
    BY <1>2, <1>4
  <2> QED BY <1>1, <1>3, <2>1, <2>2
<1>6. \A x : x \in ToSet(s) \cup ToSet(t) <=> x \in Pieces(kind, now, steps, other)
  <2>1. ASSUME NEW x \in ToSet(s) \cup ToSet(t) PROVE x \in Pieces(kind, now, steps, other)
    <3>1. PICK a \in ToSet(now) : x = PieceOf(kind, {a}, steps, other)
      BY <1>1, <1>2, <1>4, <2>1
    <3> QED BY <1>2, <3>1
  <2>2. ASSUME NEW x \in Pieces(kind, now, steps, other) PROVE x \in ToSet(s) \cup ToSet(t)
    <3>1. PICK a \in ToSet(now) : x = PieceOf(kind, {a}, steps, other)
      BY <1>2, <2>2
    <3>2. CASE a \in ToSet(before)
      BY <1>2, <3>1, <3>2
    <3>3. CASE a \in ToSet(fresh)
      BY <1>2, <1>4, <3>1, <3>3
    <3> QED BY <1>1, <3>2, <3>3
  <2> QED BY <2>1, <2>2
<1>7. ToSet(s) \cup ToSet(t) = Pieces(kind, now, steps, other)
  BY <1>6
<1>8. ToSet(s \o t) = ToSet(s) \cup ToSet(t) /\ IsInjective(s \o t)
  <2>1. s \in Seq(Piece) /\ t \in Seq(Piece) /\ IsInjective(s) /\ IsInjective(t)
    OBVIOUS
  <2>2. ToSet(s \o t) = ToSet(s) \cup ToSet(t)
    BY ONLY <2>1, Joint
  <2>3. IsInjective(s \o t)
    BY ONLY <1>5, <2>1, Joint
  <2> QED BY <2>2, <2>3
<1> QED BY <1>7, <1>8

\* Rows of a partition that did not change are the same before and now.
LEMMA SameParts ==
    ASSUME NEW before \in Seq(Row), NEW now \in Seq(Row), NEW p \in Part, p \notin Changed(before, now)
    PROVE  InPart(before, p) = InPart(now, p)
<1>1. RowsIn(before, p) = RowsIn(now, p)
  BY DEF Changed
<1> QED BY <1>1, InPartIs

\* A source is rows of one partition.
LEMMA OfOnePart ==
    ASSUME NEW kind \in {"row by row", "joins", "groups by partition"}, NEW rows, NEW from \in Sources(kind, rows)
    PROVE  \E row \in ToSet(rows) : row \in from /\ \A x \in from : x.part = row.part
BY DEF Sources, InPart, PartsOf

\* Partitions are computed again: s is what remains of the pieces made of the rows before,
\* and t was made of the rows of the partitions that changed.
Renews(before, now, kind, steps, other, fresh, s, t) ==
    /\ before \in Seq(Row) /\ now \in Seq(Row) /\ kind \in {"row by row", "joins", "groups by partition"}
    /\ fresh \in Seq(Row) /\ ToSet(fresh) = {row \in ToSet(now) : row.part \in Changed(before, now)}
    /\ s \in Seq(Piece) /\ IsInjective(s)
    /\ ToSet(s) = {x \in Pieces(kind, before, steps, other) : PartOf(x) \notin Changed(before, now)}
    /\ t \in Seq(Piece) /\ IsInjective(t) /\ ToSet(t) = Pieces(kind, fresh, steps, other)

\* Where partitions are computed again, those that did not change are all that is kept.
LEMMA PartitionRight ==
    ASSUME NEW before, NEW now, NEW kind, NEW steps, NEW other, NEW fresh, NEW s, NEW t,
           Renews(before, now, kind, steps, other, fresh, s, t)
    PROVE  IsInjective(s \o t) /\ ToSet(s \o t) = Pieces(kind, now, steps, other)
<1>0. /\ before \in Seq(Row) /\ now \in Seq(Row) /\ kind \in {"row by row", "joins", "groups by partition"}
      /\ fresh \in Seq(Row) /\ ToSet(fresh) = {row \in ToSet(now) : row.part \in Changed(before, now)}
      /\ s \in Seq(Piece) /\ IsInjective(s)
      /\ ToSet(s) = {x \in Pieces(kind, before, steps, other) : PartOf(x) \notin Changed(before, now)}
      /\ t \in Seq(Piece) /\ IsInjective(t) /\ ToSet(t) = Pieces(kind, fresh, steps, other)
  BY DEF Renews
<1> USE <1>0
<1> DEFINE Ch == Changed(before, now)
           Of(from) == PieceOf(kind, from, steps, other)
<1>1. ToSet(before) \subseteq Row /\ ToSet(now) \subseteq Row /\ \A row \in Row : row.part \in Part
  BY SourcesTyped DEF Row
<1>2. \A p \in Part \ Ch : InPart(before, p) = InPart(now, p)
  BY SameParts
<1>3. \A rows : \A row \in ToSet(rows) : row \in InPart(rows, row.part)
  BY DEF InPart
<1> HIDE DEF Ch
<1>4. \A rows : \A from \in Sources(kind, rows) :
        \E row \in ToSet(rows) : row \in from /\ \A x \in from : x.part = row.part
  BY OfOnePart
<1>6. \A from : from \in Sources(kind, now) <=>
        \/ from \in Sources(kind, before) /\ \A row \in from : row.part \notin Ch
        \/ from \in Sources(kind, fresh)
  <2>1. CASE kind \in {"row by row", "joins"}
    <3>1. /\ \A from : from \in Sources(kind, now) <=> \E row \in ToSet(now) : from = {row}
          /\ \A from : from \in Sources(kind, before) <=> \E row \in ToSet(before) : from = {row}
          /\ \A from : from \in Sources(kind, fresh) <=> \E row \in ToSet(fresh) : from = {row}
      BY <2>1 DEF Sources
    <3>2. \A row : row \in ToSet(now) <=> (row \in ToSet(before) /\ row.part \notin Ch) \/ row \in ToSet(fresh)
      <4> SUFFICES ASSUME NEW row
                   PROVE  row \in ToSet(now) <=> (row \in ToSet(before) /\ row.part \notin Ch) \/ row \in ToSet(fresh)
        OBVIOUS
      <4>1. row \in ToSet(fresh) <=> row \in ToSet(now) /\ row.part \in Ch
        BY DEF Ch
      <4>2. ASSUME row.part \notin Ch PROVE row \in ToSet(now) <=> row \in ToSet(before)
        <5>1. row \in ToSet(now) \/ row \in ToSet(before) => row.part \in Part
          BY <1>1
        <5> QED BY <1>2, <4>2, <5>1 DEF InPart
      <4> QED BY <4>1, <4>2
    <3>3. \A row : \A x \in {row} : x = row
      OBVIOUS
    <3>4. ASSUME NEW from \in Sources(kind, now)
          PROVE  \/ from \in Sources(kind, before) /\ \A row \in from : row.part \notin Ch
                 \/ from \in Sources(kind, fresh)
      <4>1. PICK row \in ToSet(now) : from = {row}
        BY <3>1, <3>4
      <4> QED BY <3>1, <3>2, <4>1
    <3>5. ASSUME NEW from \in Sources(kind, fresh) PROVE from \in Sources(kind, now)
      <4>1. PICK row \in ToSet(fresh) : from = {row}
        BY <3>1, <3>5
      <4> QED BY <3>1, <3>2, <4>1
    <3>6. ASSUME NEW from \in Sources(kind, before), \A row \in from : row.part \notin Ch
          PROVE  from \in Sources(kind, now)
      <4>1. PICK row \in ToSet(before) : from = {row}
        BY <3>1, <3>6
      <4> QED BY <3>1, <3>2, <3>6, <4>1
    <3> QED BY <3>4, <3>5, <3>6
  <2>2. CASE kind = "groups by partition"
    <3>1. /\ \A from : from \in Sources(kind, now) <=> \E p \in PartsOf(now) : from = InPart(now, p)
          /\ \A from : from \in Sources(kind, before) <=> \E p \in PartsOf(before) : from = InPart(before, p)
          /\ \A from : from \in Sources(kind, fresh) <=> \E p \in PartsOf(fresh) : from = InPart(fresh, p)
      BY <2>2 DEF Sources
    <3>2. \A p \in Ch : InPart(fresh, p) = InPart(now, p)
      BY DEF InPart, Ch
    <3>3. \A p : p \in PartsOf(fresh) <=> p \in PartsOf(now) /\ p \in Ch
      BY DEF PartsOf, Ch
    <3>4. \A p : p \notin Ch => (p \in PartsOf(now) <=> p \in PartsOf(before))
      <4> SUFFICES ASSUME NEW p, p \notin Ch PROVE p \in PartsOf(now) <=> p \in PartsOf(before)
        OBVIOUS
      <4>1. \A rows : p \in PartsOf(rows) <=> InPart(rows, p) # {}
        BY DEF PartsOf, InPart
      <4>2. p \in PartsOf(now) \/ p \in PartsOf(before) => p \in Part
        BY <1>1 DEF PartsOf
      <4> QED BY <1>2, <4>1, <4>2
    <3>5. \A rows : \A p \in PartsOf(rows) : InPart(rows, p) # {} /\ \A row \in InPart(rows, p) : row.part = p
      BY DEF PartsOf, InPart
    <3>6. PartsOf(now) \subseteq Part /\ PartsOf(before) \subseteq Part
      BY <1>1 DEF PartsOf
    <3>7. ASSUME NEW from \in Sources(kind, now)
          PROVE  \/ from \in Sources(kind, before) /\ \A row \in from : row.part \notin Ch
                 \/ from \in Sources(kind, fresh)
      <4>1. PICK p \in PartsOf(now) : from = InPart(now, p)
        BY <3>1, <3>7
      <4>2. CASE p \in Ch
        <5>1. p \in PartsOf(fresh) /\ from = InPart(fresh, p)
          BY <3>2, <3>3, <4>1, <4>2
        <5> QED BY <3>1, <5>1
      <4>3. CASE p \notin Ch
        <5>1. p \in PartsOf(before) /\ from = InPart(before, p)
          BY <1>2, <3>4, <3>6, <4>1, <4>3
        <5>2. \A row \in from : row.part \notin Ch
          BY <3>5, <4>3, <5>1
        <5> QED BY <3>1, <5>1, <5>2
      <4> QED BY <4>2, <4>3
    <3>8. ASSUME NEW from \in Sources(kind, fresh) PROVE from \in Sources(kind, now)
      <4>1. PICK p \in PartsOf(fresh) : from = InPart(fresh, p)
        BY <3>1, <3>8
      <4>2. p \in PartsOf(now) /\ from = InPart(now, p)
        BY <3>2, <3>3, <4>1
      <4> QED BY <3>1, <4>2
    <3>9. ASSUME NEW from \in Sources(kind, before), \A row \in from : row.part \notin Ch
          PROVE  from \in Sources(kind, now)
      <4>1. PICK p \in PartsOf(before) : from = InPart(before, p)
        BY <3>1, <3>9
      <4>2. p \notin Ch
        <5>2. InPart(before, p) # {}
          BY DEF PartsOf, InPart
        <5>1. PICK row \in InPart(before, p) : row.part = p
          BY <5>2 DEF InPart
        <5> QED BY <3>9, <4>1, <5>1
      <4>3. p \in PartsOf(now) /\ from = InPart(now, p)
        BY <1>2, <3>4, <3>6, <4>1, <4>2
      <4> QED BY <3>1, <4>3
    <3> QED BY <3>7, <3>8, <3>9
  <2> QED BY <2>1, <2>2
<1>7. /\ \A x : x \in Pieces(kind, before, steps, other) <=> \E from \in Sources(kind, before) : x = Of(from)
      /\ \A x : x \in ToSet(t) <=> \E from \in Sources(kind, fresh) : x = Of(from)
      /\ \A x : x \in Pieces(kind, now, steps, other) <=> \E from \in Sources(kind, now) : x = Of(from)
  BY DEF Pieces
<1>12. \A from \in Sources(kind, before) : \A row \in from : PartOf(Of(from)) = row.part
  <2> SUFFICES ASSUME NEW from \in Sources(kind, before), NEW row \in from
               PROVE  PartOf(Of(from)) = row.part
    OBVIOUS
  <2>1. \A x \in from : \A y \in from : x.part = y.part
    BY <1>4
  <2> HIDE DEF Of
  <2>2. PartOf(PieceOf(kind, from, steps, other)) = row.part
    <3> DEFINE one == CHOOSE x \in from : TRUE
    <3>1. PieceOf(kind, from, steps, other).from = from
      BY DEF PieceOf
    <3>2. one \in from
      OBVIOUS
    <3>3. PartOf(PieceOf(kind, from, steps, other)) = one.part
      BY <3>1 DEF PartOf
    <3> HIDE DEF one
    <3> QED BY <2>1, <3>2, <3>3
  <2> QED BY <2>2 DEF Of
<1>13. \A from \in Sources(kind, before) : \E row \in from : TRUE
  BY <1>4
<1>8. \A x : x \in ToSet(s) <=> \E from \in Sources(kind, before) :
                                   x = Of(from) /\ \A row \in from : row.part \notin Ch
  <2>1. ASSUME NEW x \in ToSet(s)
        PROVE  \E from \in Sources(kind, before) : x = Of(from) /\ \A row \in from : row.part \notin Ch
    <3>1. x \in Pieces(kind, before, steps, other) /\ PartOf(x) \notin Ch
      BY <2>1 DEF Ch
    <3>2. PICK from \in Sources(kind, before) : x = Of(from)
      BY <1>7, <3>1
    <3> HIDE DEF Of
    <3>3. \A row \in from : PartOf(x) = row.part
      BY <1>12, <3>2
    <3> QED BY <3>1, <3>2, <3>3
  <2>2. ASSUME NEW from \in Sources(kind, before), \A row \in from : row.part \notin Ch
        PROVE  Of(from) \in ToSet(s)
    <3>1. PartOf(Of(from)) \notin Ch
      <4>1. PICK row \in from : row.part \notin Ch
        BY <1>13, <2>2
      <4>2. PartOf(Of(from)) = row.part
        BY <1>12
      <4> HIDE DEF Of
      <4> QED BY <4>1, <4>2
    <3>2. Of(from) \in Pieces(kind, before, steps, other)
      BY <1>7
    <3> QED BY <3>1, <3>2 DEF Ch
  <2> QED BY <2>1, <2>2
<1>9. \A from \in Sources(kind, fresh) : \E row \in from : row.part \in Ch
  <2>1. \A row \in ToSet(fresh) : row.part \in Ch
    BY DEF Ch
  <2> QED BY <1>4, <2>1
<1>10. ToSet(s) \cap ToSet(t) = {}
  <2> SUFFICES ASSUME NEW x \in ToSet(s), x \in ToSet(t) PROVE FALSE
    OBVIOUS
  <2>1. PICK a \in Sources(kind, before) : x = Of(a) /\ \A row \in a : row.part \notin Ch
    BY <1>8
  <2>2. PICK b \in Sources(kind, fresh) : x = Of(b)
    BY <1>7
  <2>3. Of(a).from = a /\ Of(b).from = b
    BY DEF PieceOf
  <2>4. a = b
    BY <2>1, <2>2, <2>3
  <2> QED BY <1>9, <2>1, <2>4
<1> HIDE DEF Of
<1>11. \A x : x \in ToSet(s) \cup ToSet(t) <=> x \in Pieces(kind, now, steps, other)
  <2>1. ASSUME NEW x \in ToSet(s) PROVE x \in Pieces(kind, now, steps, other)
    BY <1>6, <1>7, <1>8, <2>1
  <2>2. ASSUME NEW x \in ToSet(t) PROVE x \in Pieces(kind, now, steps, other)
    BY <1>6, <1>7, <2>2
  <2>3. ASSUME NEW x \in Pieces(kind, now, steps, other) PROVE x \in ToSet(s) \cup ToSet(t)
    <3>1. PICK from \in Sources(kind, now) : x = Of(from)
      BY <1>7, <2>3
    <3>2. CASE from \in Sources(kind, before) /\ \A row \in from : row.part \notin Ch
      BY <1>8, <3>1, <3>2
    <3>3. CASE from \in Sources(kind, fresh)
      BY <1>7, <3>1, <3>3
    <3> QED BY <1>6, <3>1, <3>2, <3>3
  <2> QED BY <2>1, <2>2, <2>3
<1>14. ToSet(s) \cup ToSet(t) = Pieces(kind, now, steps, other)
  BY <1>11
<1>15. ToSet(s \o t) = ToSet(s) \cup ToSet(t) /\ IsInjective(s \o t)
  <2>1. s \in Seq(Piece) /\ t \in Seq(Piece) /\ IsInjective(s) /\ IsInjective(t)
    OBVIOUS
  <2>2. ToSet(s \o t) = ToSet(s) \cup ToSet(t)
    BY ONLY <2>1, Joint
  <2>3. IsInjective(s \o t)
    BY ONLY <1>10, <2>1, Joint
  <2> QED BY <2>2, <2>3
<1> QED BY <1>14, <1>15

-----------------------------------------------------------------------------
(***************************************************************************)
(* What the variables hold.                                                *)
(***************************************************************************)

ModeOfRun == BuildMode \cup {"full"}
Reading == {"before", "now", "in full", "applying"}
Numbered == {"named", "pinned"} \cup Reading
Finishing == {"publishing", "recording"}

\* Records of runs, of their makers and of inputs that are kept, with n versions of the input.
Make(n) == [base : 0..n, steps : 0..MaxRevisions, joined : 0..MaxRevisions, made : Seq(Piece),
            read : Seq(Row), full : BOOLEAN, after : BOOLEAN, mixed : BOOLEAN]
Going(n) == [at : {"idle"} \cup Numbered \cup Finishing, run : Make(n), file : 0..n, hash : Seq(Row),
             mode : ModeOfRun, prev : Make(n), before : Seq(Row), loaded : BOOLEAN]
Keeping(n) == [of : 1..n, hash : Seq(Row), frame : Seq(Row)]

HasFiles(m) == /\ m.at \in Numbered => m.file # 0
               /\ m.at = "before" => m.prev.base # 0

InputShape ==
    /\ recipe \in [kind : Kind, steps : 0..revisions, mode : ModeOfRun]
    /\ files \in Seq(Seq(Row)) /\ hashes \in Seq(Seq(Row))
    /\ Len(hashes) = Newest /\ Newest \in 1..(revisions + 1)
    /\ joined \in 0..revisions
    /\ erasing \in [at : {"none", "rewriting", "done"}, left : SUBSET (1..Newest)]
    /\ makes \in 0..MaxMakes /\ revisions \in 0..MaxRevisions

MakesShape ==
    /\ latest \in Make(Newest) /\ result \in Make(Newest)
    /\ making \in [Maker -> Going(Newest)]
    /\ \A q \in Maker : HasFiles(making[q])
    /\ kept \subseteq Keeping(Newest)

ShapeOK == InputShape /\ MakesShape

LEMMA MoreFit ==
    ASSUME NEW m \in Nat, NEW n \in Nat, m <= n
    PROVE  Make(m) \subseteq Make(n) /\ Going(m) \subseteq Going(n) /\ Keeping(m) \subseteq Keeping(n)
<1>1. 0..m \subseteq 0..n /\ 1..m \subseteq 1..n
  OBVIOUS
<1>2. Make(m) \subseteq Make(n)
  BY <1>1 DEF Make
<1>3. Going(m) \subseteq Going(n)
  BY <1>1, <1>2 DEF Going
<1> QED BY <1>1, <1>2, <1>3 DEF Keeping

LEMMA RestsFit ==
    ASSUME NEW n \in Nat
    PROVE  NoMake \in Make(n) /\ MakerRests \in Going(n) /\ HasFiles(MakerRests)
<1>1. NoMake \in Make(n)
  BY IncrementalAssumption DEF Make, NoMake
<1>2. MakerRests \in Going(n)
  BY <1>1 DEF Going, MakerRests, ModeOfRun
<1> QED BY <1>1, <1>2 DEF MakerRests, HasFiles, Numbered, Reading

LEMMA ShapeIsTypes == ShapeOK => IncrementalTypeOK
<1> SUFFICES ASSUME ShapeOK PROVE IncrementalTypeOK
  OBVIOUS
<1>1. /\ Newest \in 1..(revisions + 1) /\ revisions \in 0..MaxRevisions /\ MaxRevisions \in Nat
      /\ 0..revisions \subseteq 0..MaxRevisions /\ 1..(revisions + 1) \subseteq 1..(MaxRevisions + 1)
  BY IncrementalAssumption DEF ShapeOK, InputShape
<1>2. recipe \in [kind : Kind, steps : 0..MaxRevisions, mode : BuildMode \cup {"full"}]
  BY <1>1 DEF ShapeOK, InputShape, ModeOfRun
<1>3. /\ Newest \in 1..(MaxRevisions + 1) /\ Len(hashes) = Newest /\ joined \in 0..MaxRevisions
      /\ erasing.at \in {"none", "rewriting", "done"} /\ erasing.left \subseteq 1..Newest
      /\ makes \in 0..MaxMakes
  BY <1>1 DEF ShapeOK, InputShape
<1>4. \A n \in 1..Newest : files[n] \in Seq(Row) /\ hashes[n] \in Seq(Row)
  BY <1>3 DEF ShapeOK, InputShape, Newest
<1>5. \A run \in {latest, result} \cup {making[q].run : q \in Maker} : run \in Make(Newest)
  BY DEF ShapeOK, MakesShape, Going
<1>6. \A q \in Maker :
         /\ making[q].at \in {"idle"} \cup Numbered \cup Finishing
         /\ making[q].mode \in ModeOfRun
         /\ making[q].file \in 0..Newest
  BY DEF ShapeOK, MakesShape, Going
<1>7. \A k \in kept : k.of \in 1..Newest
  BY DEF ShapeOK, MakesShape, Keeping
<1>8. \A run \in {latest, result} \cup {making[q].run : q \in Maker} :
         /\ run.base \in 0..Newest /\ run.made \in Seq(Piece) /\ run.read \in Seq(Row)
         /\ run.steps \in 0..MaxRevisions /\ run.joined \in 0..MaxRevisions
  <2> SUFFICES ASSUME NEW run \in {latest, result} \cup {making[q].run : q \in Maker}
               PROVE  /\ run.base \in 0..Newest /\ run.made \in Seq(Piece) /\ run.read \in Seq(Row)
                      /\ run.steps \in 0..MaxRevisions /\ run.joined \in 0..MaxRevisions
    OBVIOUS
  <2>1. run \in Make(Newest)
    BY <1>5
  <2> QED BY <2>1 DEF Make
<1>9. \A q \in Maker :
         /\ making[q].at \in {"idle", "named", "pinned", "before", "now", "in full",
                              "applying", "publishing", "recording"}
         /\ making[q].mode \in BuildMode \cup {"full"}
         /\ making[q].file \in 0..Newest
  BY <1>6 DEF Numbered, Reading, Finishing, ModeOfRun
<1> QED BY <1>1, <1>2, <1>3, <1>4, <1>7, <1>8, <1>9 DEF IncrementalTypeOK

LEMMA ShapeInit == IncrementalInit => ShapeOK
<1> SUFFICES ASSUME IncrementalInit PROVE ShapeOK
  OBVIOUS
<1> DEFINE p == CHOOSE p \in Part : TRUE
           first == [id |-> 1, part |-> p, value |-> "hers"]
<1>1. p \in Part
  BY IncrementalAssumption
<1> HIDE DEF p
<1>2. first \in Row
  BY <1>1, IncrementalAssumption DEF Row
<1> HIDE DEF first
<1>3. files = << <<first>> >> /\ hashes = files
  BY DEF IncrementalInit, first, p
<1>4. files \in Seq(Seq(Row)) /\ Newest = 1
  BY <1>2, <1>3 DEF Newest
<1>5. InputShape
  <2>1. recipe \in [kind : Kind, steps : 0..revisions, mode : ModeOfRun]
    BY DEF IncrementalInit, ModeOfRun
  <2>2. /\ revisions = 0 /\ joined = 0 /\ makes = 0 /\ erasing = [at |-> "none", left |-> {}]
    BY DEF IncrementalInit
  <2> QED BY <1>3, <1>4, <2>1, <2>2, IncrementalAssumption DEF InputShape, Newest
<1>6. MakesShape
  <2>1. NoMake \in Make(1) /\ MakerRests \in Going(1) /\ HasFiles(MakerRests)
    BY RestsFit
  <2>2. latest = NoMake /\ result = NoMake /\ kept = {} /\ making = [q \in Maker |-> MakerRests]
    BY DEF IncrementalInit
  <2> QED BY <1>4, <2>1, <2>2 DEF MakesShape
<1> QED BY <1>5, <1>6 DEF ShapeOK

\* What a run's step may leave.
LEMMA MakerMoves ==
    ASSUME ShapeOK, NEW q \in Maker, NEW rec \in Going(Newest), HasFiles(rec),
           UNCHANGED <<recipe, inputVars>>, making' = [making EXCEPT ![q] = rec],
           latest' \in Make(Newest), result' \in Make(Newest), kept' \subseteq Keeping(Newest),
           makes' \in 0..MaxMakes, revisions' \in 0..MaxRevisions, revisions <= revisions'
    PROVE  ShapeOK'
<1>1. Newest' = Newest
  BY DEF inputVars, Newest
<1>2. InputShape'
  <2>1. /\ revisions \in Nat /\ revisions' \in Nat
        /\ 0..revisions \subseteq 0..revisions' /\ 1..(revisions + 1) \subseteq 1..(revisions' + 1)
    <3>1. revisions \in Nat /\ revisions' \in Nat
      BY IncrementalAssumption DEF ShapeOK, InputShape
    <3>2. revisions <= revisions'
      OBVIOUS
    <3>3. \A i : (i \in 0..revisions => i \in 0..revisions') /\ (i \in 1..(revisions + 1) => i \in 1..(revisions' + 1))
      BY <3>1, <3>2
    <3> QED BY <3>1, <3>3
  <2>2. recipe' \in [kind : Kind, steps : 0..revisions', mode : ModeOfRun]
    BY <2>1 DEF ShapeOK, InputShape
  <2> QED BY <1>1, <2>1, <2>2 DEF ShapeOK, InputShape, inputVars
<1>3. making' \in [Maker -> Going(Newest)] /\ \A o \in Maker : HasFiles(making'[o])
  BY DEF ShapeOK, MakesShape
<1>4. MakesShape'
  BY <1>1, <1>3 DEF MakesShape, HasFiles
<1> QED BY <1>2, <1>4 DEF ShapeOK

\* What a run gives to its steps, and what it keeps of the last one.
LEMMA RowsOfRun ==
    ASSUME NEW m \in Going(Newest), NEW now \in Seq(Row)
    PROVE  Fresh(m, now) \in Seq(Row) /\ Remains(m, now) \in Seq(Piece)
<1>1. m.before \in Seq(Row) /\ m.prev.made \in Seq(Piece)
  BY DEF Going, Make
<1>2. SubSeq(now, Len(m.before) + 1, Len(now)) \in Seq(Row)
  BY <1>1
<1>3. \A S : Those(now, S) \in Seq(Row) /\ Those(m.prev.made, S) \in Seq(Piece)
  BY <1>1, ThoseIs
<1> QED BY <1>1, <1>2, <1>3 DEF Fresh, Remains

LEMMA ShapeMakerStep ==
    ASSUME ShapeOK, NEW q \in Maker, MakeStep(q) \/ MakerStops(q)
    PROVE  ShapeOK'
<1> DEFINE m == making[q]
<1>0. /\ m \in Going(Newest) /\ HasFiles(m) /\ Newest \in Nat /\ Newest \in 1..Newest
      /\ latest \in Make(Newest) /\ result \in Make(Newest) /\ kept \subseteq Keeping(Newest)
      /\ makes \in 0..MaxMakes /\ revisions \in 0..MaxRevisions /\ recipe.steps \in 0..MaxRevisions
      /\ joined \in 0..MaxRevisions /\ recipe.mode \in ModeOfRun
      /\ NoMake \in Make(Newest) /\ MakerRests \in Going(Newest) /\ HasFiles(MakerRests)
      /\ MaxMakes \in Nat /\ MaxRevisions \in Nat /\ revisions \in Nat
  <2>1. /\ m \in Going(Newest) /\ HasFiles(m)
        /\ latest \in Make(Newest) /\ result \in Make(Newest) /\ kept \subseteq Keeping(Newest)
    BY DEF ShapeOK, MakesShape
  <2>2. /\ makes \in 0..MaxMakes /\ revisions \in 0..MaxRevisions /\ Newest \in 1..(revisions + 1)
        /\ recipe.steps \in 0..revisions /\ joined \in 0..revisions /\ recipe.mode \in ModeOfRun
    BY DEF ShapeOK, InputShape
  <2>3. MaxMakes \in Nat /\ MaxRevisions \in Nat
    BY IncrementalAssumption
  <2>4. Newest \in Nat /\ Newest \in 1..Newest /\ 0..revisions \subseteq 0..MaxRevisions /\ revisions \in Nat
    BY <2>2, <2>3
  <2> QED BY <2>1, <2>2, <2>3, <2>4, RestsFit
<1> HIDE DEF m
<1>1. /\ m.run \in Make(Newest) /\ m.prev \in Make(Newest) /\ m.file \in 0..Newest
      /\ m.before \in Seq(Row) /\ m.hash \in Seq(Row) /\ m.run.read \in Seq(Row)
      /\ m.run.steps \in 0..MaxRevisions /\ m.run.joined \in 0..MaxRevisions
      /\ m.prev.mixed \in BOOLEAN
  BY <1>0 DEF Going, Make
<1>2. ASSUME m.at \in Numbered
      PROVE  m.file \in 1..Newest /\ files[m.file] \in Seq(Row) /\ hashes[m.file] \in Seq(Row)
  <2>1. m.file \in 1..Newest
    BY <1>0, <1>1, <1>2 DEF HasFiles
  <2> QED BY <2>1 DEF ShapeOK, InputShape, Newest
<1>3. ASSUME KeepsInput
      PROVE  /\ UNCHANGED <<recipe, inputVars>> /\ makes' \in 0..MaxMakes
             /\ revisions' \in 0..MaxRevisions /\ revisions <= revisions'
  BY <1>0, <1>3 DEF KeepsInput
<1>4. ASSUME NEW rec \in Going(Newest), HasFiles(rec), making' = [making EXCEPT ![q] = rec], KeepsInput,
             latest' \in Make(Newest), result' \in Make(Newest), kept' \subseteq Keeping(Newest)
      PROVE  ShapeOK'
  BY <1>3, <1>4, MakerMoves
<1>5. CASE StartMake(q)
  <2> DEFINE gone == erasing.at = "done"
             run == [NoMake EXCEPT !.steps = recipe.steps, !.after = gone]
             rec == [MakerRests EXCEPT !.at = "named", !.file = Newest, !.run = run]
  <2>4. making' = [making EXCEPT ![q] = rec] /\ UNCHANGED <<latest, result, kept>>
    BY <1>5 DEF StartMake
  <2>6. gone \in BOOLEAN
    OBVIOUS
  <2> HIDE DEF gone
  <2>7. run \in Make(Newest)
    BY <1>0, <2>6 DEF Make, NoMake
  <2> HIDE DEF run
  <2>1. rec \in Going(Newest)
    <3>1. "named" \in {"idle"} \cup Numbered \cup Finishing /\ Newest \in 0..Newest
      BY <1>0 DEF Numbered
    <3>2. MakerRests \in Going(Newest)
      BY <1>0
    <3> QED BY <2>7, <3>1, <3>2 DEF Going
  <2>2. HasFiles(rec)
    BY <1>0 DEF HasFiles, Going
  <2> HIDE DEF rec
  <2>3. /\ UNCHANGED <<recipe, inputVars>> /\ makes' \in 0..MaxMakes
        /\ revisions' \in 0..MaxRevisions /\ revisions <= revisions'
    BY <1>0, <1>5 DEF StartMake
  <2> QED BY <1>0, <2>1, <2>2, <2>3, <2>4, MakerMoves
<1>6. CASE PinBase(q)
  <2> DEFINE rec == [m EXCEPT !.at = "pinned", !.run.base = HeadPin]
  <2>4. HeadPin \in 0..Newest
    BY <1>0 DEF HeadPin
  <2>5. [m.run EXCEPT !.base = HeadPin] \in Make(Newest)
    BY <1>1, <2>4 DEF Make
  <2>1. rec \in Going(Newest)
    BY <1>0, <2>5 DEF Going, Numbered
  <2>2. HasFiles(rec)
    BY <1>0, <1>6 DEF HasFiles, Numbered, Reading, PinBase, MakerAt, m, Going
  <2>3. making' = [making EXCEPT ![q] = rec] /\ KeepsInput /\ UNCHANGED <<latest, result, kept>>
    BY <1>6 DEF PinBase, m
  <2> HIDE DEF rec
  <2> QED BY <1>0, <1>4, <2>1, <2>2, <2>3
<1>7. CASE Decide(q)
  <2> DEFINE inc == recipe.mode # "full" /\ Incremental(m.run)
             at == IF inc THEN "before" ELSE "in full"
             mode == IF inc THEN recipe.mode ELSE "full"
             prev == IF inc THEN latest ELSE NoMake
             run == [m.run EXCEPT !.full = ~inc, !.joined = joined]
             rec == [m EXCEPT !.at = at, !.mode = mode, !.prev = prev, !.run = run, !.hash = Identity(m.file)]
  <2>5. m.at = "pinned" /\ KeepsInput /\ UNCHANGED <<latest, result, kept>>
    BY <1>7 DEF Decide, MakerAt, m
  <2>1. Identity(m.file) \in Seq(Row) /\ m.file # 0
    BY <1>1, <1>2, <2>5 DEF Identity, Numbered
  <2>6. inc => latest.base # 0
    BY DEF Incremental
  <2>7. inc \in BOOLEAN
    OBVIOUS
  <2>2. making' = [making EXCEPT ![q] = rec]
    BY <1>7 DEF Decide, m
  <2> HIDE DEF inc
  <2>8. /\ at \in {"before", "in full"} /\ mode \in ModeOfRun /\ prev \in Make(Newest)
        /\ at = "before" => prev.base # 0
    BY <1>0, <2>6 DEF ModeOfRun
  <2>9. run \in Make(Newest)
    BY <1>0, <1>1, <2>7 DEF Make
  <2> HIDE DEF at, mode, prev, run
  <2>3. rec \in Going(Newest)
    BY <1>0, <2>1, <2>8, <2>9 DEF Going, Numbered, Reading
  <2>4. HasFiles(rec)
    BY <1>0, <2>1, <2>8 DEF HasFiles, Numbered, Reading, Going
  <2> HIDE DEF rec
  <2> QED BY <1>0, <1>4, <2>2, <2>3, <2>4, <2>5
<1>8. CASE ReadBefore(q)
  <2> DEFINE rec == [m EXCEPT !.at = "now", !.before = files[m.prev.base]]
  <2>1. m.at = "before"
    BY <1>8 DEF ReadBefore, MakerAt, m
  <2>6. m.prev.base \in 0..Newest /\ m.prev.base # 0
    BY <1>0, <1>1, <2>1 DEF HasFiles, Make
  <2>2. files[m.prev.base] \in Seq(Row)
    BY <1>0, <2>6 DEF ShapeOK, InputShape, Newest
  <2>3. rec \in Going(Newest)
    BY <1>0, <2>2 DEF Going, Numbered, Reading
  <2>4. HasFiles(rec)
    BY <1>0, <2>1 DEF HasFiles, Numbered, Reading, Going
  <2>5. making' = [making EXCEPT ![q] = rec] /\ KeepsInput /\ UNCHANGED <<latest, result, kept>>
    BY <1>8 DEF ReadBefore, m
  <2> HIDE DEF rec
  <2> QED BY <1>0, <1>4, <2>3, <2>4, <2>5
<1>9. CASE ReadNow(q)
  <2> DEFINE now == files[m.file]
             apart == m.mode = "append" /\ ~OnlyAdded(m.before, now)
             mixes == ~apart /\ (m.prev.mixed \/ (erasing.at # "none" /\ m.before # m.prev.read))
             run == [m.run EXCEPT !.full = apart, !.read = now, !.mixed = mixes]
             rec == [m EXCEPT !.at = IF apart THEN "in full" ELSE "applying",
                              !.mode = IF apart THEN "full" ELSE m.mode,
                              !.run = run, !.loaded = TRUE]
  <2>1. m.at = "now" /\ now \in Seq(Row)
    BY <1>2, <1>9 DEF ReadNow, MakerAt, m, Numbered, Reading
  <2>6. KeepsInput /\ UNCHANGED <<latest, result, kept>>
    BY <1>9 DEF ReadNow
  <2>2. making' = [making EXCEPT ![q] = rec]
    BY <1>9 DEF ReadNow, m
  <2>3. apart \in BOOLEAN /\ mixes \in BOOLEAN
    BY <1>1
  <2> HIDE DEF now, apart, mixes
  <2>7. run \in Make(Newest)
    BY <1>1, <2>1, <2>3 DEF Make
  <2> HIDE DEF run
  <2>4. rec \in Going(Newest)
    BY <1>0, <2>1, <2>3, <2>7 DEF Going, Numbered, Reading, ModeOfRun
  <2>5. HasFiles(rec)
    BY <1>0, <2>1 DEF HasFiles, Numbered, Reading, Going
  <2> HIDE DEF rec
  <2> QED BY <1>0, <1>4, <2>2, <2>4, <2>5, <2>6
<1>10. CASE ReadInFull(q)
  <2> DEFINE there == {k \in kept : k.of = m.file /\ k.hash = m.hash}
             rec(read) == [m EXCEPT !.at = "applying", !.run.read = read]
  <2>1. m.at = "in full"
    BY <1>10 DEF ReadInFull, MakerAt, m
  <2>2. KeepsInput /\ UNCHANGED <<latest, result>>
    BY <1>10 DEF ReadInFull
  <2>3. PICK read : /\ making' = [making EXCEPT ![q] = rec(read)]
                    /\ \/ (\E k \in there : read = k.frame) /\ UNCHANGED kept
                       \/ /\ read \in {files[m.file]} \cup (IF m.loaded THEN {m.run.read} ELSE {})
                          /\ kept' = (kept \ there) \cup {[of |-> m.file, hash |-> m.hash, frame |-> read]}
    <3>1. CASE \E k \in there : /\ making' = [making EXCEPT ![q] = rec(k.frame)]
                                 /\ UNCHANGED kept
      BY <3>1
    <3>2. CASE \E read \in {files[m.file]} \cup (IF m.loaded THEN {m.run.read} ELSE {}) :
                 /\ making' = [making EXCEPT ![q] = rec(read)]
                 /\ kept' = (kept \ there) \cup {[of |-> m.file, hash |-> m.hash, frame |-> read]}
      BY <3>2
    <3> QED BY <1>10, <3>1, <3>2 DEF ReadInFull, m
  <2>4. m.file \in 1..Newest /\ files[m.file] \in Seq(Row)
    BY <1>2, <2>1 DEF Numbered, Reading
  <2>5. read \in Seq(Row)
    BY <1>0, <1>1, <2>3, <2>4 DEF Keeping
  <2>6. [of |-> m.file, hash |-> m.hash, frame |-> read] \in Keeping(Newest)
    BY <1>1, <2>4, <2>5 DEF Keeping
  <2>7. kept' \subseteq Keeping(Newest)
    BY <1>0, <2>3, <2>6
  <2>8. rec(read) \in Going(Newest)
    BY <1>0, <2>5 DEF Going, Make, Numbered, Reading
  <2>9. HasFiles(rec(read))
    BY <1>0, <2>1 DEF HasFiles, Numbered, Reading, Going
  <2> HIDE DEF rec
  <2> QED BY <1>0, <1>4, <2>2, <2>3, <2>7, <2>8, <2>9
<1>11. CASE Apply(q)
  <2> DEFINE now == m.run.read
             rows == IF m.mode = "full" THEN now ELSE Fresh(m, now)
             other == IF rows = <<>> THEN m.run.joined ELSE joined
             remains == IF m.mode = "full" THEN <<>> ELSE Remains(m, now)
             out == remains \o Made(rows, m.run.steps, other)
             done == [MakerRests EXCEPT !.at = "publishing",
                                        !.run = [m.run EXCEPT !.joined = other, !.made = out]]
             again == [m.run EXCEPT !.full = TRUE, !.mixed = FALSE]
             redo == [m EXCEPT !.at = "in full", !.mode = "full", !.prev = NoMake,
                               !.before = <<>>, !.run = again]
  <2>1. /\ m.at = "applying" /\ KeepsInput /\ UNCHANGED <<latest, result, kept>>
        /\ making' = [making EXCEPT ![q] = done] \/ making' = [making EXCEPT ![q] = redo]
    BY <1>11 DEF Apply, MakerAt, m
  <2>2. rows \in Seq(Row) /\ remains \in Seq(Piece) /\ other \in 0..MaxRevisions
    BY <1>0, <1>1, RowsOfRun
  <2>3. recipe.kind \in Kind
    BY DEF ShapeOK, InputShape
  <2> HIDE DEF rows, remains, other
  <2>4. Made(rows, m.run.steps, other) \in Seq(Piece)
    BY <1>1, <2>2, <2>3, MadeIs
  <2>5. out \in Seq(Piece)
    BY <2>2, <2>4
  <2> HIDE DEF out
  <2>6. done \in Going(Newest)
    BY <1>0, <1>1, <2>2, <2>5 DEF Going, Make, MakerRests, Finishing
  <2>9. again \in Make(Newest)
    BY <1>1 DEF Make
  <2> HIDE DEF again
  <2>7. redo \in Going(Newest)
    <3>1. /\ {"in full", "full"} \subseteq {"in full"} \cup ModeOfRun /\ "full" \in ModeOfRun
          /\ <<>> \in Seq(Row) /\ "in full" \in {"idle"} \cup Numbered \cup Finishing
      BY DEF Numbered, Reading, ModeOfRun
    <3> QED BY <1>0, <2>9, <3>1 DEF Going
  <2>8. HasFiles(done) /\ HasFiles(redo)
    BY <1>0, <2>1 DEF HasFiles, MakerRests, Numbered, Reading, Going
  <2> HIDE DEF done, redo
  <2> QED BY <1>0, <1>4, <2>1, <2>6, <2>7, <2>8
<1>12. CASE PublishMade(q)
  <2> DEFINE rec == [m EXCEPT !.at = "recording"]
  <2>1. rec \in Going(Newest) /\ HasFiles(rec)
    BY <1>0 DEF Going, HasFiles, Numbered, Reading, Finishing
  <2>2. /\ making' = [making EXCEPT ![q] = rec] /\ KeepsInput /\ UNCHANGED <<latest, kept>>
        /\ result' = m.run
    BY <1>12 DEF PublishMade, m
  <2> HIDE DEF rec
  <2> QED BY <1>0, <1>1, <1>4, <2>1, <2>2
<1>13. CASE RecordMade(q)
  <2>1. /\ making' = [making EXCEPT ![q] = MakerRests] /\ KeepsInput /\ UNCHANGED <<result, kept>>
        /\ latest' = m.run
    BY <1>13 DEF RecordMade, m
  <2> QED BY <1>0, <1>1, <1>4, <2>1
<1>14. CASE MakerStops(q)
  <2>1. /\ making' = [making EXCEPT ![q] = MakerRests] /\ UNCHANGED <<latest, result, kept>>
        /\ UNCHANGED <<recipe, inputVars>> /\ makes' = makes
    BY <1>14 DEF MakerStops
  <2>2. revisions' \in 0..MaxRevisions /\ revisions <= revisions'
    BY <1>0, <1>14 DEF MakerStops, Happens
  <2> QED BY <1>0, <2>1, <2>2, MakerMoves
<1> QED
  BY <1>5, <1>6, <1>7, <1>8, <1>9, <1>10, <1>11, <1>12, <1>13, <1>14 DEF MakeStep

LEMMA RowsRedacted ==
    ASSUME NEW rows \in Seq(Row)
    PROVE  Redacted(rows) \in Seq(Row)
<1>1. \A i \in 1..Len(rows) : Redacted(rows)[i] \in Row
  <2> SUFFICES ASSUME NEW i \in 1..Len(rows) PROVE Redacted(rows)[i] \in Row
    OBVIOUS
  <2>1. rows[i] \in Row /\ "erased" \in {"hers", "plain", "changed", "erased"}
    OBVIOUS
  <2>2. [rows[i] EXCEPT !.value = "erased"] \in Row
    BY <2>1 DEF Row
  <2> QED BY <2>1, <2>2 DEF Redacted
<1>2. Redacted(rows) = [i \in 1..Len(rows) |-> Redacted(rows)[i]] /\ Len(rows) \in Nat
  BY DEF Redacted
<1> QED BY <1>1, <1>2

\* A change of rows that are rows again; the new one has the number of its version.
LEMMA RowsChanged ==
    ASSUME NEW rows \in Seq(Row), Newest + 1 \in 1..(MaxRevisions + 1), NEW changed \in Changes(rows)
    PROVE  changed \in Seq(Row)
<1>1. CASE \E p \in Part : changed = Append(rows, [id |-> Newest + 1, part |-> p, value |-> "plain"])
  <2>1. PICK p \in Part : changed = Append(rows, [id |-> Newest + 1, part |-> p, value |-> "plain"])
    BY <1>1
  <2>2. [id |-> Newest + 1, part |-> p, value |-> "plain"] \in Row
    BY DEF Row
  <2> QED BY <2>1, <2>2
<1>2. CASE \E i \in DOMAIN rows : changed = [rows EXCEPT ![i].value = "changed"]
  <2>1. PICK i \in DOMAIN rows : changed = [rows EXCEPT ![i].value = "changed"]
    BY <1>2
  <2>2. rows[i] \in Row
    OBVIOUS
  <2>3. [rows[i] EXCEPT !.value = "changed"] \in Row
    BY <2>2 DEF Row
  <2>4. changed = [rows EXCEPT ![i] = [rows[i] EXCEPT !.value = "changed"]]
    BY <2>1
  <2> QED BY <2>3, <2>4
<1> QED BY <1>1, <1>2 DEF Changes

\* The next version of an erasure to rewrite.
NextToErase ==
    IF Newest \in erasing.left THEN Newest
    ELSE CHOOSE n \in erasing.left : \A o \in erasing.left : n <= o

LEMMA OneToErase ==
    ASSUME ShapeOK, erasing.left # {}
    PROVE  NextToErase \in erasing.left /\ NextToErase \in 1..Newest
<1>1. erasing.left \subseteq 1..Newest /\ erasing.left \subseteq Nat
  BY DEF ShapeOK, InputShape
<1>2. \E n \in erasing.left : \A o \in erasing.left : n <= o
  BY <1>1, LeastNumber
<1> QED BY <1>1, <1>2 DEF NextToErase

\* What a step of the input, the recipe or the versions leaves of the records.
LEMMA RecordsLeft ==
    ASSUME ShapeOK, UNCHANGED <<latest, result, making, kept>>, Newest' \in Nat, Newest <= Newest'
    PROVE  MakesShape'
<1>1. Newest \in Nat
  BY DEF ShapeOK, InputShape
<1>2. Make(Newest) \subseteq Make(Newest') /\ Going(Newest) \subseteq Going(Newest') /\ Keeping(Newest) \subseteq Keeping(Newest')
  BY <1>1, MoreFit
<1>3. latest \in Make(Newest') /\ result \in Make(Newest') /\ kept \subseteq Keeping(Newest')
  BY <1>2 DEF ShapeOK, MakesShape
<1>4. making \in [Maker -> Going(Newest')] /\ \A q \in Maker : HasFiles(making[q])
  BY <1>2 DEF ShapeOK, MakesShape
<1> QED BY <1>3, <1>4 DEF MakesShape, HasFiles

LEMMA ShapeOtherStep ==
    ASSUME ShapeOK,
           \/ InputChanges \/ JoinedChanges \/ (\E mode \in ModeOfRun : EditRecipe(mode))
           \/ PruneLatest \/ BeginErasure \/ RewriteFile \/ CommitErasure
    PROVE  ShapeOK'
<1>0. /\ Newest \in 1..(revisions + 1) /\ revisions \in 0..MaxRevisions /\ MaxRevisions \in Nat
      /\ Newest \in Nat /\ revisions \in Nat /\ revisions + 1 \in Nat
  BY IncrementalAssumption DEF ShapeOK, InputShape
<1>1. ASSUME Happens PROVE revisions' = revisions + 1 /\ revisions' \in 0..MaxRevisions
  BY <1>0, <1>1 DEF Happens
<1>2. /\ 0..revisions \subseteq 0..(revisions + 1)
      /\ 1..(revisions + 1) \subseteq 1..(revisions + 1 + 1)
  BY <1>0
<1>3. CASE InputChanges
  <2>1. PICK rows \in Changes(files[Newest]) \cup {files[n] : n \in 1..(Newest - 1)} : NewVersion(rows)
    BY <1>3 DEF InputChanges
  <2>2. revisions < MaxRevisions /\ revisions' = revisions + 1 /\ revisions' \in 0..MaxRevisions
    BY <1>1, <2>1 DEF NewVersion, Happens
  <2>3. \A n \in 1..Newest : files[n] \in Seq(Row)
    BY DEF ShapeOK, InputShape, Newest
  <2>4. rows \in Seq(Row)
    <3>1. Newest \in 1..Newest /\ 1..(Newest - 1) \subseteq 1..Newest /\ Newest + 1 \in 1..(MaxRevisions + 1)
      BY <1>0, <2>2
    <3> QED BY <2>1, <2>3, <3>1, RowsChanged
  <2>5. files' = Append(files, rows) /\ hashes' = Append(hashes, rows)
    BY <2>1 DEF NewVersion
  <2>6. /\ files' \in Seq(Seq(Row)) /\ hashes' \in Seq(Seq(Row))
        /\ Newest' = Newest + 1 /\ Len(hashes') = Newest + 1
    BY <2>4, <2>5 DEF ShapeOK, InputShape, Newest
  <2>7. /\ UNCHANGED <<recipe, joined, erasing, makes>> /\ UNCHANGED <<latest, result, making, kept>>
    BY <2>1 DEF NewVersion
  <2>8. 1..Newest \subseteq 1..Newest' /\ Newest' \in 1..(revisions + 1 + 1) /\ Newest' \in Nat /\ Newest <= Newest'
    BY <1>0, <2>6
  <2>9. InputShape'
    <3>1. /\ recipe' \in [kind : Kind, steps : 0..revisions', mode : ModeOfRun] /\ joined' \in 0..revisions'
      BY <1>2, <2>2, <2>7 DEF ShapeOK, InputShape
    <3>2. erasing' \in [at : {"none", "rewriting", "done"}, left : SUBSET (1..Newest')] /\ makes' \in 0..MaxMakes
      BY <2>7, <2>8 DEF ShapeOK, InputShape
    <3> QED BY <2>2, <2>6, <2>8, <3>1, <3>2 DEF InputShape
  <2> QED BY <2>7, <2>8, <2>9, RecordsLeft DEF ShapeOK
<1>4. ASSUME UNCHANGED <<latest, result, making, kept>>, Newest' = Newest, InputShape'
      PROVE  ShapeOK'
  BY <1>0, <1>4, RecordsLeft DEF ShapeOK
<1>5. CASE JoinedChanges
  <2>1. /\ joined' = joined + 1 /\ revisions' = revisions + 1 /\ revisions' \in 0..MaxRevisions
        /\ UNCHANGED <<recipe, files, hashes, erasing, makes>> /\ UNCHANGED <<latest, result, making, kept>>
    BY <1>1, <1>5 DEF JoinedChanges
  <2>2. Newest' = Newest
    BY <2>1 DEF Newest
  <2>3. joined' \in 0..revisions'
    BY <1>0, <2>1 DEF ShapeOK, InputShape
  <2>4. InputShape'
    BY <1>0, <1>2, <2>1, <2>2, <2>3 DEF ShapeOK, InputShape
  <2> QED BY <1>4, <2>1, <2>2, <2>4
<1>6. CASE \E mode \in ModeOfRun : EditRecipe(mode)
  <2>1. PICK mode \in ModeOfRun : EditRecipe(mode)
    BY <1>6
  <2>2. /\ revisions' = revisions + 1 /\ revisions' \in 0..MaxRevisions
        /\ UNCHANGED <<files, hashes, joined, erasing, makes>> /\ UNCHANGED <<latest, result, making, kept>>
        /\ recipe' = [recipe EXCEPT !.steps = revisions + 1] \/ recipe' = [recipe EXCEPT !.mode = mode]
    BY <1>1, <2>1 DEF EditRecipe, inputVars
  <2>3. Newest' = Newest
    BY <2>2 DEF Newest
  <2>4. recipe' \in [kind : Kind, steps : 0..revisions', mode : ModeOfRun]
    <3>1. recipe \in [kind : Kind, steps : 0..revisions', mode : ModeOfRun] /\ revisions + 1 \in 0..revisions'
      BY <1>0, <1>2, <2>2 DEF ShapeOK, InputShape
    <3> QED BY <2>2, <3>1
  <2>5. InputShape'
    BY <1>0, <1>2, <2>2, <2>3, <2>4 DEF ShapeOK, InputShape
  <2> QED BY <1>4, <2>2, <2>3, <2>5
<1>7. CASE PruneLatest
  <2>1. /\ revisions' = revisions + 1 /\ revisions' \in 0..MaxRevisions /\ latest' = NoMake
        /\ UNCHANGED <<recipe, files, hashes, joined, erasing, makes>> /\ UNCHANGED <<result, kept>>
        /\ making' = [q \in Maker |-> IF making[q].at \in {"before", "now"} THEN MakerRests ELSE making[q]]
    BY <1>1, <1>7 DEF PruneLatest, inputVars
  <2>2. Newest' = Newest
    BY <2>1 DEF Newest
  <2>3. InputShape'
    BY <1>0, <1>2, <2>1, <2>2 DEF ShapeOK, InputShape
  <2>4. NoMake \in Make(Newest) /\ MakerRests \in Going(Newest) /\ HasFiles(MakerRests)
    BY <1>0, RestsFit
  <2>5. making' \in [Maker -> Going(Newest)] /\ \A q \in Maker : HasFiles(making'[q])
    BY <2>1, <2>4 DEF ShapeOK, MakesShape
  <2>6. MakesShape'
    BY <2>1, <2>2, <2>4, <2>5 DEF ShapeOK, MakesShape, HasFiles
  <2> QED BY <2>3, <2>6 DEF ShapeOK
<1>8. CASE BeginErasure
  <2>1. /\ revisions' = revisions + 1 /\ revisions' \in 0..MaxRevisions
        /\ erasing' = [at |-> "rewriting", left |-> 1..Newest]
        /\ UNCHANGED <<recipe, files, hashes, joined, makes>> /\ UNCHANGED <<latest, result, making, kept>>
    BY <1>1, <1>8 DEF BeginErasure
  <2>2. Newest' = Newest
    BY <2>1 DEF Newest
  <2>3. InputShape'
    BY <1>0, <1>2, <2>1, <2>2 DEF ShapeOK, InputShape
  <2> QED BY <1>4, <2>1, <2>2, <2>3
<1>9. CASE RewriteFile
  <2>1. /\ erasing.left # {} /\ erasing' = [erasing EXCEPT !.left = @ \ {NextToErase}]
        /\ files' = [files EXCEPT ![NextToErase] = Redacted(@)]
        /\ UNCHANGED <<recipe, hashes, joined, makes, revisions>> /\ UNCHANGED <<latest, result, making, kept>>
    BY <1>9 DEF RewriteFile, NextToErase
  <2>2. NextToErase \in 1..Newest
    BY <2>1, OneToErase
  <2>3. files[NextToErase] \in Seq(Row)
    BY <2>2 DEF ShapeOK, InputShape, Newest
  <2>4. files' \in Seq(Seq(Row)) /\ Newest' = Newest
    <3>1. Redacted(files[NextToErase]) \in Seq(Row)
      BY <2>3, RowsRedacted
    <3>2. files' = [files EXCEPT ![NextToErase] = Redacted(files[NextToErase])]
      BY <2>1
    <3> QED BY <2>2, <3>1, <3>2 DEF ShapeOK, InputShape, Newest
  <2>5. InputShape'
    BY <2>1, <2>4 DEF ShapeOK, InputShape
  <2> QED BY <1>4, <2>1, <2>4, <2>5
<1>10. CASE CommitErasure
  <2>1. /\ hashes' = files /\ erasing' = [erasing EXCEPT !.at = "done"]
        /\ UNCHANGED <<recipe, files, joined, makes, revisions>> /\ UNCHANGED <<latest, result, making, kept>>
    BY <1>10 DEF CommitErasure
  <2>2. Newest' = Newest
    BY <2>1 DEF Newest
  <2>3. InputShape'
    BY <2>1, <2>2 DEF ShapeOK, InputShape, Newest
  <2> QED BY <1>4, <2>1, <2>2, <2>3
<1> QED BY <1>3, <1>5, <1>6, <1>7, <1>8, <1>9, <1>10

LEMMA ShapeKeeps == ShapeOK /\ [IncrementalNext]_incrementalVars => ShapeOK'
<1>1. ASSUME ShapeOK, UNCHANGED incrementalVars PROVE ShapeOK'
  BY <1>1 DEF ShapeOK, InputShape, MakesShape, HasFiles, Newest, incrementalVars, inputVars
<1>2. ASSUME ShapeOK, IncrementalNext PROVE ShapeOK'
  <2>1. CASE \E q \in Maker : MakeStep(q) \/ MakerStops(q)
    BY <1>2, <2>1, ShapeMakerStep
  <2>2. CASE \/ InputChanges \/ JoinedChanges \/ (\E mode \in ModeOfRun : EditRecipe(mode))
             \/ PruneLatest \/ BeginErasure \/ RewriteFile \/ CommitErasure
    BY <1>2, <2>2, ShapeOtherStep
  <2> QED BY <1>2, <2>1, <2>2 DEF IncrementalNext, ModeOfRun
<1> QED BY <1>1, <1>2

\* The variables have their shape, however the dataset and the runs interleave.
LEMMA ShapesHold == IncrementalSpec => []ShapeOK
<1> QED BY ShapeInit, ShapeKeeps, PTL DEF IncrementalSpec

-----------------------------------------------------------------------------
(***************************************************************************)
(* Nothing of an erased person is read by a run that begins afterwards.    *)
(***************************************************************************)

Clean(rows) == \A row \in ToSet(rows) : row.value # "hers"
CleanPieces(pieces) == \A piece \in ToSet(pieces) : \A row \in piece.from : row.value # "hers"

\* A run that goes on, with the files as they are and the erasure done or not: a hash
\* without the person stands for a file, and a frame, without them.
CleanMake(m, held, done) ==
    /\ m.run.after => done
    /\ m.at \in {"named", "pinned"} => ~m.loaded
    /\ m.at \in {"before", "now"} => m.mode # "full"
    /\ m.at \in Reading => /\ m.run.after => Clean(m.hash)
                           /\ Clean(m.hash) => Clean(held[m.file])
                           /\ m.run.full <=> m.mode = "full"
    /\ m.at \in Reading /\ (m.loaded \/ m.at = "applying") /\ Clean(m.hash) => Clean(m.run.read)
    /\ m.at \in Finishing /\ m.run.after /\ m.run.full => CleanPieces(m.run.made)

CleanFiles(held, hashed, state) ==
    /\ state.at = "rewriting" => \A n \in DOMAIN held \ state.left : Clean(held[n])
    /\ state.at = "done" => \A n \in DOMAIN held : Clean(held[n]) /\ Clean(hashed[n])
    /\ \A n \in DOMAIN held : Clean(hashed[n]) => Clean(held[n])

CleanKept(k) == Clean(k.hash) => Clean(k.frame)
CleanResult(r) == r.after /\ r.full => CleanPieces(r.made)

Erased ==
    /\ CleanFiles(files, hashes, erasing)
    /\ \A k \in kept : CleanKept(k)
    /\ \A q \in Maker : CleanMake(making[q], files, erasing.at = "done")
    /\ CleanResult(result)

LEMMA RestsClean == \A held, done : CleanMake(MakerRests, held, done)
BY DEF CleanMake, MakerRests, NoMake, Reading, Finishing

\* What is kept so suffices.
LEMMA ErasedIsEnough == ShapeOK /\ Erased => ErasedIsGone
<1> SUFFICES ASSUME ShapeOK, Erased, result.after, result.full,
                    NEW i \in DOMAIN result.made, NEW row \in result.made[i].from
             PROVE  row.value # "hers"
  BY DEF ErasedIsGone
<1>1. CleanPieces(result.made)
  BY DEF Erased, CleanResult
<1>2. result.made[i] \in ToSet(result.made)
  BY DEF ToSet
<1> QED BY <1>1, <1>2 DEF CleanPieces

LEMMA ErasedInit == IncrementalInit => Erased
<1> SUFFICES ASSUME IncrementalInit PROVE Erased
  OBVIOUS
<1>1. hashes = files /\ kept = {} /\ result = NoMake /\ erasing.at = "none" /\ making = [q \in Maker |-> MakerRests]
  BY DEF IncrementalInit
<1>2. CleanResult(result)
  BY <1>1 DEF CleanResult, NoMake
<1>3. CleanFiles(files, hashes, erasing)
  BY <1>1 DEF CleanFiles
<1> QED BY <1>1, <1>2, <1>3, RestsClean DEF Erased

LEMMA ErasedMakerMoves ==
    ASSUME Erased, NEW q \in Maker, NEW rec, CleanMake(rec, files, erasing.at = "done"),
           UNCHANGED <<recipe, inputVars>>, making' = [making EXCEPT ![q] = rec],
           CleanResult(result'), \A k \in kept' : CleanKept(k)
    PROVE  Erased'
<1>1. UNCHANGED <<files, hashes, erasing>>
  BY DEF inputVars
<1>2. CleanFiles(files', hashes', erasing')
  BY <1>1 DEF Erased
<1>3. \A o \in Maker : CleanMake(making'[o], files', erasing'.at = "done")
  <2> SUFFICES ASSUME NEW o \in Maker PROVE CleanMake(making'[o], files', erasing'.at = "done")
    OBVIOUS
  <2>1. CleanMake(making[o], files, erasing.at = "done")
    BY DEF Erased
  <2>2. making'[o] = making[o] \/ making'[o] = rec
    OBVIOUS
  <2> QED BY <1>1, <2>1, <2>2
<1> QED BY <1>2, <1>3 DEF Erased

LEMMA ErasedMakerStep ==
    ASSUME ShapeOK, Erased, NEW q \in Maker, MakeStep(q) \/ MakerStops(q)
    PROVE  Erased'
<1> DEFINE m == making[q]
           done == erasing.at = "done"
           Fits(rec) == CleanMake(rec, files, done)
<1>0. /\ m \in Going(Newest) /\ HasFiles(m) /\ Newest \in 1..Newest /\ CleanResult(result)
      /\ recipe.kind \in Kind /\ joined \in 0..MaxRevisions
      /\ \A k \in kept : CleanKept(k)
  <2>1. m \in Going(Newest) /\ HasFiles(m) /\ recipe.kind \in Kind
    BY DEF ShapeOK, MakesShape, InputShape
  <2>2. /\ Newest \in 1..(revisions + 1) /\ revisions \in 0..MaxRevisions /\ MaxRevisions \in Nat
        /\ joined \in 0..revisions
    BY IncrementalAssumption DEF ShapeOK, InputShape
  <2>3. Newest \in 1..Newest /\ joined \in 0..MaxRevisions
    BY <2>2
  <2> QED BY <2>1, <2>3 DEF Erased
<1>1. /\ m.run \in Make(Newest) /\ m.prev \in Make(Newest) /\ m.run.read \in Seq(Row)
      /\ m.run.steps \in 0..MaxRevisions /\ m.run.joined \in 0..MaxRevisions
  BY <1>0 DEF Going, Make
<1>2. Fits(m) /\ Fits(MakerRests)
  BY RestsClean DEF Erased
<1>3. ASSUME NEW rec, Fits(rec), making' = [making EXCEPT ![q] = rec], KeepsInput,
             CleanResult(result'), \A k \in kept' : CleanKept(k)
      PROVE  Erased'
  BY <1>3, ErasedMakerMoves DEF KeepsInput
<1> HIDE DEF m, Fits
<1>4. ASSUME m.at \in Numbered
      PROVE  /\ m.file \in DOMAIN files
             /\ done => Clean(files[m.file]) /\ Clean(hashes[m.file])
             /\ Clean(hashes[m.file]) => Clean(files[m.file])
  <2>1. m.file \in 1..Newest /\ DOMAIN files = 1..Newest
    BY <1>0, <1>4 DEF HasFiles, Going, ShapeOK, InputShape, Newest
  <2> QED BY <2>1 DEF Erased, CleanFiles
<1>5. CASE StartMake(q)
  <2> DEFINE run == [NoMake EXCEPT !.steps = recipe.steps, !.after = done]
             rec == [MakerRests EXCEPT !.at = "named", !.file = Newest, !.run = run]
  <2>1. /\ making' = [making EXCEPT ![q] = rec] /\ UNCHANGED <<latest, result, kept>>
        /\ UNCHANGED <<recipe, inputVars>>
    BY <1>5 DEF StartMake
  <2>2. rec.at = "named" /\ rec.run.after = done /\ ~rec.loaded
    BY DEF MakerRests, NoMake
  <2> HIDE DEF rec
  <2>3. Fits(rec)
    BY <2>2 DEF Fits, CleanMake, Reading, Finishing
  <2> QED BY <1>0, <2>1, <2>3, ErasedMakerMoves DEF Fits
<1>6. CASE PinBase(q)
  <2> DEFINE rec == [m EXCEPT !.at = "pinned", !.run.base = HeadPin]
  <2>1. making' = [making EXCEPT ![q] = rec] /\ KeepsInput /\ UNCHANGED <<latest, result, kept>> /\ m.at = "named"
    BY <1>6 DEF PinBase, MakerAt, m
  <2>2. rec.at = "pinned" /\ rec.run.after = m.run.after /\ rec.loaded = m.loaded
    BY <1>0, <1>1 DEF Going, Make
  <2> HIDE DEF rec
  <2>3. Fits(rec)
    BY <1>2, <2>1, <2>2 DEF Fits, CleanMake, Reading, Finishing
  <2> QED BY <1>0, <1>3, <2>1, <2>3
<1>7. CASE Decide(q)
  <2> DEFINE inc == recipe.mode # "full" /\ Incremental(m.run)
             at == IF inc THEN "before" ELSE "in full"
             mode == IF inc THEN recipe.mode ELSE "full"
             prev == IF inc THEN latest ELSE NoMake
             run == [m.run EXCEPT !.full = ~inc, !.joined = joined]
             rec == [m EXCEPT !.at = at, !.mode = mode, !.prev = prev, !.run = run, !.hash = Identity(m.file)]
  <2>1. KeepsInput /\ UNCHANGED <<latest, result, kept>> /\ m.at = "pinned"
    BY <1>7 DEF Decide, MakerAt, m
  <2>2. making' = [making EXCEPT ![q] = rec]
    BY <1>7 DEF Decide, m
  <2>3. /\ at \in {"before", "in full"} /\ (at = "before" => mode # "full")
        /\ (~inc <=> mode = "full")
    OBVIOUS
  <2>4. run.full = ~inc /\ run.after = m.run.after
    BY <1>1 DEF Make
  <2> HIDE DEF inc, at, mode, prev, run
  <2>5. /\ rec.at = at /\ rec.mode = mode /\ rec.run = run /\ rec.hash = hashes[m.file]
        /\ rec.file = m.file /\ rec.loaded = m.loaded
    BY <1>0 DEF Going, Identity
  <2> HIDE DEF rec
  <2>6. (done => Clean(hashes[m.file])) /\ (Clean(hashes[m.file]) => Clean(files[m.file]))
    BY <1>4, <2>1 DEF Numbered
  <2>7. (m.run.after => done) /\ ~m.loaded
    BY <1>2, <2>1 DEF Fits, CleanMake
  <2>8. Fits(rec)
    BY <2>3, <2>4, <2>5, <2>6, <2>7 DEF Fits, CleanMake, Reading, Finishing
  <2> QED BY <1>0, <1>3, <2>1, <2>2, <2>8
<1>8. CASE ReadBefore(q)
  <2> DEFINE rec == [m EXCEPT !.at = "now", !.before = files[m.prev.base]]
  <2>1. making' = [making EXCEPT ![q] = rec] /\ KeepsInput /\ UNCHANGED <<latest, result, kept>> /\ m.at = "before"
    BY <1>8 DEF ReadBefore, MakerAt, m
  <2>2. /\ rec.at = "now" /\ rec.run = m.run /\ rec.hash = m.hash /\ rec.mode = m.mode
        /\ rec.file = m.file /\ rec.loaded = m.loaded
    BY <1>0 DEF Going
  <2> HIDE DEF rec
  <2>3. Fits(rec)
    BY <1>2, <2>1, <2>2 DEF Fits, CleanMake, Reading, Finishing
  <2> QED BY <1>0, <1>3, <2>1, <2>3
<1>9. CASE ReadNow(q)
  <2> DEFINE now == files[m.file]
             apart == m.mode = "append" /\ ~OnlyAdded(m.before, now)
             mixes == ~apart /\ (m.prev.mixed \/ (erasing.at # "none" /\ m.before # m.prev.read))
             run == [m.run EXCEPT !.full = apart, !.read = now, !.mixed = mixes]
             rec == [m EXCEPT !.at = IF apart THEN "in full" ELSE "applying",
                              !.mode = IF apart THEN "full" ELSE m.mode,
                              !.run = run, !.loaded = TRUE]
  <2>1. KeepsInput /\ UNCHANGED <<latest, result, kept>> /\ m.at = "now"
    BY <1>9 DEF ReadNow, MakerAt, m
  <2>2. making' = [making EXCEPT ![q] = rec]
    BY <1>9 DEF ReadNow, m
  <2> HIDE DEF apart, mixes
  <2>3. run.full = apart /\ run.after = m.run.after /\ run.read = files[m.file]
    BY <1>1 DEF Make
  <2> HIDE DEF run
  <2>4. /\ rec.at = IF apart THEN "in full" ELSE "applying"
        /\ rec.mode = IF apart THEN "full" ELSE m.mode
        /\ rec.run = run /\ rec.hash = m.hash /\ rec.file = m.file
    BY <1>0 DEF Going
  <2> HIDE DEF rec
  <2>5. /\ m.run.after => done
        /\ m.mode # "full"
        /\ m.run.after => Clean(m.hash)
        /\ Clean(m.hash) => Clean(files[m.file])
    BY <1>2, <2>1 DEF Fits, CleanMake, Reading
  <2>6. Fits(rec)
    <3>1. CASE apart
      BY <2>3, <2>4, <2>5, <3>1 DEF Fits, CleanMake, Reading, Finishing
    <3>2. CASE ~apart
      BY <2>3, <2>4, <2>5, <3>2 DEF Fits, CleanMake, Reading, Finishing
    <3> QED BY <3>1, <3>2
  <2> QED BY <1>0, <1>3, <2>1, <2>2, <2>6
<1>10. CASE ReadInFull(q)
  <2> DEFINE there == {k \in kept : k.of = m.file /\ k.hash = m.hash}
             rec(read) == [m EXCEPT !.at = "applying", !.run.read = read]
  <2>1. m.at = "in full"
    BY <1>10 DEF ReadInFull, MakerAt, m
  <2>2. KeepsInput /\ UNCHANGED <<latest, result>>
    BY <1>10 DEF ReadInFull
  <2>3. PICK read : /\ making' = [making EXCEPT ![q] = rec(read)]
                    /\ \/ (\E k \in there : read = k.frame) /\ UNCHANGED kept
                       \/ /\ read \in {files[m.file]} \cup (IF m.loaded THEN {m.run.read} ELSE {})
                          /\ kept' = (kept \ there) \cup {[of |-> m.file, hash |-> m.hash, frame |-> read]}
    <3>1. CASE \E k \in there : /\ making' = [making EXCEPT ![q] = rec(k.frame)]
                                 /\ UNCHANGED kept
      BY <3>1
    <3>2. CASE \E read \in {files[m.file]} \cup (IF m.loaded THEN {m.run.read} ELSE {}) :
                 /\ making' = [making EXCEPT ![q] = rec(read)]
                 /\ kept' = (kept \ there) \cup {[of |-> m.file, hash |-> m.hash, frame |-> read]}
      BY <3>2
    <3> QED BY <1>10, <3>1, <3>2 DEF ReadInFull, m
  <2>4. /\ m.run.after => done
        /\ m.run.after => Clean(m.hash)
        /\ Clean(m.hash) => Clean(files[m.file])
        /\ m.loaded /\ Clean(m.hash) => Clean(m.run.read)
        /\ m.run.full <=> m.mode = "full"
    BY <1>2, <2>1 DEF Fits, CleanMake, Reading
  <2>5. Clean(m.hash) => Clean(read)
    BY <1>0, <2>3, <2>4 DEF CleanKept
  <2>6. \A k \in kept' : CleanKept(k)
    BY <1>0, <2>3, <2>5 DEF CleanKept
  <2>7. /\ rec(read).at = "applying" /\ rec(read).run.read = read /\ rec(read).hash = m.hash
        /\ rec(read).run.after = m.run.after /\ rec(read).run.full = m.run.full
        /\ rec(read).mode = m.mode /\ rec(read).file = m.file
    BY <1>0, <1>1 DEF Going, Make
  <2> HIDE DEF rec
  <2>8. Fits(rec(read))
    BY <2>4, <2>5, <2>7 DEF Fits, CleanMake, Reading, Finishing
  <2> QED BY <1>0, <1>3, <2>2, <2>3, <2>6, <2>8
<1>11. CASE Apply(q)
  <2> DEFINE now == m.run.read
             rows == IF m.mode = "full" THEN now ELSE Fresh(m, now)
             other == IF rows = <<>> THEN m.run.joined ELSE joined
             remains == IF m.mode = "full" THEN <<>> ELSE Remains(m, now)
             out == remains \o Made(rows, m.run.steps, other)
             ends == [MakerRests EXCEPT !.at = "publishing",
                                        !.run = [m.run EXCEPT !.joined = other, !.made = out]]
             again == [m.run EXCEPT !.full = TRUE, !.mixed = FALSE]
             redo == [m EXCEPT !.at = "in full", !.mode = "full", !.prev = NoMake,
                               !.before = <<>>, !.run = again]
  <2>1. /\ m.at = "applying" /\ KeepsInput /\ UNCHANGED <<latest, result, kept>>
        /\ making' = [making EXCEPT ![q] = ends] \/ making' = [making EXCEPT ![q] = redo]
    BY <1>11 DEF Apply, MakerAt, m
  <2>2. /\ m.run.after => done
        /\ m.run.after => Clean(m.hash)
        /\ Clean(m.hash) => Clean(files[m.file])
        /\ Clean(m.hash) => Clean(m.run.read)
        /\ m.run.full <=> m.mode = "full"
    BY <1>2, <2>1 DEF Fits, CleanMake, Reading
  <2>3. ASSUME m.run.after, m.run.full PROVE CleanPieces(out)
    <3>1. other \in 0..MaxRevisions /\ rows = now /\ now \in Seq(Row) /\ Clean(now)
      BY <1>0, <1>1, <2>2, <2>3
    <3>2. /\ Made(now, m.run.steps, other) \in Seq(Piece)
          /\ ToSet(Made(now, m.run.steps, other)) = Pieces(recipe.kind, now, m.run.steps, other)
      BY <1>0, <1>1, <3>1, MadeIs
    <3>3. out = Made(now, m.run.steps, other)
      <4>1. remains = <<>> /\ rows = now
        BY <2>2, <2>3
      <4>2. \A s \in Seq(Piece) : <<>> \o s = s
        OBVIOUS
      <4> HIDE DEF remains, rows, other, now
      <4> QED BY <3>2, <4>1, <4>2
    <3>4. \A from \in Sources(recipe.kind, now) : from \subseteq ToSet(now)
      BY <3>1, SourcesTyped
    <3>5. ASSUME NEW piece \in ToSet(out) PROVE \A row \in piece.from : row.value # "hers"
      <4>1. PICK from \in Sources(recipe.kind, now) : piece = PieceOf(recipe.kind, from, m.run.steps, other)
        BY <3>2, <3>3, <3>5 DEF Pieces
      <4>2. piece.from = from
        BY <4>1 DEF PieceOf
      <4> QED BY <3>1, <3>4, <4>2 DEF Clean
    <3> QED BY <3>5 DEF CleanPieces
  <2> HIDE DEF out, other
  <2>4. /\ ends.at = "publishing" /\ ends.run.after = m.run.after /\ ends.run.full = m.run.full
        /\ ends.run.made = out
    BY <1>1 DEF Make, MakerRests
  <2>5. again.full /\ again.after = m.run.after /\ again.read = m.run.read
    BY <1>1 DEF Make
  <2> HIDE DEF again
  <2>6. /\ redo.at = "in full" /\ redo.mode = "full" /\ redo.hash = m.hash /\ redo.file = m.file
        /\ redo.run = again
    BY <1>0 DEF Going
  <2> HIDE DEF ends, redo
  <2>7. Fits(ends)
    BY <2>2, <2>3, <2>4 DEF Fits, CleanMake, Reading, Finishing
  <2>8. Fits(redo)
    BY <2>2, <2>5, <2>6 DEF Fits, CleanMake, Reading, Finishing
  <2> QED BY <1>0, <1>3, <2>1, <2>7, <2>8
<1>12. CASE PublishMade(q)
  <2> DEFINE rec == [m EXCEPT !.at = "recording"]
  <2>1. /\ making' = [making EXCEPT ![q] = rec] /\ KeepsInput /\ UNCHANGED <<latest, kept>>
        /\ result' = m.run /\ m.at = "publishing"
    BY <1>12 DEF PublishMade, MakerAt, m
  <2>2. rec.at = "recording" /\ rec.run = m.run
    BY <1>0 DEF Going
  <2> HIDE DEF rec
  <2>3. Fits(rec) /\ CleanResult(result')
    BY <1>2, <2>1, <2>2 DEF Fits, CleanMake, Reading, Finishing, CleanResult
  <2> QED BY <1>0, <1>3, <2>1, <2>3
<1>13. CASE RecordMade(q)
  <2>1. making' = [making EXCEPT ![q] = MakerRests] /\ KeepsInput /\ UNCHANGED <<result, kept>>
    BY <1>13 DEF RecordMade
  <2> QED BY <1>0, <1>2, <1>3, <2>1
<1>14. CASE MakerStops(q)
  <2>1. making' = [making EXCEPT ![q] = MakerRests] /\ UNCHANGED <<result, kept>> /\ UNCHANGED <<recipe, inputVars>>
    BY <1>14 DEF MakerStops
  <2> QED BY <1>0, <1>2, <2>1, ErasedMakerMoves DEF Fits
<1> QED
  BY <1>5, <1>6, <1>7, <1>8, <1>9, <1>10, <1>11, <1>12, <1>13, <1>14 DEF MakeStep

\* The files of a state where nothing but them, and what is left to erase, is another.
LEMMA ErasedOthers ==
    ASSUME ShapeOK, Erased, UNCHANGED <<result, kept>>, making' = making,
           CleanFiles(files', hashes', erasing'),
           \A n \in DOMAIN files : Clean(files[n]) => Clean(files'[n]),
           erasing.at = "done" => erasing'.at = "done"
    PROVE  Erased'
<1> DEFINE done == erasing.at = "done"
           then == erasing'.at = "done"
<1>1. done => then
  OBVIOUS
<1> HIDE DEF done, then
<1>2. ASSUME NEW q \in Maker PROVE CleanMake(making[q], files', then)
  <2> DEFINE m == making[q]
  <2>1. CleanMake(m, files, done)
    BY DEF Erased, done
  <2>2. m.at \in Reading => m.file \in DOMAIN files
    BY DEF ShapeOK, MakesShape, InputShape, Going, HasFiles, Numbered, Newest
  <2> HIDE DEF m
  <2>3. m.at \in Reading => (Clean(files[m.file]) => Clean(files'[m.file]))
    BY <2>2
  <2>4. CleanMake(m, files', then)
    BY <1>1, <2>1, <2>3 DEF CleanMake
  <2> QED BY <2>4 DEF m
<1>3. \A k \in kept' : CleanKept(k)
  BY DEF Erased
<1>4. CleanResult(result')
  BY DEF Erased
<1> QED BY <1>2, <1>3, <1>4 DEF Erased, then

LEMMA CleanChanges ==
    ASSUME NEW rows \in Seq(Row), Clean(rows), NEW changed \in Changes(rows)
    PROVE  Clean(changed)
<1>0. \A i \in DOMAIN rows : rows[i].value # "hers" /\ rows[i] \in Row
  BY DEF Clean, ToSet
<1>1. CASE \E p \in Part : changed = Append(rows, [id |-> Newest + 1, part |-> p, value |-> "plain"])
  <2>1. PICK p \in Part : changed = Append(rows, [id |-> Newest + 1, part |-> p, value |-> "plain"])
    BY <1>1
  <2> DEFINE new == [id |-> Newest + 1, part |-> p, value |-> "plain"]
  <2>2. new.value = "plain" /\ changed = Append(rows, new)
    BY <2>1
  <2> HIDE DEF new
  <2>3. \A i \in DOMAIN changed : changed[i] = new \/ (i \in DOMAIN rows /\ changed[i] = rows[i])
    BY <2>2
  <2> QED BY <1>0, <2>2, <2>3 DEF Clean, ToSet
<1>2. CASE \E i \in DOMAIN rows : changed = [rows EXCEPT ![i].value = "changed"]
  <2>1. PICK i \in DOMAIN rows : changed = [rows EXCEPT ![i].value = "changed"]
    BY <1>2
  <2>2. [rows[i] EXCEPT !.value = "changed"].value = "changed"
    BY <1>0 DEF Row
  <2>3. changed = [rows EXCEPT ![i] = [rows[i] EXCEPT !.value = "changed"]]
    BY <2>1
  <2>4. \A j \in DOMAIN changed : j \in DOMAIN rows /\ changed[j].value # "hers"
    BY <1>0, <2>2, <2>3
  <2> QED BY <2>4 DEF Clean, ToSet
<1> QED BY <1>1, <1>2 DEF Changes

LEMMA RedactedClean == ASSUME NEW rows \in Seq(Row) PROVE Clean(Redacted(rows))
<1>1. \A i \in DOMAIN rows : rows[i] \in Row
  OBVIOUS
<1>2. \A i \in DOMAIN rows : Redacted(rows)[i].value # "hers"
  <2> SUFFICES ASSUME NEW i \in DOMAIN rows PROVE Redacted(rows)[i].value # "hers"
    OBVIOUS
  <2>1. [rows[i] EXCEPT !.value = "erased"].value = "erased"
    BY <1>1 DEF Row
  <2> QED BY <2>1 DEF Redacted
<1>3. DOMAIN Redacted(rows) = DOMAIN rows
  BY DEF Redacted
<1> QED BY <1>2, <1>3 DEF Clean, ToSet

LEMMA ErasedOtherStep ==
    ASSUME PublishMeanwhile = FALSE, ShapeOK, Erased,
           \/ InputChanges \/ JoinedChanges \/ (\E mode \in ModeOfRun : EditRecipe(mode))
           \/ PruneLatest \/ BeginErasure \/ RewriteFile \/ CommitErasure
    PROVE  Erased'
<1>0. /\ DOMAIN files = 1..Newest /\ DOMAIN hashes = 1..Newest /\ Newest \in 1..Newest
      /\ \A n \in 1..Newest : files[n] \in Seq(Row)
      /\ CleanFiles(files, hashes, erasing)
  <2>1. Newest \in 1..(revisions + 1) /\ revisions \in Nat
    BY IncrementalAssumption DEF ShapeOK, InputShape
  <2>2. Newest \in 1..Newest
    BY <2>1
  <2> QED BY <2>2 DEF ShapeOK, InputShape, Newest, Erased
<1>1. CASE InputChanges
  <2>1. PICK rows \in Changes(files[Newest]) \cup {files[n] : n \in 1..(Newest - 1)} : NewVersion(rows)
    BY <1>1 DEF InputChanges
  <2>2. /\ erasing.at # "rewriting" /\ UNCHANGED <<erasing, result, kept, making>>
        /\ files' = Append(files, rows) /\ hashes' = Append(hashes, rows)
    BY <2>1 DEF NewVersion
  <2>3. erasing.at = "done" => Clean(rows)
    <3>1. ASSUME erasing.at = "done" PROVE \A n \in 1..Newest : Clean(files[n])
      BY <1>0, <3>1 DEF CleanFiles
    <3>2. 1..(Newest - 1) \subseteq 1..Newest
      BY <1>0
    <3> QED BY <1>0, <2>1, <3>1, <3>2, CleanChanges
  <2>4. /\ DOMAIN files' = 1..(Newest + 1) /\ files'[Newest + 1] = rows /\ hashes'[Newest + 1] = rows
        /\ \A n \in 1..Newest : files'[n] = files[n] /\ hashes'[n] = hashes[n]
        /\ \A n \in 1..(Newest + 1) : n \in 1..Newest \/ n = Newest + 1
    BY <1>0, <2>2 DEF ShapeOK, InputShape, Newest
  <2>5. CleanFiles(files', hashes', erasing')
    BY <1>0, <2>2, <2>3, <2>4 DEF CleanFiles
  <2> QED BY <1>0, <2>2, <2>4, <2>5, ErasedOthers
<1>2. CASE JoinedChanges \/ \E mode \in ModeOfRun : EditRecipe(mode)
  <2>1. UNCHANGED <<files, hashes, erasing, result, kept, making>>
    BY <1>2 DEF JoinedChanges, EditRecipe, inputVars
  <2> QED BY <1>0, <2>1, ErasedOthers
<1>3. CASE PruneLatest
  <2>1. /\ UNCHANGED <<files, hashes, erasing, result, kept>>
        /\ making' = [q \in Maker |-> IF making[q].at \in {"before", "now"} THEN MakerRests ELSE making[q]]
    BY <1>3 DEF PruneLatest, inputVars
  <2>2. \A q \in Maker : CleanMake(making'[q], files', erasing'.at = "done")
    <3> SUFFICES ASSUME NEW q \in Maker PROVE CleanMake(making'[q], files', erasing'.at = "done")
      OBVIOUS
    <3>1. making'[q] = MakerRests \/ making'[q] = making[q]
      BY <2>1
    <3>2. CleanMake(making[q], files, erasing.at = "done") /\ CleanMake(MakerRests, files, erasing.at = "done")
      BY RestsClean DEF Erased
    <3> QED BY <2>1, <3>1, <3>2
  <2> QED BY <2>1, <2>2 DEF Erased
<1>4. CASE BeginErasure
  <2>1. /\ UNCHANGED <<files, hashes, result, kept, making>> /\ erasing.at = "none"
        /\ erasing' = [at |-> "rewriting", left |-> 1..Newest]
    BY <1>4 DEF BeginErasure
  <2>2. CleanFiles(files', hashes', erasing')
    BY <1>0, <2>1 DEF CleanFiles
  <2> QED BY <1>0, <2>1, <2>2, ErasedOthers
<1>5. CASE RewriteFile
  <2>1. /\ erasing.left # {} /\ erasing.at = "rewriting" /\ erasing' = [erasing EXCEPT !.left = @ \ {NextToErase}]
        /\ files' = [files EXCEPT ![NextToErase] = Redacted(@)]
        /\ UNCHANGED <<hashes, result, kept, making>>
    BY <1>5 DEF RewriteFile, NextToErase
  <2>2. NextToErase \in 1..Newest
    BY <2>1, OneToErase
  <2>3. /\ DOMAIN files' = DOMAIN files /\ files'[NextToErase] = Redacted(files[NextToErase])
        /\ \A n \in DOMAIN files : n # NextToErase => files'[n] = files[n]
    BY <1>0, <2>1, <2>2
  <2>4. Clean(files'[NextToErase])
    BY <1>0, <2>2, <2>3, RedactedClean
  <2>5. \A n \in DOMAIN files : Clean(files[n]) => Clean(files'[n])
    BY <2>3, <2>4
  <2>6. erasing'.at = "rewriting" /\ erasing'.left = erasing.left \ {NextToErase}
    BY <2>1 DEF ShapeOK, InputShape
  <2>7. CleanFiles(files', hashes', erasing')
    BY <1>0, <2>1, <2>3, <2>4, <2>5, <2>6 DEF CleanFiles
  <2> QED BY <2>1, <2>5, <2>7, ErasedOthers
<1>6. CASE CommitErasure
  <2>1. /\ erasing.left = {} /\ erasing.at = "rewriting" /\ erasing' = [erasing EXCEPT !.at = "done"]
        /\ hashes' = files /\ UNCHANGED <<files, result, kept, making>>
    BY <1>6 DEF CommitErasure
  <2>2. erasing'.at = "done"
    BY <2>1 DEF ShapeOK, InputShape
  <2>3. \A n \in DOMAIN files : Clean(files[n])
    BY <1>0, <2>1 DEF CleanFiles
  <2>4. CleanFiles(files', hashes', erasing')
    BY <2>1, <2>2, <2>3 DEF CleanFiles
  <2> QED BY <2>1, <2>2, <2>4, ErasedOthers
<1> QED BY <1>1, <1>2, <1>3, <1>4, <1>5, <1>6

LEMMA ErasedKeeps ==
    ASSUME PublishMeanwhile = FALSE
    PROVE  ShapeOK /\ Erased /\ [IncrementalNext]_incrementalVars => Erased'
<1>1. ASSUME Erased, UNCHANGED incrementalVars PROVE Erased'
  BY <1>1 DEF Erased, incrementalVars, inputVars
<1>2. ASSUME ShapeOK, Erased, IncrementalNext PROVE Erased'
  <2>1. CASE \E q \in Maker : MakeStep(q) \/ MakerStops(q)
    BY <1>2, <2>1, ErasedMakerStep
  <2>2. CASE \/ InputChanges \/ JoinedChanges \/ (\E mode \in ModeOfRun : EditRecipe(mode))
             \/ PruneLatest \/ BeginErasure \/ RewriteFile \/ CommitErasure
    BY <1>2, <2>2, ErasedOtherStep
  <2> QED BY <1>2, <2>1, <2>2 DEF IncrementalNext, ModeOfRun
<1> QED BY <1>1, <1>2

\* A full run that begins after an erasure ended finds nothing of the person, in a file
\* or kept in memory, when a dataset gets no version while a run reads it or an erasure
\* rewrites it (incremental.py, prefix_cache.py, service_enterprise/service.py).
THEOREM ErasedForGood ==
    ASSUME PublishMeanwhile = FALSE
    PROVE  IncrementalSpec => []ErasedIsGone
<1>1. IncrementalSpec => [](ShapeOK /\ Erased)
  BY ShapeInit, ShapeKeeps, ErasedInit, ErasedKeeps, PTL DEF IncrementalSpec
<1> QED BY <1>1, ErasedIsEnough, PTL

-----------------------------------------------------------------------------
(***************************************************************************)
(* What is made of what is new, with what remains, is what a full run      *)
(* makes.                                                                  *)
(***************************************************************************)

\* Allowed, where the recipe is of a kind.
May(kind, mode, prev, other) ==
    \/ kind = "row by row"
    \/ kind = "joins" /\ prev.joined = other
    \/ kind = "groups by partition" /\ mode = "partition"

LEMMA MayIs ==
    ASSUME recipe.kind \in Kind
    PROVE  \A mode, prev, other : Allowed(mode, prev, other) => May(recipe.kind, mode, prev, other)
BY DEF Allowed, May, Kind

\* What a record says of its result holds.
RightRun(kind, r) ==
    /\ OneOfEach(r.read)
    /\ \/ r.mixed
       \/ IsInjective(r.made) /\ ToSet(r.made) = Pieces(kind, r.read, r.steps, r.joined)

LEMMA OneOfEachIs ==
    ASSUME NEW rows \in Seq(Row)
    PROVE  OneOfEach(rows) <=> IsInjective(rows) /\ \A a, b \in ToSet(rows) : a.id = b.id => a = b
BY DEF OneOfEach, IsInjective, ToSet

LEMMA ThoseOfEach ==
    ASSUME NEW rows \in Seq(Row), OneOfEach(rows), NEW S
    PROVE  OneOfEach(Those(rows, S))
<1>1. IsInjective(rows) /\ \A a, b \in ToSet(rows) : a.id = b.id => a = b
  BY OneOfEachIs
<1>2. /\ Those(rows, S) \in Seq(Row) /\ ToSet(Those(rows, S)) \subseteq ToSet(rows)
      /\ IsInjective(Those(rows, S))
  BY <1>1, ThoseIs
<1> QED BY <1>1, <1>2, OneOfEachIs

\* Pieces of a recipe that does not join do not tell what is joined.
LEMMA PiecesOfMay ==
    ASSUME NEW kind, NEW mode, NEW prev, NEW other, May(kind, mode, prev, other), NEW rows, NEW steps
    PROVE  Pieces(kind, rows, steps, prev.joined) = Pieces(kind, rows, steps, other)
<1>1. \A from : PieceOf(kind, from, steps, prev.joined) = PieceOf(kind, from, steps, other)
  BY DEF May, PieceOf
<1> QED BY <1>1 DEF Pieces

LEMMA MergedRight ==
    ASSUME recipe.kind \in Kind, NEW m \in Going(Newest), NEW now \in Seq(Row), OneOfEach(now),
           NEW steps \in 0..MaxRevisions, NEW other \in 0..MaxRevisions,
           m.mode # "full", m.prev.steps = steps, May(recipe.kind, m.mode, m.prev, other),
           RightRun(recipe.kind, m.prev), ~m.prev.mixed, m.before = m.prev.read,
           m.mode = "append" => IsPrefix(m.before, now)
    PROVE  LET out == Remains(m, now) \o Made(Fresh(m, now), steps, other)
           IN IsInjective(out) /\ ToSet(out) = Pieces(recipe.kind, now, steps, other)
<1> DEFINE kind == recipe.kind
           before == m.before
           s == m.prev.made
<1>1. before \in Seq(Row) /\ s \in Seq(Piece) /\ m.mode \in ModeOfRun
  BY DEF Going, Make
<1>2. IsInjective(s) /\ ToSet(s) = Pieces(kind, before, steps, other)
  <2>1. Pieces(kind, before, steps, m.prev.joined) = Pieces(kind, before, steps, other)
    BY PiecesOfMay
  <2> QED BY <2>1 DEF RightRun
<1>3. CASE m.mode = "append"
  <2> DEFINE fresh == SubSeq(now, Len(before) + 1, Len(now))
             t == Made(fresh, steps, other)
  <2>1. Fresh(m, now) = fresh /\ Remains(m, now) = s
    BY <1>3 DEF Fresh, Remains
  <2>2. fresh \in Seq(Row) /\ OneOfEach(fresh)
    BY <1>1, <1>3, RestIs
  <2>3. kind \in {"row by row", "joins"}
    BY <1>3 DEF May
  <2>4. t \in Seq(Piece) /\ ToSet(t) = Pieces(kind, fresh, steps, other) /\ IsInjective(t)
    <3> HIDE DEF fresh
    <3> QED BY <2>2, MadeIs
  <2> HIDE DEF t
  <2>5. IsPrefix(before, now) /\ OneOfEach(now)
    BY <1>3
  <2> HIDE DEF before, s, kind
  <2>6. IsInjective(s \o t) /\ ToSet(s \o t) = Pieces(kind, now, steps, other)
    <3>1. Adds(before, now, kind, steps, other, s, t)
      BY <1>1, <1>2, <2>3, <2>4, <2>5 DEF Adds
    <3> QED BY ONLY <3>1, AppendRight
  <2> QED BY <2>1, <2>6 DEF t, kind
<1>4. CASE m.mode = "partition"
  <2> DEFINE Ch == Changed(before, now)
             fresh == Those(now, {row \in ToSet(now) : row.part \in Ch})
             rest == Those(s, {piece \in ToSet(s) : PartOf(piece) \notin Ch})
             t == Made(fresh, steps, other)
  <2>1. Fresh(m, now) = fresh /\ Remains(m, now) = rest
    BY <1>4 DEF Fresh, Remains
  <2>2. /\ fresh \in Seq(Row) /\ OneOfEach(fresh)
        /\ ToSet(fresh) = {row \in ToSet(now) : row.part \in Ch}
    <3> DEFINE S == {row \in ToSet(now) : row.part \in Ch}
    <3>1. \A x : x \in S => x \in ToSet(now)
      OBVIOUS
    <3> HIDE DEF S
    <3>2. fresh \in Seq(Row) /\ ToSet(fresh) = {x \in ToSet(now) : x \in S}
      BY ThoseIs DEF S
    <3>3. OneOfEach(fresh)
      BY ThoseOfEach DEF S
    <3> HIDE DEF fresh
    <3>4. ToSet(fresh) = S
      BY <3>1, <3>2
    <3> QED BY <3>2, <3>3, <3>4 DEF S
  <2>3. /\ rest \in Seq(Piece) /\ IsInjective(rest)
        /\ ToSet(rest) = {x \in Pieces(kind, before, steps, other) : PartOf(x) \notin Ch}
    <3> DEFINE S == {piece \in ToSet(s) : PartOf(piece) \notin Ch}
    <3> HIDE DEF S
    <3>2. rest \in Seq(Piece) /\ ToSet(rest) = {x \in ToSet(s) : x \in S} /\ IsInjective(rest)
      BY <1>1, <1>2, ThoseIs DEF S
    <3> HIDE DEF rest, s, kind, before, Ch
    <3>3. ToSet(rest) = S
      BY <3>2 DEF S
    <3> QED BY <1>2, <3>2, <3>3 DEF S
  <2> HIDE DEF fresh, rest
  <2>4. t \in Seq(Piece) /\ ToSet(t) = Pieces(kind, fresh, steps, other) /\ IsInjective(t)
    BY <2>2, MadeIs
  <2> HIDE DEF t
  <2>5. kind \in {"row by row", "joins", "groups by partition"}
    BY DEF May
  <2> HIDE DEF before, s, kind
  <2>6. IsInjective(rest \o t) /\ ToSet(rest \o t) = Pieces(kind, now, steps, other)
    <3>1. /\ ToSet(fresh) = {row \in ToSet(now) : row.part \in Changed(before, now)}
          /\ ToSet(rest) = {x \in Pieces(kind, before, steps, other) : PartOf(x) \notin Changed(before, now)}
      BY <2>2, <2>3
    <3>2. before \in Seq(Row) /\ now \in Seq(Row)
      BY <1>1
    <3>3. Renews(before, now, kind, steps, other, fresh, rest, t)
      BY <2>2, <2>3, <2>4, <2>5, <3>1, <3>2 DEF Renews
    <3> QED BY ONLY <3>3, PartitionRight
  <2> QED BY <2>1, <2>6 DEF t, kind
<1> QED BY <1>1, <1>3, <1>4 DEF ModeOfRun, BuildMode

\* Two sequences of the same elements, none of them twice, are as long.
LEMMA SameLength ==
    ASSUME NEW T, NEW s \in Seq(T), NEW t \in Seq(T), IsInjective(s), IsInjective(t), ToSet(s) = ToSet(t)
    PROVE  Len(s) = Len(t)
<1>1. ASSUME NEW a \in Seq(T), IsInjective(a) PROVE Cardinality(ToSet(a)) = Len(a)
  <2>1. Len(a) \in Nat /\ DOMAIN a = 1..Len(a)
    OBVIOUS
  <2>2. a \in Bijection(1..Len(a), ToSet(a))
    BY <1>1, <2>1 DEF Bijection, Injection, Surjection, IsInjective, ToSet
  <2>3. ExistsBijection(1..Len(a), ToSet(a))
    BY <2>2 DEF ExistsBijection
  <2> QED BY <2>1, <2>3, FS_CountingElements, FS_NatBijection
<1> QED BY <1>1

LEMMA RightIsAsFull ==
    ASSUME recipe.kind \in Kind, NEW r \in Make(Newest), RightRun(recipe.kind, r), ~r.mixed
    PROVE  Same(r.made, Made(r.read, r.steps, r.joined))
<1> DEFINE s == r.made
           t == Made(r.read, r.steps, r.joined)
<1>1. /\ s \in Seq(Piece) /\ r.read \in Seq(Row) /\ r.steps \in 0..MaxRevisions /\ r.joined \in 0..MaxRevisions
  BY DEF Make
<1>2. OneOfEach(r.read) /\ IsInjective(s) /\ ToSet(s) = Pieces(recipe.kind, r.read, r.steps, r.joined)
  BY DEF RightRun
<1>3. t \in Seq(Piece) /\ ToSet(t) = Pieces(recipe.kind, r.read, r.steps, r.joined) /\ IsInjective(t)
  BY <1>1, <1>2, MadeIs
<1> HIDE DEF s, t
<1>4. ToSet(s) = ToSet(t)
  BY <1>2, <1>3
<1>5. Len(s) = Len(t)
  BY ONLY <1>1, <1>2, <1>3, <1>4, SameLength
<1> QED BY <1>4, <1>5 DEF Same, s, t

-----------------------------------------------------------------------------
(***************************************************************************)
(* A run builds only on what was made of what it compares with.            *)
(***************************************************************************)

\* A record tells what its version held, until an erasure rewrites the files.
Faithful(r, held, none) == none /\ r.base # 0 => r.read = held[r.base]

Builds(m, kind, held, other, none) ==
    /\ m.at = "named" => m.file = Len(held)
    /\ m.at \in {"pinned"} \cup Reading => m.run.base = m.file
    /\ m.at \in {"named", "pinned"} => ~m.loaded
    /\ m.at \in Reading => m.run.joined = other
    /\ m.at \in Reading /\ (m.loaded \/ m.at = "applying") =>
         OneOfEach(m.run.read) /\ (none => m.run.read = held[m.file])
    /\ m.at \in {"before", "now"} => m.mode # "full"
    /\ m.at = "in full" => m.mode = "full"
    /\ m.at \in Reading /\ m.mode # "full" =>
         /\ m.prev.steps = m.run.steps /\ May(kind, m.mode, m.prev, other)
         /\ RightRun(kind, m.prev) /\ Faithful(m.prev, held, none)
    /\ m.at = "now" /\ none => m.before = m.prev.read
    /\ m.at = "applying" /\ m.mode # "full" =>
         /\ m.run.mixed \/ (m.before = m.prev.read /\ ~m.prev.mixed)
         /\ m.mode = "append" => IsPrefix(m.before, m.run.read)
    /\ m.at \in Finishing => RightRun(kind, m.run) /\ Faithful(m.run, held, none)

\* Each row is in a version once, and was numbered when its version came.
Numbers(held) ==
    \A n \in DOMAIN held : OneOfEach(held[n]) /\ \A i \in DOMAIN held[n] : held[n][i].id <= Len(held)

RightKept(k, held, none) == OneOfEach(k.frame) /\ (none => k.frame = held[k.of])

Rightly ==
    /\ Numbers(files)
    /\ \A k \in kept : RightKept(k, files, erasing.at = "none")
    /\ RightRun(recipe.kind, latest) /\ Faithful(latest, files, erasing.at = "none")
    /\ RightRun(recipe.kind, result)
    /\ \A q \in Maker : Builds(making[q], recipe.kind, files, joined, erasing.at = "none")

LEMMA NothingMade ==
    /\ \A kind : RightRun(kind, NoMake)
    /\ \A held, none : Faithful(NoMake, held, none)
    /\ \A kind, held, other, none : Builds(MakerRests, kind, held, other, none)
<1>1. ASSUME NEW kind PROVE RightRun(kind, NoMake)
  <2>1. ToSet(<<>>) = {} /\ IsInjective(<<>>) /\ OneOfEach(<<>>)
    BY DEF ToSet, IsInjective, OneOfEach
  <2>2. Sources(kind, <<>>) = {}
    BY <2>1 DEF Sources, PartsOf
  <2>3. Pieces(kind, <<>>, NoMake.steps, NoMake.joined) = {}
    BY <2>2 DEF Pieces
  <2> QED BY <2>1, <2>3 DEF RightRun, NoMake
<1>2. \A held, none : Faithful(NoMake, held, none)
  BY DEF Faithful, NoMake
<1>3. \A kind, held, other, none : Builds(MakerRests, kind, held, other, none)
  BY DEF Builds, MakerRests, Reading, Finishing
<1> QED BY <1>1, <1>2, <1>3

LEMMA RightlyIsEnough == ShapeOK /\ Rightly => AsAFullRun
<1> SUFFICES ASSUME ShapeOK, Rightly, ~result.mixed
             PROVE  Same(result.made, Made(result.read, result.steps, result.joined))
  BY DEF AsAFullRun
<1>1. recipe.kind \in Kind /\ result \in Make(Newest) /\ RightRun(recipe.kind, result)
  BY DEF ShapeOK, InputShape, MakesShape, Rightly
<1> QED BY <1>1, RightIsAsFull

LEMMA RightlyInit == IncrementalInit => Rightly
<1> SUFFICES ASSUME IncrementalInit PROVE Rightly
  OBVIOUS
<1>1. kept = {} /\ latest = NoMake /\ result = NoMake /\ making = [q \in Maker |-> MakerRests]
  BY DEF IncrementalInit
<1> DEFINE p == CHOOSE p \in Part : TRUE
           first == [id |-> 1, part |-> p, value |-> "hers"]
<1>2. files = << <<first>> >> /\ first.id = 1
  BY DEF IncrementalInit
<1> HIDE DEF first
<1>3. Numbers(files)
  BY <1>2 DEF Numbers, OneOfEach
<1> QED BY <1>1, <1>3, NothingMade DEF Rightly

LEMMA RightMakerMoves ==
    ASSUME Rightly, NEW q \in Maker, NEW rec,
           Builds(rec, recipe.kind, files, joined, erasing.at = "none"),
           UNCHANGED <<recipe, inputVars>>, making' = [making EXCEPT ![q] = rec],
           RightRun(recipe.kind, latest'), Faithful(latest', files, erasing.at = "none"),
           RightRun(recipe.kind, result'), \A k \in kept' : RightKept(k, files, erasing.at = "none")
    PROVE  Rightly'
<1>1. UNCHANGED <<recipe, files, joined, erasing>>
  BY DEF inputVars
<1>2. \A o \in Maker : Builds(making'[o], recipe'.kind, files', joined', erasing'.at = "none")
  <2> SUFFICES ASSUME NEW o \in Maker
               PROVE  Builds(making'[o], recipe'.kind, files', joined', erasing'.at = "none")
    OBVIOUS
  <2>1. Builds(making[o], recipe.kind, files, joined, erasing.at = "none")
    BY DEF Rightly
  <2>2. making'[o] = making[o] \/ making'[o] = rec
    OBVIOUS
  <2> QED BY <1>1, <2>1, <2>2
<1> QED BY <1>1, <1>2 DEF Rightly

LEMMA RightMakerStep ==
    ASSUME ShapeOK, Rightly, NEW q \in Maker, MakeStep(q) \/ MakerStops(q)
    PROVE  Rightly'
<1> DEFINE m == making[q]
           kind == recipe.kind
           none == erasing.at = "none"
           Fits(rec) == Builds(rec, kind, files, joined, none)
           Records == /\ RightRun(kind, latest) /\ Faithful(latest, files, none) /\ RightRun(kind, result)
                      /\ \A k \in kept : RightKept(k, files, none)
<1>0. /\ m \in Going(Newest) /\ HasFiles(m) /\ Newest \in 1..Newest /\ kind \in Kind
      /\ joined \in 0..MaxRevisions /\ Records /\ latest \in Make(Newest)
  <2>1. m \in Going(Newest) /\ HasFiles(m) /\ kind \in Kind /\ latest \in Make(Newest)
    BY DEF ShapeOK, MakesShape, InputShape
  <2>2. /\ Newest \in 1..(revisions + 1) /\ revisions \in 0..MaxRevisions /\ MaxRevisions \in Nat
        /\ joined \in 0..revisions
    BY IncrementalAssumption DEF ShapeOK, InputShape
  <2>3. Newest \in 1..Newest /\ joined \in 0..MaxRevisions
    BY <2>2
  <2>4. Records
    BY DEF Rightly
  <2> QED BY <2>1, <2>3, <2>4
<1>1. /\ m.run \in Make(Newest) /\ m.prev \in Make(Newest) /\ m.run.read \in Seq(Row)
      /\ m.run.steps \in 0..MaxRevisions /\ m.run.joined \in 0..MaxRevisions /\ m.mode \in ModeOfRun
  BY <1>0 DEF Going, Make
<1>2. Fits(m) /\ Fits(MakerRests)
  BY NothingMade DEF Rightly
<1>3. ASSUME NEW rec, Fits(rec), making' = [making EXCEPT ![q] = rec], KeepsInput,
             RightRun(kind, latest'), Faithful(latest', files, none), RightRun(kind, result'),
             \A k \in kept' : RightKept(k, files, none)
      PROVE  Rightly'
  BY <1>3, RightMakerMoves DEF KeepsInput
<1>15. ASSUME NEW rec, Fits(rec), making' = [making EXCEPT ![q] = rec], KeepsInput,
              UNCHANGED <<latest, result, kept>>
       PROVE  Rightly'
  BY <1>0, <1>3, <1>15
<1> HIDE DEF m, kind, none, Fits
<1>4. ASSUME m.at \in Numbered
      PROVE  /\ m.file \in DOMAIN files /\ m.file # 0
             /\ OneOfEach(files[m.file]) /\ files[m.file] \in Seq(Row)
  <2>1. m.file \in 1..Newest /\ DOMAIN files = 1..Newest
    BY <1>0, <1>4 DEF HasFiles, Going, ShapeOK, InputShape, Newest
  <2> QED BY <2>1 DEF Rightly, Numbers, ShapeOK, InputShape
<1>5. CASE StartMake(q)
  <2> DEFINE run == [NoMake EXCEPT !.steps = recipe.steps, !.after = erasing.at = "done"]
             rec == [MakerRests EXCEPT !.at = "named", !.file = Newest, !.run = run]
  <2>1. /\ making' = [making EXCEPT ![q] = rec] /\ UNCHANGED <<latest, result, kept>>
        /\ UNCHANGED <<recipe, inputVars>>
    BY <1>5 DEF StartMake
  <2>2. rec.at = "named" /\ ~rec.loaded /\ rec.file = Newest
    BY DEF MakerRests, NoMake
  <2> HIDE DEF rec
  <2>3. Fits(rec)
    BY <2>2 DEF Fits, Builds, Reading, Finishing, Newest
  <2>4. /\ RightRun(recipe.kind, latest') /\ Faithful(latest', files, erasing.at = "none")
        /\ RightRun(recipe.kind, result') /\ \A k \in kept' : RightKept(k, files, erasing.at = "none")
    BY <1>0, <2>1 DEF kind, none
  <2> QED BY <2>1, <2>3, <2>4, RightMakerMoves DEF Fits, kind, none
<1>6. CASE PinBase(q)
  <2> DEFINE rec == [m EXCEPT !.at = "pinned", !.run.base = HeadPin]
  <2>1. making' = [making EXCEPT ![q] = rec] /\ KeepsInput /\ UNCHANGED <<latest, result, kept>> /\ m.at = "named"
    BY <1>6 DEF PinBase, MakerAt, m
  <2>2. rec.at = "pinned" /\ rec.run.base = Newest /\ rec.loaded = m.loaded /\ rec.file = m.file
    BY <1>0, <1>1 DEF Going, Make, HeadPin
  <2> HIDE DEF rec
  <2>3. Fits(rec)
    BY <1>2, <2>1, <2>2 DEF Fits, Builds, Reading, Finishing, Newest
  <2> QED BY <1>15, <2>1, <2>3
<1>7. CASE Decide(q)
  <2> DEFINE inc == recipe.mode # "full" /\ Incremental(m.run)
             at == IF inc THEN "before" ELSE "in full"
             mode == IF inc THEN recipe.mode ELSE "full"
             prev == IF inc THEN latest ELSE NoMake
             run == [m.run EXCEPT !.full = ~inc, !.joined = joined]
             rec == [m EXCEPT !.at = at, !.mode = mode, !.prev = prev, !.run = run, !.hash = Identity(m.file)]
  <2>1. KeepsInput /\ UNCHANGED <<latest, result, kept>> /\ m.at = "pinned"
    BY <1>7 DEF Decide, MakerAt, m
  <2>2. making' = [making EXCEPT ![q] = rec]
    BY <1>7 DEF Decide, m
  <2>3. CASE inc
    <3>1. /\ rec.at = "before" /\ rec.mode = recipe.mode /\ rec.mode # "full" /\ rec.prev = latest
          /\ rec.loaded = m.loaded /\ rec.file = m.file
          /\ rec.run.joined = joined /\ rec.run.base = m.run.base /\ rec.run.steps = m.run.steps
      BY <1>0, <1>1, <2>3 DEF Going, Make
    <3>2. latest.steps = m.run.steps /\ May(kind, recipe.mode, latest, joined)
      BY <1>0, <2>3, MayIs DEF Incremental, kind
    <3> HIDE DEF rec
    <3>3. ~m.loaded /\ m.run.base = m.file
      BY <1>2, <2>1 DEF Fits, Builds
    <3>4. Fits(rec)
      BY <1>0, <3>1, <3>2, <3>3 DEF Fits, Builds, Reading, Finishing
    <3> QED BY <1>15, <2>1, <2>2, <3>4
  <2>4. CASE ~inc
    <3>1. /\ rec.at = "in full" /\ rec.mode = "full"
          /\ rec.loaded = m.loaded /\ rec.file = m.file
          /\ rec.run.joined = joined /\ rec.run.base = m.run.base
      BY <1>0, <1>1, <2>4 DEF Going, Make
    <3> HIDE DEF rec
    <3>3. ~m.loaded /\ m.run.base = m.file
      BY <1>2, <2>1 DEF Fits, Builds
    <3>4. Fits(rec)
      BY <3>1, <3>3 DEF Fits, Builds, Reading, Finishing
    <3> QED BY <1>15, <2>1, <2>2, <3>4
  <2> QED BY <2>3, <2>4
<1>8. CASE ReadBefore(q)
  <2> DEFINE rec == [m EXCEPT !.at = "now", !.before = files[m.prev.base]]
  <2>1. making' = [making EXCEPT ![q] = rec] /\ KeepsInput /\ UNCHANGED <<latest, result, kept>> /\ m.at = "before"
    BY <1>8 DEF ReadBefore, MakerAt, m
  <2>2. /\ rec.at = "now" /\ rec.run = m.run /\ rec.mode = m.mode /\ rec.prev = m.prev
        /\ rec.file = m.file /\ rec.loaded = m.loaded /\ rec.before = files[m.prev.base]
    BY <1>0 DEF Going
  <2> HIDE DEF rec
  <2>3. m.prev.base # 0 /\ m.mode # "full"
    BY <1>0, <1>2, <2>1 DEF HasFiles, Fits, Builds
  <2>4. none => files[m.prev.base] = m.prev.read
    BY <1>2, <2>1, <2>3 DEF Fits, Builds, Reading, Faithful
  <2>5. Fits(rec)
    BY <1>2, <2>1, <2>2, <2>4 DEF Fits, Builds, Reading, Finishing
  <2> QED BY <1>15, <2>1, <2>5
<1>9. CASE ReadNow(q)
  <2> DEFINE now == files[m.file]
             apart == m.mode = "append" /\ ~OnlyAdded(m.before, now)
             mixes == ~apart /\ (m.prev.mixed \/ (erasing.at # "none" /\ m.before # m.prev.read))
             run == [m.run EXCEPT !.full = apart, !.read = now, !.mixed = mixes]
             rec == [m EXCEPT !.at = IF apart THEN "in full" ELSE "applying",
                              !.mode = IF apart THEN "full" ELSE m.mode,
                              !.run = run, !.loaded = TRUE]
  <2>1. KeepsInput /\ UNCHANGED <<latest, result, kept>> /\ m.at = "now"
    BY <1>9 DEF ReadNow, MakerAt, m
  <2>2. making' = [making EXCEPT ![q] = rec]
    BY <1>9 DEF ReadNow, m
  <2>3. OneOfEach(now)
    BY <1>4, <2>1 DEF Numbered, Reading
  <2>4. ~apart /\ ~mixes => m.before = m.prev.read /\ ~m.prev.mixed
    BY <1>2, <2>1 DEF Fits, Builds, none
  <2>5. ~apart /\ m.mode = "append" => IsPrefix(m.before, now)
    BY DEF OnlyAdded
  <2>12. apart \in BOOLEAN /\ mixes \in BOOLEAN
    BY <1>1 DEF Make
  <2> HIDE DEF apart, mixes, now
  <2>6. /\ run.read = now /\ run.mixed = mixes /\ run.joined = m.run.joined /\ run.base = m.run.base
        /\ run.steps = m.run.steps
    BY <1>1 DEF Make
  <2> HIDE DEF run
  <2>7. /\ rec.at = IF apart THEN "in full" ELSE "applying"
        /\ rec.mode = IF apart THEN "full" ELSE m.mode
        /\ rec.run = run /\ rec.file = m.file /\ rec.prev = m.prev /\ rec.before = m.before
    BY <1>0 DEF Going
  <2> HIDE DEF rec
  <2>8. /\ m.run.base = m.file /\ m.run.joined = joined /\ m.mode # "full"
        /\ m.prev.steps = m.run.steps /\ May(kind, m.mode, m.prev, joined)
        /\ RightRun(kind, m.prev) /\ Faithful(m.prev, files, none)
    BY <1>2, <2>1 DEF Fits, Builds, Reading
  <2>9. CASE apart
    <3>1. rec.at = "in full" /\ rec.mode = "full"
      BY <2>7, <2>9
    <3>2. Fits(rec)
      BY <2>3, <2>6, <2>7, <2>8, <3>1 DEF Fits, Builds, Reading, Finishing, now
    <3> QED BY <1>15, <2>1, <2>2, <3>2
  <2>10. CASE ~apart
    <3>1. rec.at = "applying" /\ rec.mode = m.mode
      BY <2>7, <2>10
    <3>3. mixes \/ (m.before = m.prev.read /\ ~m.prev.mixed)
      BY <2>4, <2>10
    <3>2. Fits(rec)
      BY <2>3, <2>5, <2>6, <2>7, <2>8, <2>10, <3>1, <3>3 DEF Fits, Builds, Reading, Finishing, now
    <3> QED BY <1>15, <2>1, <2>2, <3>2
  <2> QED BY <2>9, <2>10
<1>10. CASE ReadInFull(q)
  <2> DEFINE there == {k \in kept : k.of = m.file /\ k.hash = m.hash}
             rec(read) == [m EXCEPT !.at = "applying", !.run.read = read]
  <2>1. m.at = "in full"
    BY <1>10 DEF ReadInFull, MakerAt, m
  <2>2. KeepsInput /\ UNCHANGED <<latest, result>>
    BY <1>10 DEF ReadInFull
  <2>3. PICK read : /\ making' = [making EXCEPT ![q] = rec(read)]
                    /\ \/ (\E k \in there : read = k.frame) /\ UNCHANGED kept
                       \/ /\ read \in {files[m.file]} \cup (IF m.loaded THEN {m.run.read} ELSE {})
                          /\ kept' = (kept \ there) \cup {[of |-> m.file, hash |-> m.hash, frame |-> read]}
    <3>1. CASE \E k \in there : /\ making' = [making EXCEPT ![q] = rec(k.frame)]
                                 /\ UNCHANGED kept
      BY <3>1
    <3>2. CASE \E read \in {files[m.file]} \cup (IF m.loaded THEN {m.run.read} ELSE {}) :
                 /\ making' = [making EXCEPT ![q] = rec(read)]
                 /\ kept' = (kept \ there) \cup {[of |-> m.file, hash |-> m.hash, frame |-> read]}
      BY <3>2
    <3> QED BY <1>10, <3>1, <3>2 DEF ReadInFull, m
  <2>4. /\ m.run.base = m.file /\ m.run.joined = joined /\ m.mode = "full"
        /\ m.loaded => OneOfEach(m.run.read) /\ (none => m.run.read = files[m.file])
    BY <1>2, <2>1 DEF Fits, Builds, Reading
  <2>5. OneOfEach(files[m.file])
    BY <1>4, <2>1 DEF Numbered, Reading
  <2>6. OneOfEach(read) /\ (none => read = files[m.file])
    BY <1>0, <2>3, <2>4, <2>5 DEF RightKept
  <2>7. \A k \in kept' : RightKept(k, files, none)
    BY <1>0, <2>3, <2>6 DEF RightKept
  <2>8. /\ rec(read).at = "applying" /\ rec(read).run.read = read
        /\ rec(read).run.base = m.run.base /\ rec(read).run.joined = m.run.joined
        /\ rec(read).mode = m.mode /\ rec(read).file = m.file
    BY <1>0, <1>1 DEF Going, Make
  <2> HIDE DEF rec
  <2>9. Fits(rec(read))
    BY <2>4, <2>6, <2>8 DEF Fits, Builds, Reading, Finishing
  <2> QED BY <1>0, <1>3, <2>2, <2>3, <2>7, <2>9
<1>11. CASE Apply(q)
  <2> DEFINE now == m.run.read
             rows == IF m.mode = "full" THEN now ELSE Fresh(m, now)
             other == IF rows = <<>> THEN m.run.joined ELSE joined
             remains == IF m.mode = "full" THEN <<>> ELSE Remains(m, now)
             out == remains \o Made(rows, m.run.steps, other)
             run == [m.run EXCEPT !.joined = other, !.made = out]
             ends == [MakerRests EXCEPT !.at = "publishing", !.run = run]
             again == [m.run EXCEPT !.full = TRUE, !.mixed = FALSE]
             redo == [m EXCEPT !.at = "in full", !.mode = "full", !.prev = NoMake,
                               !.before = <<>>, !.run = again]
  <2>1. /\ m.at = "applying" /\ KeepsInput /\ UNCHANGED <<latest, result, kept>>
        /\ making' = [making EXCEPT ![q] = ends] \/ making' = [making EXCEPT ![q] = redo]
    BY <1>11 DEF Apply, MakerAt, m
  <2>2. /\ m.run.base = m.file /\ m.run.joined = joined
        /\ OneOfEach(now) /\ (none => now = files[m.file])
        /\ m.mode # "full" =>
             /\ m.prev.steps = m.run.steps /\ May(kind, m.mode, m.prev, joined)
             /\ RightRun(kind, m.prev)
             /\ m.run.mixed \/ (m.before = m.prev.read /\ ~m.prev.mixed)
             /\ m.mode = "append" => IsPrefix(m.before, now)
    BY <1>2, <2>1 DEF Fits, Builds, Reading
  <2>3. other = joined
    BY <2>2
  <2>4. m.run.mixed \/ (IsInjective(out) /\ ToSet(out) = Pieces(kind, now, m.run.steps, joined))
    <3>1. CASE m.mode = "full"
      <4> DEFINE made1 == Made(now, m.run.steps, joined)
      <4>1. made1 \in Seq(Piece) /\ ToSet(made1) = Pieces(kind, now, m.run.steps, joined) /\ IsInjective(made1)
        BY <1>0, <1>1, <2>2, MadeIs DEF kind
      <4>2. remains = <<>> /\ rows = now
        BY <3>1
      <4>3. \A s \in Seq(Piece) : <<>> \o s = s
        OBVIOUS
      <4>4. out = <<>> \o made1
        BY <2>3, <4>2
      <4> HIDE DEF made1, out, now
      <4> QED BY <4>1, <4>3, <4>4
    <3>2. CASE m.mode # "full" /\ ~m.run.mixed
      <4>1. out = Remains(m, now) \o Made(Fresh(m, now), m.run.steps, joined)
        BY <2>3, <3>2
      <4>2. /\ m.prev.steps = m.run.steps /\ May(recipe.kind, m.mode, m.prev, joined)
            /\ RightRun(recipe.kind, m.prev) /\ ~m.prev.mixed /\ m.before = m.prev.read
            /\ m.mode = "append" => IsPrefix(m.before, now)
        BY <2>2, <3>2 DEF kind
      <4>3. recipe.kind \in Kind /\ now \in Seq(Row) /\ OneOfEach(now)
        BY <1>0, <1>1, <2>2 DEF kind
      <4> HIDE DEF now, out
      <4>4. LET o == Remains(m, now) \o Made(Fresh(m, now), m.run.steps, joined)
            IN IsInjective(o) /\ ToSet(o) = Pieces(recipe.kind, now, m.run.steps, joined)
        BY <1>0, <1>1, <3>2, <4>2, <4>3, MergedRight
      <4> QED BY <4>1, <4>4 DEF kind
    <3> QED BY <3>1, <3>2
  <2> HIDE DEF out, other
  <2>5. /\ run.read = now /\ run.base = m.run.base /\ run.steps = m.run.steps /\ run.joined = other
        /\ run.made = out /\ run.mixed = m.run.mixed
    BY <1>1 DEF Make
  <2> HIDE DEF run, now
  <2>6. RightRun(kind, run) /\ Faithful(run, files, none)
    BY <2>2, <2>3, <2>4, <2>5 DEF RightRun, Faithful
  <2>7. ends.at = "publishing" /\ ends.run = run
    BY DEF MakerRests
  <2>8. again.base = m.run.base /\ again.joined = m.run.joined /\ again.read = now
    BY <1>1 DEF Make, now
  <2> HIDE DEF again
  <2>9. redo.at = "in full" /\ redo.mode = "full" /\ redo.file = m.file /\ redo.run = again
    BY <1>0 DEF Going
  <2> HIDE DEF ends, redo
  <2>10. Fits(ends)
    BY <2>6, <2>7 DEF Fits, Builds, Reading, Finishing
  <2>11. Fits(redo)
    BY <2>2, <2>8, <2>9 DEF Fits, Builds, Reading, Finishing
  <2> QED BY <1>15, <2>1, <2>10, <2>11
<1>12. CASE PublishMade(q)
  <2> DEFINE rec == [m EXCEPT !.at = "recording"]
  <2>1. /\ making' = [making EXCEPT ![q] = rec] /\ KeepsInput /\ UNCHANGED <<latest, kept>>
        /\ result' = m.run /\ m.at = "publishing"
    BY <1>12 DEF PublishMade, MakerAt, m
  <2>2. rec.at = "recording" /\ rec.run = m.run
    BY <1>0 DEF Going
  <2> HIDE DEF rec
  <2>3. RightRun(kind, m.run) /\ Faithful(m.run, files, none)
    BY <1>2, <2>1 DEF Fits, Builds, Finishing
  <2>4. Fits(rec)
    BY <2>2, <2>3 DEF Fits, Builds, Reading, Finishing
  <2> QED BY <1>0, <1>3, <2>1, <2>3, <2>4
<1>13. CASE RecordMade(q)
  <2>1. /\ making' = [making EXCEPT ![q] = MakerRests] /\ KeepsInput /\ UNCHANGED <<result, kept>>
        /\ latest' = m.run /\ m.at = "recording"
    BY <1>13 DEF RecordMade, MakerAt, m
  <2>2. RightRun(kind, m.run) /\ Faithful(m.run, files, none)
    BY <1>2, <2>1 DEF Fits, Builds, Finishing
  <2> QED BY <1>0, <1>2, <1>3, <2>1, <2>2
<1>14. CASE MakerStops(q)
  <2>1. making' = [making EXCEPT ![q] = MakerRests] /\ UNCHANGED <<latest, result, kept>> /\ UNCHANGED <<recipe, inputVars>>
    BY <1>14 DEF MakerStops
  <2>2. /\ RightRun(recipe.kind, latest') /\ Faithful(latest', files, erasing.at = "none")
        /\ RightRun(recipe.kind, result') /\ \A k \in kept' : RightKept(k, files, erasing.at = "none")
    BY <1>0, <2>1 DEF kind, none
  <2> QED BY <1>2, <2>1, <2>2, RightMakerMoves DEF Fits, kind, none
<1> QED
  BY <1>5, <1>6, <1>7, <1>8, <1>9, <1>10, <1>11, <1>12, <1>13, <1>14 DEF MakeStep

\* Steps that leave the records of runs alone: files that a run may have read are the same
\* until an erasure begins.
LEMMA RightOthers ==
    ASSUME ShapeOK, Rightly, UNCHANGED <<latest, result, kept>>, making' = making,
           recipe'.kind = recipe.kind, Numbers(files'),
           erasing'.at = "none" => erasing.at = "none" /\ \A n \in DOMAIN files : files'[n] = files[n],
           joined' = joined \/ \A q \in Maker : making[q].at \in {"idle"} \cup Finishing,
           Newest' = Newest \/ \A q \in Maker : making[q].at # "named"
    PROVE  Rightly'
<1> DEFINE none == erasing.at = "none"
           then == erasing'.at = "none"
           kind == recipe.kind
<1>0. /\ DOMAIN files = 1..Newest
      /\ then => none /\ \A n \in DOMAIN files : files'[n] = files[n]
  BY DEF ShapeOK, InputShape, Newest
<1> HIDE DEF none, then
<1>1. ASSUME NEW r \in Make(Newest), Faithful(r, files, none) PROVE Faithful(r, files', then)
  <2>1. r.base # 0 => r.base \in DOMAIN files
    BY <1>0, <1>1 DEF Make
  <2> QED BY <1>0, <1>1, <2>1 DEF Faithful
<1>2. ASSUME NEW q \in Maker PROVE Builds(making[q], kind, files', joined', then)
  <2> DEFINE m == making[q]
  <2>1. Builds(m, kind, files, joined, none)
    BY DEF Rightly, none
  <2>2. /\ m.at \in Reading => m.file \in DOMAIN files
        /\ m.run \in Make(Newest) /\ m.prev \in Make(Newest)
    BY <1>0 DEF ShapeOK, MakesShape, Going, HasFiles, Numbered
  <2>3. /\ joined' = joined \/ m.at \in {"idle"} \cup Finishing
        /\ Newest' = Newest \/ m.at # "named"
    OBVIOUS
  <2> HIDE DEF m, kind
  <2>4. /\ Faithful(m.prev, files, none) => Faithful(m.prev, files', then)
        /\ Faithful(m.run, files, none) => Faithful(m.run, files', then)
    BY <1>1, <2>2
  <2>5. /\ m.at = "named" => m.file = Len(files')
    BY <2>1, <2>3 DEF Builds, Newest
  <2>6. m.at \in Reading => joined' = joined /\ (then => none /\ files'[m.file] = files[m.file])
    BY <1>0, <2>2, <2>3 DEF Reading, Finishing
  <2>7. m.at = "now" \/ m.at = "applying" => m.at \in Reading
    BY DEF Reading
  <2>8. then => none
    BY <1>0
  <2>9. Builds(m, kind, files', joined', then)
    BY <2>1, <2>4, <2>5, <2>6, <2>7, <2>8 DEF Builds
  <2> QED BY <2>9 DEF m
<1>3. ASSUME NEW k \in kept PROVE RightKept(k, files', then)
  <2>1. RightKept(k, files, none) /\ k.of \in DOMAIN files
    BY <1>0 DEF Rightly, ShapeOK, MakesShape, Keeping, none
  <2> QED BY <1>0, <2>1 DEF RightKept
<1>4. RightRun(kind, latest) /\ Faithful(latest, files', then) /\ RightRun(kind, result)
  BY <1>1 DEF Rightly, ShapeOK, MakesShape, none
<1> QED BY <1>2, <1>3, <1>4 DEF Rightly, then

LEMMA NumbersChanged ==
    ASSUME NEW rows \in Seq(Row), OneOfEach(rows), \A i \in DOMAIN rows : rows[i].id <= Newest,
           Newest \in Nat, NEW changed \in Changes(rows)
    PROVE  OneOfEach(changed) /\ \A i \in DOMAIN changed : changed[i].id <= Newest + 1
<1>0. \A i \in DOMAIN rows : rows[i] \in Row /\ rows[i].id \in Nat /\ rows[i].id <= Newest + 1 /\ rows[i].id # Newest + 1
  <2> SUFFICES ASSUME NEW i \in DOMAIN rows
               PROVE  rows[i] \in Row /\ rows[i].id \in Nat /\ rows[i].id <= Newest + 1 /\ rows[i].id # Newest + 1
    OBVIOUS
  <2>1. rows[i] \in Row /\ rows[i].id <= Newest
    OBVIOUS
  <2>2. rows[i].id \in Nat
    BY <2>1, IncrementalAssumption DEF Row
  <2> QED BY <2>1, <2>2
<1>1. CASE \E p \in Part : changed = Append(rows, [id |-> Newest + 1, part |-> p, value |-> "plain"])
  <2>1. PICK p \in Part : changed = Append(rows, [id |-> Newest + 1, part |-> p, value |-> "plain"])
    BY <1>1
  <2> DEFINE new == [id |-> Newest + 1, part |-> p, value |-> "plain"]
  <2>2. new.id = Newest + 1 /\ changed = Append(rows, new)
    BY <2>1
  <2> HIDE DEF new
  <2>3. /\ \A i \in DOMAIN changed : (i \notin DOMAIN rows /\ i = Len(rows) + 1 /\ changed[i] = new)
                                     \/ (i \in DOMAIN rows /\ changed[i] = rows[i])
    BY <2>2
  <2>4. \A i \in DOMAIN changed : changed[i].id <= Newest + 1
    BY <1>0, <2>2, <2>3
  <2>5. ASSUME NEW i \in DOMAIN changed, NEW j \in DOMAIN changed, changed[i].id = changed[j].id PROVE i = j
    BY <1>0, <2>2, <2>3, <2>5 DEF OneOfEach
  <2> QED BY <2>4, <2>5 DEF OneOfEach
<1>2. CASE \E i \in DOMAIN rows : changed = [rows EXCEPT ![i].value = "changed"]
  <2>1. PICK i \in DOMAIN rows : changed = [rows EXCEPT ![i].value = "changed"]
    BY <1>2
  <2>2. [rows[i] EXCEPT !.value = "changed"].id = rows[i].id
    BY <1>0 DEF Row
  <2>3. changed = [rows EXCEPT ![i] = [rows[i] EXCEPT !.value = "changed"]]
    BY <2>1
  <2>4. DOMAIN changed = DOMAIN rows /\ \A j \in DOMAIN changed : changed[j].id = rows[j].id
    BY <2>2, <2>3
  <2> QED BY <1>0, <2>4 DEF OneOfEach
<1> QED BY <1>1, <1>2 DEF Changes

LEMMA NumbersRedacted ==
    ASSUME NEW rows \in Seq(Row)
    PROVE  /\ DOMAIN Redacted(rows) = DOMAIN rows
           /\ \A i \in DOMAIN rows : Redacted(rows)[i].id = rows[i].id
<1>1. \A i \in DOMAIN rows : rows[i] \in Row
  OBVIOUS
<1>2. ASSUME NEW i \in DOMAIN rows PROVE Redacted(rows)[i].id = rows[i].id
  <2>1. [rows[i] EXCEPT !.value = "erased"].id = rows[i].id
    BY <1>1 DEF Row
  <2> QED BY <2>1 DEF Redacted
<1>3. DOMAIN Redacted(rows) = DOMAIN rows
  BY DEF Redacted
<1> QED BY <1>2, <1>3

LEMMA RightOtherStep ==
    ASSUME PublishMeanwhile = FALSE, ShapeOK, Rightly,
           \/ InputChanges \/ JoinedChanges \/ (\E mode \in ModeOfRun : EditRecipe(mode))
           \/ PruneLatest \/ BeginErasure \/ RewriteFile \/ CommitErasure
    PROVE  Rightly'
<1>0. /\ DOMAIN files = 1..Newest /\ Newest \in 1..Newest /\ Newest \in Nat
      /\ \A n \in 1..Newest : files[n] \in Seq(Row)
      /\ Numbers(files)
  <2>1. Newest \in 1..(revisions + 1) /\ revisions \in Nat
    BY IncrementalAssumption DEF ShapeOK, InputShape
  <2>2. Newest \in 1..Newest /\ Newest \in Nat
    BY <2>1
  <2> QED BY <2>2 DEF ShapeOK, InputShape, Newest, Rightly
<1>1. CASE InputChanges
  <2>1. PICK rows \in Changes(files[Newest]) \cup {files[n] : n \in 1..(Newest - 1)} : NewVersion(rows)
    BY <1>1 DEF InputChanges
  <2>2. /\ UNCHANGED <<recipe, joined, erasing, latest, result, kept>> /\ making' = making
        /\ files' = Append(files, rows)
        /\ \A q \in Maker : making[q].at # "named"
    BY <2>1 DEF NewVersion, MakerAt
  <2>3. \A n \in 1..Newest : OneOfEach(files[n]) /\ \A i \in DOMAIN files[n] : files[n][i].id <= Newest
    BY <1>0 DEF Numbers, Newest
  <2>4. \A n \in 1..Newest : \A i \in DOMAIN files[n] : files[n][i].id <= Newest + 1
    <3> SUFFICES ASSUME NEW n \in 1..Newest, NEW i \in DOMAIN files[n] PROVE files[n][i].id <= Newest + 1
      OBVIOUS
    <3>1. files[n] \in Seq(Row)
      BY <1>0
    <3>2. files[n][i] \in Row /\ files[n][i].id <= Newest
      BY <2>3, <3>1
    <3>3. files[n][i].id \in Nat
      BY <3>2, IncrementalAssumption DEF Row
    <3> QED BY <1>0, <3>2, <3>3
  <2>5. OneOfEach(rows) /\ \A i \in DOMAIN rows : rows[i].id <= Newest + 1
    <3>1. CASE rows \in Changes(files[Newest])
      <4>1. /\ files[Newest] \in Seq(Row) /\ OneOfEach(files[Newest])
            /\ \A i \in DOMAIN files[Newest] : files[Newest][i].id <= Newest
        BY <1>0, <2>3
      <4> QED BY <1>0, <3>1, <4>1, NumbersChanged
    <3>2. CASE rows \in {files[n] : n \in 1..(Newest - 1)}
      <4>1. 1..(Newest - 1) \subseteq 1..Newest
        BY <1>0
      <4> QED BY <2>3, <2>4, <3>2, <4>1
    <3> QED BY <2>1, <3>1, <3>2
  <2>6. /\ DOMAIN files' = 1..(Newest + 1) /\ Len(files') = Newest + 1 /\ files'[Newest + 1] = rows
        /\ \A n \in 1..Newest : files'[n] = files[n]
        /\ \A n \in 1..(Newest + 1) : n \in 1..Newest \/ n = Newest + 1
    BY <1>0, <2>2 DEF ShapeOK, InputShape, Newest
  <2>7. Numbers(files')
    <3> SUFFICES ASSUME NEW n \in 1..(Newest + 1)
                 PROVE  OneOfEach(files'[n]) /\ \A i \in DOMAIN files'[n] : files'[n][i].id <= Newest + 1
      BY <2>6 DEF Numbers
    <3>1. CASE n \in 1..Newest
      BY <2>3, <2>4, <2>6, <3>1
    <3>2. CASE n = Newest + 1
      BY <2>5, <2>6, <3>2
    <3> QED BY <2>6, <3>1, <3>2
  <2> QED BY <1>0, <2>2, <2>6, <2>7, RightOthers
<1>2. CASE JoinedChanges
  <2>1. /\ UNCHANGED <<recipe, files, erasing, latest, result, kept>> /\ making' = making
        /\ \A q \in Maker : making[q].at \in {"idle"} \cup Finishing
    BY <1>2 DEF JoinedChanges, Finishing
  <2> QED BY <1>0, <2>1, RightOthers DEF Newest
<1>3. CASE \E mode \in ModeOfRun : EditRecipe(mode)
  <2>1. /\ UNCHANGED <<files, joined, erasing, latest, result, kept>> /\ making' = making
        /\ \E mode : recipe' = [recipe EXCEPT !.steps = revisions + 1] \/ recipe' = [recipe EXCEPT !.mode = mode]
    BY <1>3 DEF EditRecipe, inputVars
  <2>2. recipe'.kind = recipe.kind
    BY <2>1 DEF ShapeOK, InputShape
  <2> QED BY <1>0, <2>1, <2>2, RightOthers DEF Newest
<1>4. CASE PruneLatest
  <2>1. /\ UNCHANGED <<recipe, files, joined, erasing, result, kept>> /\ latest' = NoMake
        /\ making' = [q \in Maker |-> IF making[q].at \in {"before", "now"} THEN MakerRests ELSE making[q]]
    BY <1>4 DEF PruneLatest, inputVars
  <2>2. \A q \in Maker : Builds(making'[q], recipe'.kind, files', joined', erasing'.at = "none")
    <3> SUFFICES ASSUME NEW q \in Maker
                 PROVE  Builds(making'[q], recipe'.kind, files', joined', erasing'.at = "none")
      OBVIOUS
    <3>1. making'[q] = MakerRests \/ making'[q] = making[q]
      BY <2>1
    <3>2. /\ Builds(making[q], recipe.kind, files, joined, erasing.at = "none")
          /\ Builds(MakerRests, recipe.kind, files, joined, erasing.at = "none")
      BY NothingMade DEF Rightly
    <3> QED BY <2>1, <3>1, <3>2
  <2> QED BY <2>1, <2>2, NothingMade DEF Rightly
<1>5. CASE BeginErasure
  <2>1. /\ UNCHANGED <<recipe, files, joined, latest, result, kept>> /\ making' = making
        /\ erasing'.at = "rewriting"
    BY <1>5 DEF BeginErasure
  <2> QED BY <1>0, <2>1, RightOthers DEF Newest
<1>6. CASE RewriteFile
  <2>1. /\ erasing.left # {} /\ erasing.at = "rewriting" /\ erasing' = [erasing EXCEPT !.left = @ \ {NextToErase}]
        /\ files' = [files EXCEPT ![NextToErase] = Redacted(@)]
        /\ UNCHANGED <<recipe, joined, latest, result, kept>> /\ making' = making
    BY <1>6 DEF RewriteFile, NextToErase
  <2>2. NextToErase \in 1..Newest
    BY <2>1, OneToErase
  <2>3. /\ DOMAIN files' = DOMAIN files /\ files'[NextToErase] = Redacted(files[NextToErase])
        /\ \A n \in DOMAIN files : n # NextToErase => files'[n] = files[n]
        /\ Len(files') = Newest
    BY <1>0, <2>1, <2>2 DEF ShapeOK, InputShape, Newest
  <2>4. erasing'.at = "rewriting"
    BY <2>1 DEF ShapeOK, InputShape
  <2>5. Numbers(files')
    <3> SUFFICES ASSUME NEW n \in 1..Newest
                 PROVE  OneOfEach(files'[n]) /\ \A i \in DOMAIN files'[n] : files'[n][i].id <= Newest
      BY <1>0, <2>3 DEF Numbers
    <3>1. OneOfEach(files[n]) /\ \A i \in DOMAIN files[n] : files[n][i].id <= Newest
      BY <1>0 DEF Numbers, Newest
    <3>2. CASE n = NextToErase
      <4>1. /\ DOMAIN files'[n] = DOMAIN files[n]
            /\ \A i \in DOMAIN files[n] : files'[n][i].id = files[n][i].id
        BY <1>0, <2>2, <2>3, <3>2, NumbersRedacted
      <4> QED BY <3>1, <4>1 DEF OneOfEach
    <3>3. CASE n # NextToErase
      BY <1>0, <2>3, <3>1, <3>3
    <3> QED BY <3>2, <3>3
  <2> QED BY <2>1, <2>3, <2>4, <2>5, RightOthers DEF Newest
<1>7. CASE CommitErasure
  <2>1. /\ UNCHANGED <<recipe, files, joined, latest, result, kept>> /\ making' = making
        /\ erasing' = [erasing EXCEPT !.at = "done"]
    BY <1>7 DEF CommitErasure
  <2>2. erasing'.at = "done"
    BY <2>1 DEF ShapeOK, InputShape
  <2> QED BY <1>0, <2>1, <2>2, RightOthers DEF Newest
<1> QED BY <1>1, <1>2, <1>3, <1>4, <1>5, <1>6, <1>7

LEMMA RightlyKeeps ==
    ASSUME PublishMeanwhile = FALSE
    PROVE  ShapeOK /\ Rightly /\ [IncrementalNext]_incrementalVars => Rightly'
<1>1. ASSUME Rightly, UNCHANGED incrementalVars PROVE Rightly'
  BY <1>1 DEF Rightly, incrementalVars, inputVars
<1>2. ASSUME ShapeOK, Rightly, IncrementalNext PROVE Rightly'
  <2>1. CASE \E q \in Maker : MakeStep(q) \/ MakerStops(q)
    BY <1>2, <2>1, RightMakerStep
  <2>2. CASE \/ InputChanges \/ JoinedChanges \/ (\E mode \in ModeOfRun : EditRecipe(mode))
             \/ PruneLatest \/ BeginErasure \/ RewriteFile \/ CommitErasure
    BY <1>2, <2>2, RightOtherStep
  <2> QED BY <1>2, <2>1, <2>2 DEF IncrementalNext, ModeOfRun
<1> QED BY <1>1, <1>2

\* Whatever a run kept from the last one, its result is what a full run makes of the same
\* input, unless an erasure rewrote what the last run had read: for any number of runs at
\* once, rows and partitions, when a dataset gets no version while a run reads it
\* (service_transformations/incremental.py).
THEOREM SameAsAFullRun ==
    ASSUME PublishMeanwhile = FALSE
    PROVE  IncrementalSpec => []AsAFullRun
<1>1. IncrementalSpec => [](ShapeOK /\ Rightly)
  BY ShapeInit, ShapeKeeps, RightlyInit, RightlyKeeps, PTL DEF IncrementalSpec
<1> QED BY <1>1, RightlyIsEnough, PTL

\* What each of the two that are checked side by side does.
LEMMA SideBySide ==
    /\ ResultsSpec => Init /\ [][Next]_vars
    /\ ResultsSpec => IncrementalSpec
<1>1. ResultsInit => Init /\ IncrementalInit
  BY DEF ResultsInit
<1>2. [ResultsNext]_resultsVars => [Next]_vars /\ [IncrementalNext]_incrementalVars
  BY DEF ResultsNext, resultsVars
<1> QED BY <1>1, <1>2, PTL DEF ResultsSpec, IncrementalSpec

\* The variables of both have their types: the versions a run records exist, its steps
\* and its pieces are ones that were made (WorkflowExecution, IncrementalRuns).
THEOREM ResultsTypesHold == ResultsSpec => []ResultsTypeOK
<1>1. ResultsSpec => []TypeOK
  BY SideBySide, TypesHold, PTL DEF Spec
<1>2. ResultsSpec => []IncrementalTypeOK
  BY SideBySide, ShapesHold, ShapeIsTypes, PTL
<1>3. TypeOK /\ IncrementalTypeOK => ResultsTypeOK
  BY DEF ResultsTypeOK
<1> QED BY <1>1, <1>2, <1>3, PTL
=============================================================================
