------------------------- MODULE WorkflowExecution -------------------------
(***************************************************************************)
(* How the runs of one workflow are executed: the walk over its tasks in   *)
(* dependency order, retries, what a run records, and how a run that picks *)
(* up a failed one reuses what that one recorded (_execute_workflow_run in *)
(* service_workflows/executor.py, graph.py, resume_run in queue.py), while *)
(* people save the workflow (_replace_graph in service.py).                *)
(*                                                                         *)
(* Tasks are numbered in the order of their keys.  A save deletes the rows *)
(* of the tasks and writes new ones; a session that reads a deleted row    *)
(* again raises, which ends the run as failed.                             *)
(***************************************************************************)
EXTENDS Integers, Sequences, FiniteSets

CONSTANTS
    Tasks,         \* how many tasks the workflow has
    Runs,          \* bound on the runs of the workflow
    MaxFresh,      \* bound on those that pick up no other run
    Graphs,        \* the graphs people save
    Settings,      \* what the settings of a task may say, as numbers
    Kinds,         \* what people's saves change: settings, links, nothing, unfill
    SavesDuringRuns,  \* do people save while a run is executing?
    MaxSaves,      \* bound on saves
    MaxDeaths      \* bound on executions that end early

Task == 1 .. Tasks
Run == 1 .. Runs
Condition == {"on_success", "on_failure", "always"}

\* A link waits for its first task; a task may use the dataset another made
\* (dataset_from, 0 for none), be allowed to fail, and be tried again.
Graph == [links: SUBSET [from: Task, to: Task, condition: Condition],
          uses: [Task -> 0 .. Tasks],
          optional: SUBSET Task,
          retries: [Task -> Nat]]

Upstream(g, t) == {l.from : l \in {k \in g.links : k.to = t}}

\* Every task comes after all the tasks it waits for, and no later than it has to.
AreLevels(level, g) ==
    \A t \in Task :
        /\ \A u \in Upstream(g, t) : level[u] < level[t]
        /\ level[t] > 0 => \E u \in Upstream(g, t) : level[t] = level[u] + 1

\* validate_graph refuses a graph with a cycle: there are levels.
ASSUME ExecutionAssumption ==
    /\ Tasks \in Nat \ {0} /\ Runs \in Nat \ {0} /\ MaxFresh \in Nat
    /\ \A g \in Graphs :
         /\ DOMAIN g = {"links", "uses", "optional", "retries"}
         /\ \A l \in g.links : l.from \in Task /\ l.to \in Task /\ l.condition \in Condition
         /\ g.uses \in [Task -> 0 .. Tasks]
         /\ g.optional \subseteq Task
         /\ g.retries \in [Task -> Nat]
         /\ \E level \in [Task -> 0 .. Tasks - 1] : AreLevels(level, g)
    /\ Settings \subseteq Nat /\ 0 \in Settings
    /\ Kinds \subseteq {"settings", "links", "nothing", "unfill"}
    /\ SavesDuringRuns \in BOOLEAN
    /\ MaxSaves \in Nat /\ MaxDeaths \in Nat

VARIABLES
    graph,      \* the links and policies of the saved tasks
    revision,   \* [Task -> Settings]: what a task's settings say
    filled,     \* has every task the settings it needs?
    version,    \* which save wrote the tasks' rows
    runs,       \* [Run -> its row, the graph it loaded and what it is doing]
    records,    \* [Run -> [Task -> the task's record in that run]]
    made,       \* what tasks' handlers did, in the order they committed it
    deaths

vars == <<graph, revision, filled, version, runs, records, made, deaths>>

\* The fingerprint of a task's settings: settings that say the same have the same.
Fingerprint == [revision: Settings, uses: 0 .. Tasks]
NoPrint == [revision |-> 0, uses |-> 0]

NoRecord == [status |-> "none", settings |-> NoPrint, output |-> 0, reused |-> FALSE]
Between == [task |-> 0, stage |-> "between", tries |-> 0, output |-> 0]
Absent == [status |-> "absent", resumes |-> 0, version |-> 0, graph |-> graph,
           revision |-> revision, at |-> Between]

TypeOK ==
    /\ graph \in Graphs
    /\ revision \in [Task -> Settings]
    /\ filled \in BOOLEAN
    /\ version \in Nat
    /\ \A r \in Run :
         /\ runs[r].status \in {"absent", "queued", "running", "succeeded", "failed", "partial"}
         /\ runs[r].resumes \in 0 .. r - 1
         /\ runs[r].version \in 0 .. version
         /\ runs[r].graph \in Graphs
         /\ runs[r].revision \in [Task -> Settings]
         /\ runs[r].at.task \in 0 .. Tasks
         /\ runs[r].at.stage \in {"between", "working", "failed", "unresolved", "succeeded"}
         /\ runs[r].at.tries \in Nat
         /\ runs[r].at.task # 0 =>
              runs[r].at.tries <= 1 + runs[r].graph.retries[runs[r].at.task]
         /\ runs[r].at.output \in 0 .. Len(made)
         /\ \A t \in Task :
              /\ records[r][t].status \in {"none", "skipped", "succeeded", "failed"}
              /\ records[r][t].settings \in Fingerprint
              /\ records[r][t].output \in 0 .. Len(made)
              /\ records[r][t].reused \in BOOLEAN
    /\ \A i \in DOMAIN made :
         /\ made[i].task \in Task /\ made[i].run \in Run
         /\ made[i].settings \in Fingerprint
         /\ made[i].input \in 0 .. i - 1
         /\ made[i].after \in [Upstream(runs[made[i].run].graph, made[i].task) -> 0 .. i - 1]
    /\ deaths \in Nat

-----------------------------------------------------------------------------
(* The order of the walk.                                                  *)

\* Mutant: a task comes right after the first of the tasks it waits for.
ShallowLevels(g) ==
    CHOOSE level \in [Task -> 0 .. Tasks - 1] :
        \A t \in Task : /\ level[t] = 0 <=> Upstream(g, t) = {}
                        /\ \A u \in Upstream(g, t) : level[t] <= level[u] + 1
                        /\ level[t] > 0 => \E u \in Upstream(g, t) : level[t] = level[u] + 1

\* topological_levels: the tasks whose every link is satisfied by earlier levels.
Levels(g) == CHOOSE level \in [Task -> 0 .. Tasks - 1] : AreLevels(level, g)

\* One level after the other, a level's tasks by key.
Precedes(level, t, u) == level[t] < level[u] \/ (level[t] = level[u] /\ t < u)

Left(r) == {t \in Task : records[r][t].status = "none"}

\* The task the walk has come to.
IsNext(r, t) ==
    LET level == Levels(runs[r].graph)
    IN  /\ t \in Left(r)
        /\ \A u \in Left(r) \ {t} : Precedes(level, t, u)

\* should_run: every link into the task is satisfied.
Satisfied(l, status) ==
    CASE l.condition = "on_success" -> status = "succeeded"
      [] l.condition = "on_failure" -> status = "failed"
      [] l.condition = "always"     -> status \in {"succeeded", "failed"}

ShouldRun(r, t) ==
    \A l \in runs[r].graph.links : l.to = t => Satisfied(l, records[r][l.from].status)

FingerprintIn(r, t) == [revision |-> runs[r].revision[t], uses |-> runs[r].graph.uses[t]]

\* Mutant: the tasks before it need not be reused too.
ReusableAlone(r, t) ==
    /\ runs[r].resumes # 0
    /\ records[runs[r].resumes][t].status = "succeeded"
    /\ records[runs[r].resumes][t].settings = FingerprintIn(r, t)

\* The task succeeded in the run this one picks up, its settings are the same
\* and every task it waits for was reused.
Reusable(r, t) ==
    /\ runs[r].resumes # 0
    /\ LET earlier == records[runs[r].resumes][t]
       IN  earlier.status = "succeeded" /\ earlier.settings = FingerprintIn(r, t)
    /\ \A u \in Upstream(runs[r].graph, t) : records[r][u].reused

-----------------------------------------------------------------------------
Init ==
    /\ graph \in Graphs
    /\ revision = [t \in Task |-> 0]
    /\ filled = TRUE
    /\ version = 0
    /\ runs = [r \in Run |-> Absent]
    /\ records = [r \in Run |-> [t \in Task |-> NoRecord]]
    /\ made = <<>>
    /\ deaths = 0

IsNextRun(r) ==
    /\ runs[r].status = "absent"
    /\ \A q \in Run : q < r => runs[q].status # "absent"

\* A run is queued by a person, a schedule or an event.
Queue(r) ==
    /\ IsNextRun(r)
    /\ Cardinality({q \in Run : runs[q].status # "absent" /\ runs[q].resumes = 0}) < MaxFresh
    /\ runs' = [runs EXCEPT ![r].status = "queued"]
    /\ UNCHANGED <<graph, revision, filled, version, records, made, deaths>>

\* resume_run: a person picks up a failed run; a workflow that cannot run is refused.
Resume(r, earlier) ==
    /\ IsNextRun(r)
    /\ runs[earlier].status \in {"failed", "partial"}
    /\ filled
    /\ runs' = [runs EXCEPT ![r].status = "queued", ![r].resumes = earlier]
    /\ UNCHANGED <<graph, revision, filled, version, records, made, deaths>>

\* The executor loads the graph; a workflow that is not filled in fails the run.
Start(r) ==
    /\ runs[r].status = "queued"
    /\ runs' = [runs EXCEPT ![r] = [@ EXCEPT !.status = IF filled THEN "running" ELSE "failed",
                                             !.version = version, !.graph = graph,
                                             !.revision = revision]]
    /\ UNCHANGED <<graph, revision, filled, version, records, made, deaths>>

\* The walk is between two tasks and the next one's row can still be read.
At(r, t) ==
    /\ runs[r].status = "running"
    /\ runs[r].at.stage = "between"
    /\ runs[r].version = version
    /\ IsNext(r, t)

Skip(r, t) ==
    /\ At(r, t)
    /\ ~ShouldRun(r, t)
    /\ records' = [records EXCEPT ![r][t] = [NoRecord EXCEPT !.status = "skipped"]]
    /\ UNCHANGED <<graph, revision, filled, version, runs, made, deaths>>

\* Mutant: the record does not say that the task was reused.
ReuseUnmarked(r, t) ==
    /\ At(r, t)
    /\ ShouldRun(r, t)
    /\ Reusable(r, t)
    /\ records' = [records EXCEPT ![r][t] = records[runs[r].resumes][t]]
    /\ UNCHANGED <<graph, revision, filled, version, runs, made, deaths>>

\* The earlier result stands and feeds the tasks after it.
Reuse(r, t) ==
    /\ At(r, t)
    /\ ShouldRun(r, t)
    /\ Reusable(r, t)
    /\ records' = [records EXCEPT ![r][t] =
         [records[runs[r].resumes][t] EXCEPT !.reused = TRUE]]
    /\ UNCHANGED <<graph, revision, filled, version, runs, made, deaths>>

Begin(r, t) ==
    /\ At(r, t)
    /\ ShouldRun(r, t)
    /\ ~Reusable(r, t)
    /\ runs' = [runs EXCEPT ![r].at = [task |-> t, stage |-> "working", tries |-> 1, output |-> 0]]
    /\ UNCHANGED <<graph, revision, filled, version, records, made, deaths>>

\* resolve_dataset: what the task it uses made in this run, if it made anything.
Input(r, t) ==
    LET uses == runs[r].graph.uses[t]
    IN  IF uses = 0 THEN 0 ELSE records[r][uses].output

HasInput(r, t) == runs[r].graph.uses[t] = 0 \/ Input(r, t) # 0

\* The task's handler does its work and commits it.
Succeed(r) ==
    LET t == runs[r].at.task
    IN  /\ runs[r].status = "running" /\ runs[r].at.stage = "working"
        /\ HasInput(r, t)
        /\ made' = Append(made, [task |-> t, run |-> r, settings |-> FingerprintIn(r, t),
                                 input |-> Input(r, t),
                                 after |-> [u \in Upstream(runs[r].graph, t) |-> records[r][u].output]])
        /\ runs' = [runs EXCEPT ![r].at.stage = "succeeded", ![r].at.output = Len(made) + 1]
        /\ UNCHANGED <<graph, revision, filled, version, records, deaths>>

Fail(r) ==
    /\ runs[r].status = "running" /\ runs[r].at.stage = "working"
    /\ runs' = [runs EXCEPT ![r].at.stage = "failed"]
    /\ UNCHANGED <<graph, revision, filled, version, records, made, deaths>>

\* A macro in the settings cannot be resolved: the task fails at once.
Unresolved(r) ==
    /\ runs[r].status = "running" /\ runs[r].at.stage = "working"
    /\ runs[r].at.tries = 1
    /\ runs' = [runs EXCEPT ![r].at.stage = "unresolved"]
    /\ UNCHANGED <<graph, revision, filled, version, records, made, deaths>>

\* After the handler, the task's row is read again if it committed anything.
\* So does the wait before a retry: only a first try can outlive a save.
RowReadable(r) == runs[r].version = version \/ runs[r].at.tries = 1

\* Mutant: the tries are counted but never compared.
RetryForever(r) ==
    /\ runs[r].status = "running" /\ runs[r].at.stage = "failed"
    /\ runs[r].graph.retries[runs[r].at.task] > 0
    /\ runs' = [runs EXCEPT ![r].at.stage = "working"]
    /\ UNCHANGED <<graph, revision, filled, version, records, made, deaths>>

\* A failed task is tried again, after a wait.
Retry(r) ==
    /\ runs[r].status = "running" /\ runs[r].at.stage = "failed"
    /\ runs[r].at.tries <= runs[r].graph.retries[runs[r].at.task]
    /\ RowReadable(r)
    /\ runs' = [runs EXCEPT ![r].at.stage = "working", ![r].at.tries = @ + 1]
    /\ UNCHANGED <<graph, revision, filled, version, records, made, deaths>>

\* The outcome is recorded, with the fingerprint of the settings it had.
Record(r) ==
    LET t == runs[r].at.task
    IN  /\ runs[r].status = "running"
        /\ RowReadable(r)
        /\ \/ runs[r].at.stage \in {"succeeded", "unresolved"}
           \/ runs[r].at.stage = "failed" /\ runs[r].at.tries > runs[r].graph.retries[t]
        /\ records' = [records EXCEPT ![r][t] =
             [status |-> IF runs[r].at.stage = "succeeded" THEN "succeeded" ELSE "failed",
              settings |-> FingerprintIn(r, t), output |-> runs[r].at.output, reused |-> FALSE]]
        /\ runs' = [runs EXCEPT ![r].at = Between]
        /\ UNCHANGED <<graph, revision, filled, version, made, deaths>>

Ended(r, status) == {t \in Task : records[r][t].status = status}

Verdict(r) ==
    IF Ended(r, "failed") \ runs[r].graph.optional # {} THEN "failed"
    ELSE IF Ended(r, "skipped") \cup Ended(r, "failed") # {} THEN "partial"
    ELSE "succeeded"

Finish(r) ==
    /\ runs[r].status = "running" /\ runs[r].at.stage = "between"
    /\ Left(r) = {}
    /\ runs' = [runs EXCEPT ![r].status = Verdict(r)]
    /\ UNCHANGED <<graph, revision, filled, version, records, made, deaths>>

\* A save replaced the rows: reading a task's row again fails the run.
StaleRow(r) ==
    /\ runs[r].status = "running"
    /\ runs[r].version # version
    /\ \/ runs[r].at.stage = "between" /\ Left(r) # {}
       \/ runs[r].at.stage \in {"succeeded", "failed", "unresolved"}
    /\ runs' = [runs EXCEPT ![r].status = "failed", ![r].at = Between]
    /\ UNCHANGED <<graph, revision, filled, version, records, made, deaths>>

\* The worker dies, or an error ends the execution; the run is failed.
Death(r) ==
    /\ deaths < MaxDeaths
    /\ runs[r].status = "running"
    /\ deaths' = deaths + 1
    /\ runs' = [runs EXCEPT ![r].status = "failed", ![r].at = Between]
    /\ UNCHANGED <<graph, revision, filled, version, records, made>>

-----------------------------------------------------------------------------
MaySave(kind) ==
    /\ kind \in Kinds
    /\ version < MaxSaves
    /\ SavesDuringRuns \/ \A r \in Run : runs[r].status \notin {"queued", "running"}

\* A person saves the workflow: one task's settings, the links, or only how it
\* looks on the canvas.  Settings may be put back as they were.
SaveSettings(t, s) ==
    /\ MaySave("settings")
    /\ s # revision[t]
    /\ revision' = [revision EXCEPT ![t] = s]
    /\ version' = version + 1
    /\ UNCHANGED <<graph, filled, runs, records, made, deaths>>

SaveLinks(g) ==
    /\ MaySave("links")
    /\ g # graph
    /\ graph' = g
    /\ version' = version + 1
    /\ UNCHANGED <<revision, filled, runs, records, made, deaths>>

SaveNothing ==
    /\ MaySave("nothing")
    /\ version' = version + 1
    /\ UNCHANGED <<graph, revision, filled, runs, records, made, deaths>>

\* A setting a task needs is taken out, or put back as it was.
SaveUnfilled ==
    /\ MaySave("unfill")
    /\ filled' = ~filled
    /\ version' = version + 1
    /\ UNCHANGED <<graph, revision, runs, records, made, deaths>>

Execute(r) ==
    \/ Start(r) \/ Succeed(r) \/ Fail(r) \/ Unresolved(r) \/ Retry(r) \/ Record(r) \/ Finish(r) \/ StaleRow(r)
    \/ \E t \in Task : Skip(r, t) \/ Reuse(r, t) \/ Begin(r, t)

\* Every run has ended and nobody asks for another.
Done ==
    /\ \A r \in Run : runs[r].status \notin {"queued", "running"}
    /\ UNCHANGED vars

Next ==
    \/ \E r \in Run : Queue(r) \/ (\E e \in Run : Resume(r, e)) \/ Execute(r) \/ Death(r)
    \/ (\E t \in Task, s \in Settings : SaveSettings(t, s)) \/ (\E g \in Graphs : SaveLinks(g))
    \/ SaveNothing \/ SaveUnfilled
    \/ Done

Spec == Init /\ [][Next]_vars

\* A worker that executes a run goes on with it.
FairSpec == Spec /\ \A r \in Run : WF_vars(Execute(r))

-----------------------------------------------------------------------------
(* Properties.                                                             *)

\* "Every incoming edge must be satisfied": whether a task was done or skipped
\* agrees with how the tasks before it ended in that run, whenever the walk
\* decided it and whether they were done or reused.
GatesHold ==
    LET Opens(condition) == IF condition = "on_success" THEN {"succeeded"}
                            ELSE IF condition = "on_failure" THEN {"failed"}
                            ELSE {"succeeded", "failed"}
    IN  \A r \in Run, t \in Task :
            records[r][t].status # "none"
            => (records[r][t].status # "skipped"
                <=> \A l \in runs[r].graph.links :
                        l.to = t => records[r][l.from].status \in Opens(l.condition))

\* The runs a run picks up from, one after the other.
Ancestors(r) ==
    LET Closed(S) == \A q \in S \cup {r} : runs[q].resumes # 0 => runs[q].resumes \in S
    IN  {a \in Run : \A S \in SUBSET Run : Closed(S) => a \in S}

\* "With these settings on the same input, so its result stands": what a run
\* records for a task was made with the settings the run loaded, from what the
\* run records for the task it uses, after what it records for the tasks
\* before.  This is so while the links stay as they were along its pick-ups
\* and every task is linked behind the task it uses; the code compares neither.
CoherentResults ==
    \A r \in Run, t \in Task :
        LET work == made[records[r][t].output]
        IN  /\ records[r][t].status = "succeeded"
            /\ \A q \in Ancestors(r) : runs[q].graph = runs[r].graph
            => /\ work.settings = FingerprintIn(r, t)
               /\ work.input = Input(r, t)
               /\ \A u \in Upstream(runs[r].graph, t) : work.after[u] = records[r][u].output

\* The later piece of work does nothing the earlier one had not done: the same
\* task with the same settings, after the same work of the tasks before it.
SameWork(i, j) ==
    /\ made[i].task = made[j].task
    /\ made[i].settings = made[j].settings
    /\ made[i].after = made[j].after
    /\ \A u \in DOMAIN made[j].after : made[j].after[u] # 0

\* The pick-ups that lead from run a to run r, without r itself.
Since(a, r) == {q \in Ancestors(r) : q = a \/ a \in Ancestors(q)}

LinksInto(r, t) == {l \in runs[r].graph.links : l.to = t}

\* Run q ended before it recorded the task, or had loaded other settings of it, or
\* other links into it, than run r.
Interrupts(q, r, t) ==
    \/ t \in Left(q)
    \/ FingerprintIn(q, t) # FingerprintIn(r, t)
    \/ LinksInto(q, t) # LinksInto(r, t)

\* "Tasks that succeeded are not run again, unless you changed them": along a
\* chain of runs that pick each other up, work is done twice only if one of the
\* runs from the first time on ended before it recorded the task, or had it with
\* other settings or links: a task that is changed and put back is run again.
NotRunAgain ==
    \A i, j \in DOMAIN made :
        LET a == made[i].run
            r == made[j].run
        IN  i < j /\ SameWork(i, j) /\ a \in Ancestors(r)
            => \E q \in Since(a, r) : Interrupts(q, r, made[j].task)

\* However often tasks are tried again, a run that was started ends.
RunEnds == \A r \in Run : runs[r].status = "running" ~> runs[r].status # "running"
=============================================================================
