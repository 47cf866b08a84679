# Pipewright: specifications, checks and proofs

TLA+ models of the parts of Pipewright where several processes meet in one
database. They are translated from the Python (and, for shared editing, the
TypeScript) source; paths below are relative to `src/`, and `PROJECT.json` gives
the lines behind every definition.

- [The system](#the-system) lists the components, modelled or not.
- [The modules](#the-modules) relates each model to its code.
- [What is checked](#what-is-checked) goes through the runs, their bounds and
  the fairness they assume.
- [What the passing runs assume](#what-the-passing-runs-assume) names the
  assumptions, with what each one hides.
- [What is proved](#what-is-proved) gives the theorems and their arguments.
- [Where the code departs from its documentation](#where-the-code-departs-from-its-documentation)
- [Not modelled](#not-modelled) and [Plan](#plan).

## The system

A FastAPI gateway (`apps/api-gateway`) mounts 24 services in one process. Beside
it run three kinds of process, each of which may have several replicas:

- the **workflow worker** (`workflow_worker.py`): every loop runs a background
  tick (stalled background runs, webhook retries, alerts, contracts' deadlines,
  one background run) and then `drain_queue`: release stalled workflow runs, queue the
  due cron workflows, claim and execute up to ten runs;
- the **schedule ticker** (`run_due_schedules.py`): sweeps of expired data and of
  incidents, then the due schedules, one after the other;
- the **live runner**: reads the live sources that are due and saves their tables.

All share one PostgreSQL database at READ COMMITTED and one file store. There are
no messages and no callbacks between processes: every interaction is a row one
transaction writes and another reads. Sessions do not flush on their own, expire
what they loaded when they commit, and write a changed row by its id. What goes
wrong in such a system is what happens between two transactions of one actor,
so an action of a model is one committed transaction, one call outside, or the
read that a later transaction acts on.

### Components

| Component | State it keeps | Operations | What is hard | What makes it correct |
|---|---|---|---|---|
| Workflow run queue | `workflow_runs` rows with a lease | enqueue, resume, backfill, cancel, claim, renew, release, finish | claims race cancels, renewals and releases; workers die between commits | one worker per run, one verdict per run, every run ends |
| Cron workflows | `workflows.next_run_at` | tick, advance, queue, edit | two ticks read one row; rows expire within a tick; death between commits | a slot is queued once, not before its time, and in the end |
| Workflow execution | records of tasks, results, the graph | walk, gates, retries, record, reuse, save the graph | the graph is replaced under the executor; a run picks up a failed one | gates agree with outcomes; results belong together; work is not repeated |
| Schedules | `scheduled_operations` rows with a lease, slot and retry | claim, finalize, edit, toggle, delete, trigger | a lease that is not renewed; retries, slots and edits in between | one execution at a time, each slot once and in order, bounded retries |
| Recipes | runs and what they read, the input kept in memory | run in full, by appending, by partitions; publish, record, erase | a result is kept on the word of versions, hashes and paths read at several moments | a result is what a full run would make; who is erased is gone |
| Dataset versions | versions, pins, bytes | publish, roll back, replay, mark, prune, remove bytes | overlapping sweeps, pins that come late, crashes between tombstone and removal | data someone holds is kept; live versions have their bytes; pruned bytes go |
| Live sources | cursor, event log, saved and applied marks | claim, copy, read, acknowledge, save log and table, trim, save now, start again | publish and mark in two commits; acknowledgements that are lost | the table is a mirror, the log misses nothing and repeats nothing |
| Shared editing | merged copy, epoch, batches; the Studios' unsent changes | push, read, save, start again, discard | changes in any order; a new epoch during a push; replies that are lost | all copies converge; nobody's work is lost; no save overwrites another |
| Background runs | `pipeline_runs` with a lease, the dataset a file becomes | queue, claim, read, mark, fail, release | hooks after a commit; limits counted without a lock | one worker per run; run and file agree; every file is decided |
| Uploads | session with the parts received, parts in storage | chunk, complete, abandon, expire, sweep | chunks at once; completion twice; deaths | the file is ingested once from what arrived |
| Write-back | change sets, a table outside | stage, rehearse, commit, discard | the commit outside precedes the one inside; others write the table | an edit applies once, and never over somebody else's change |
| Metric alerts, webhooks | alert states, events, deliveries | judge, send, post, retry, turn off | sends between commits; claims before sends; locks | crossings alternate while the line stays; an event is sent; bounded tries |
| Extraction jobs | watermark, the dataset it fills | read, merge, publish, advance, reset, edit | failures between load and watermark; equal cursor values | no row is skipped or doubled |
| Data contracts | a contract, problems | judge, record, supersede, answer, check, save, remove, tick | a verdict reached before the data is committed | the open problems say what is wrong with the data there is |
| Incidents | incidents of a problem | report, resolve, acknowledge, reopen | two reporters at once | one active incident per problem, while the problem lasts |
| Governance | change requests, versions | propose, approve, reject, withdraw | the resource changed meanwhile | one outcome; the approved state is the one reviewed |
| Accounts | users, sessions, one-time codes | sign in, renew, redeem | two redemptions at once | a code works once |
| Enterprise controls | policies, erasure requests | sweep, erase | the sweep and the erasure are in dataset versions and recipes | |
| Gateway, connectors, destinations, reporting, lineage, comparisons, intelligence, workbench, projects, permissions | records of their own | requests of one person | little: pure functions, calls outside or reads | |
| Shared library | rate windows | count a call | one atomic statement | |
| Clients, plugin SDK, deployment, the rest of the web application | none that is shared | | | |

### How they interact

A cron tick, a schedule, a person or a backfill puts a run in the queue; a worker
claims it and executes its tasks; a task calls another service, whose commits
are one effect to the run; the run's end is counted on its workflow and announced.
The limit of runs at once is one count over workflow and background runs. A
schedule may run a workflow by queueing it or a recipe directly. Dataset versions
are made by nearly everything (recipes, imports, live sources, uploads, rollbacks),
judged by the dataset's contract before they are stored, and removed by the ticker's
sweep only. A large upload becomes a background run. What fails or is late
opens an incident, and crossings of alerts are sent by the workers.

## The modules

| Module | Models | Translated from |
|---|---|---|
| `RunLedger` | the promise of the run queue, without workers, leases or rows | the header of `queue.py` |
| `WorkflowQueue` | the leased queue | `service_workflows/queue.py`, the run's own row in `executor.py`, `shared_python/lease.py`, `limits.py`, `backfill.py`, `workflow_worker.py` |
| `WorkflowQueue_proofs` | theorems about it | |
| `Calendar` | cron expressions as sets of instants | `service_schedules/due.py` |
| `WorkflowCron` | cron workflows in a worker's tick | `service_workflows/cron.py`, `enqueue_due_workflows`, edits in `service.py` |
| `WorkflowCron_proofs` | theorems about it | |
| `WorkflowExecution` | the walk over a workflow's tasks and what a run that picks up another reuses | `executor.py`, `graph.py`, `nodes.py`, `resume_run`, `_replace_graph` |
| `IncrementalRuns` | runs of a recipe that build on earlier ones or on an input kept in memory, and erasure | `service_transformations/run.py`, `incremental.py`, `prefix_cache.py`, `service_enterprise/service.py` |
| `Results_proofs` | theorems about these two | |
| `Schedules` | scheduled operations and their pollers | `service_schedules/scheduler_executor.py`, `due.py`, `service.py` |
| `Schedules_proofs` | theorems about it | |
| `DatasetVersions` | pins, marks, prunes and bytes | `service_datasets/version_lifecycle.py`, rollback and publish in `service.py`, `replay.py`, the retention sweep |
| `DatasetVersions_proofs` | theorems about it | |
| `LiveSources` | a source followed by change capture | `service_extraction/streams.py`, `live/postgres.py`, the live runner |
| `LiveSources_proofs` | theorems about it | |
| `CoEdit` | a recipe edited together | `service_transformations/coedit.py`, `apps/web/.../use-recipe-editing.ts`, `coedit.ts` |
| `CoEdit_proofs` | theorems about it | |
| `BackgroundRuns` | leased background work and its failure hooks | `service_pipeline_runs/background.py`, `limits.py`, `service_ingestion/service.py` |
| `Uploads` | one upload in parts | `service_ingestion/resumable.py`, `router.py` |
| `Writeback` | one change set against a table outside | `service_writeback/service.py`, `execute.py`, `compiler.py` |
| `AlertDelivery` | an alert, its events, a webhook | `service_observability/alerts.py`, `webhook_sender.py`, `external_dispatch.py` |
| `Imports` | one import job | `service_extraction/extract.py`, `incremental.py`, `connectors/sql_database.py` |
| `Contracts` | the contract on one dataset | `service_quality/data_contracts.py` |
| `Incidents` | the incidents of one problem | `service_observability/incidents.py`, `runtime_incidents.py` |
| `Services_proofs` | theorems about these seven | |
| `MC...` | instances for TLC | |
| `MCResults` | `WorkflowExecution` and `IncrementalRuns` side by side | |
| `MCServices` | these modules but `AlertDelivery` side by side | |
| `MCWorkerTick` | `WorkflowQueue` and `AlertDelivery` side by side | |

`MCResults`, `MCServices` and `MCWorkerTick` hold protocols that share no state: the first state
chooses one of them (`moves`, `protocol`), and only its actions are taken. So the
state space is the sum and not the product, and a property of one protocol is
vacuous only in the others' states. `MCWorkerTick` takes the first capture of an alert to be `m1`, since
captures are alike.

An operator whose comment begins with "Mutant" is a plausible mistake in the
definition that follows it; no specification uses it. Each property of a passing run has one that
breaks it, which shows that the property constrains the code and not only the
shape of the model.

### How state and actions correspond to the code

**`WorkflowQueue`.** `status`, `lease`, `owner` and `queuedAt` are columns of
`workflow_runs`; time is left at what the queue compares: a lease is absent, live
or past. `pc`, `job` and `stalled` are a worker's place in `drain_queue`, the run
in its hands and the rest of the list it read. A claim is two actions because
SELECT ... FOR UPDATE SKIP LOCKED and the commit are two moments: `RowLocked` is
the lock between them. `StartRun` is apart from the claim's commit because the
executor writes `running` again from what it read back. `Finish` writes by the
row's id, without a look at the lease, as `_finish` does. `CancelRead` and `CancelWrite`
are the check and the write of `cancel_run`. `KeepsTheLedger` maps a row to
the four phases of `RunLedger`; a run between its claim's commit and the
executor's write counts as taken whatever its status says in between.

**`WorkflowCron`.** The due query loads all due rows; the first commit expires
them, so the first workflow is handled as it was loaded and the others are
loaded again (`Tick`, `Load`). `Advance` and `Queue` are the two commits of one
workflow. `Applied` and `Following` are `apply_schedule` and `advance_after_fire`.

**`WorkflowExecution`.** A task's record is its status, the fingerprint of its
settings, the piece of work it shows and whether it was reused; `made` is the
list of the effects that handlers committed, each with its input and with what the
tasks before it had made. A save replaces every task's row; a session that still
holds the old rows fails at its next read of one (`StaleRow`, `RowReadable`),
which is why `version` is in the state. Settings are drawn from a small set, and
`FingerprintIn` is their content, as `settings_hash` is: settings that are put back have
the fingerprint they had. `Levels` is `topological_levels` without its loop:
the one numbering in which every task comes after all the tasks it waits for and no later
than it must. `validate_graph` lets no cycle through, so there is one
(`ExecutionAssumption`). `Ancestors` is the chain of pick-ups of a run, as the
runs that every set closed under `resumes` holds.

**`IncrementalRuns`.** A run begins (`StartMake`), reads the pin of its input
(`PinBase`), decides on a full, an append or a partition run and what may be kept
(`Decide`), reads the rows (`ReadNow`, `ReadInFull`), applies the recipe, publishes
the result, and records what it read; each is a moment of its own. `kept` is the
cache of inputs, addressed by content hash. A recipe's steps are abstracted to which rows decide a
result's row: the row alone, its partition, all rows, or a joined dataset. Versions
grow, are rewritten, replaced or pruned, and an erasure redacts the files one by one
before it commits the hashes (`RewriteFile`, `CommitErasure`).

**`Schedules`.** A slot stays on its row until the execution ends; a retry is
taken off when it is claimed. `Finalize` writes to the row as it is by then,
whoever holds its lease. `Calendar` gives the slots.

**`DatasetVersions`.** A version's `state` is its lifecycle column, `bytes` what
storage holds. A holder asks, looks, locks and pins, commits, reads, publishes
and releases; a sweep marks what retention would remove, prunes what was marked
longer than the grace period ago and is not held, one commit each, and then removes the bytes of
every tombstone and records it. The clock is bounded by `Horizon`; `Patience` is how long a
request, or a sweep up to its mark, may take, and is less than the grace period.

**`LiveSources`.** The table's changes are positions of a change log. `events` are
the stored messages, `logSaved` and `applied` the marks of the two outputs, `log`
and `rows` the published datasets. A pass claims the lease, takes a position and copies
the table or reads what the replication slot still holds, stores, acknowledges, publishes
the log and the table (publish and mark are separate commits), trims and releases.

**`CoEdit`.** A copy is a set of last-writer-wins registers stamped by
`(counter, client)`. The server merges pushes, numbers them and keeps the newest
batches; a Studio asks for what is after its sequence number, or gets the whole
copy when that is no longer kept or the epoch changed. A save from the Studio, one
outside it and a discard start the copy again, or, for a save that reads what the server
has, go on with it. `made` is the history of changes that the properties speak of.

**`BackgroundRuns` to `Incidents`.** Each is one queue, session, change set, alert,
job, dataset or problem with a few actors, and each module's header says what a
step is. Whatever handles rows in two commits has two actions, and whatever
acts on a row that was read earlier keeps what it read in the actor's record.
In `AlertDelivery` a move of the line, or turning the alert off and on, is a reading like a
capture's that starts from `ok` (`update_alert`, `_judge_latest`), and `afresh` marks the
event it leads to. A failure caught by `send_due` leaves the event claimed and `untold`
(`TellFails`).

## What is checked

Passing runs have no counterexample in their whole state space. Bounds cap
deaths, edits, saves and triggers (`Max...`), and the clock (`Horizon`); nothing
else in the models grows. Runs switch deadlock checking off where the system may
rest (an idle queue, the end of the clock, a settled upload);
`WorkflowExecution` has an explicit `Done` instead, so the run of it alone checks for
deadlock.

Several invariants are conjunctions of named parts, and the parts are the
properties a reader should look at; `EverythingSettles` and `NothingIsUndone` join the
temporal ones of `MCServices`.

| Run | Instance | What it shows |
|---|---|---|
| `queue_faults` | a run by hand and one of a backfill that contend for the one place of a project, two workers with one identity (two pods may have the same process id), renewals that may fail for a whole lease, two deaths anywhere, stale cancels | `TypeOK`, `OneWorkerPerRun`; the queue implements `RunLedger` (`KeepsTheLedger`) |
| `worker_prompt` | a run and its resume, two workers, renewals in time, three deaths, fair scheduling | a run is counted and announced once (`FinishedOnce`), a resume never overlaps what it resumes (`ResumeWaits`), no running row is without a lease while nobody closes it (`NoOrphans`), every queued run gets a verdict (`EveryRunEnds`) |
| | beside them two captures or moves of an alert's line, two senders, two tries, a death, failures to tell | `AlertSafety`: `CrossingsAlternate`, `SentOnce`, `TriesAreCounted`; events are told and deliveries end (`AlertsSettle`) |
| `queue_orphan` | one run, with a death between the two commits of a release | **violation** of `NoOrphans` |
| `cron_one` | two workflows, one worker, two edits, one death, five instants | `CronSafety`: `RepeatsNeedEdits`, `NotBeforeItsTime`; `DueSlotIsQueued` |
| `cron_ahead` | the same without a death | **violation** of `SlotQueuedOnce` |
| `results_faults` | two workflow runs over three graphs of three tasks with two saves and a death; beside them two makers of a recipe, three runs, two new versions, edits, prunes or erasures | gates agree with outcomes (`GatesHold`), results belong together (`CoherentResults`), work is not repeated without a reason (`NotRunAgain`), an incremental result is what a full run would give (`AsAFullRun`), a person erased is in no result a later run makes from memory (`ErasedIsGone`) |
| `results_chain` | three runs in a chain over the join, two saves of settings between them, which may put back what was, a retry | `NotRunAgain` over an intermediate pick-up; every run that was started ends (`RunEnds`) |
| `schedules_pollers` | one schedule, two pollers, one person, six instants, two edits, one trigger, one death | `OneExecution`; `SlotsInOrder`: `SlotExecutedOnce`, `NoSlotSkipped`, `RetriesBounded`; `DueSlotIsExecuted` |
| `versions_pins` | two versions and one to come, a holder, a viewer, a producer, two sweeps, a fault, grace of three | `VersionSafety`: `PinnedDataIsKept`, `LiveVersionsHaveBytes`, `EarlyReadersFinish`; `PrunedIsFinal`, `PrunedBytesGo` |
| `live_follow` | two keys, two changes, two runners, two faults, one fresh start | `MirrorIsRight`; `LogSafety`: `LogMissesNothing`, `StoredOnce`, `NothingNeededIsTrimmed`; `EndsUpRight` |
| `coedit_share` | two Studios, two changes, one saver, one save or change outside, one lost send or reply | `CopySafety`: `EveryoneAgrees`, `CopyStartsFromTheRecipe`; `NobodysWorkIsLost`, `EditsShowAtOnce`, `EveryoneCatchesUp` |
| `services_all` | six protocols, two or three actors each | the invariants below, `NothingIsUndone`, `EverythingSettles` |

The parts checked by `services_all`:

| Protocol | Safety | A step never | In the end |
|---|---|---|---|
| Background runs (`RunSafety`) | `OneWorkerHasIt`, `RunAndFileAgree`, `NearTheLimit` | changes a verdict (`RunVerdictStands`) | `EveryFileIsDecided` |
| Uploads (`UploadSafety`) | `ArrivedIsStored`, `IngestedOnce` | | `UploadEnds` |
| Write-back (`WritebackSafety`) | `CommittedIsApplied`, `AppliedOnce` | writes over a change of somebody else (`NothingWrittenOver`) | |
| Imports (`ImportSafety`) | `LoadedOnce`, `NothingSkipped` | | `EveryRowArrives` |
| Contracts (`ContractSafety`) | `HeadIsShown`, `StoppedIsShown` | | `OverdueSettles` |
| Incidents (`IncidentSafety`) | `OneActive` | | `TroubleIsShown` |

**Why the bounds are enough to be interesting.** Every race in these components
is between two actors on one row: two workers, or a worker and a request. Two
workers and two runs reach each of them, and two runs of one project contend for its
limit. Two deaths let a worker die in
the middle of cleaning up after another. In `WorkflowExecution` three tasks are the least that
make a join, and three runs the least in which a result is reused twice, or in which a change of
settings is put back over a run in between (`results_chain`; saves of links take part in
`results_faults`). In the
calendars five or six instants hold coinciding and separate slots of both expressions.
`IncrementalRuns` needs a run to build on, a run that builds and one that
overlaps it. Two sweeps are what a prune races; three versions let one be the target of a
rollback, one the head and one be published meanwhile. Two changes of one key and
of two are the cases of a mirror, and one fresh start with two faults covers a death or a lost
acknowledgement on either side of it. Two Studios with two changes meet in one
register in either order. A larger upload, queue or list of deliveries repeats
what two of each show.

**Fairness.** Workers, pollers, runners and sweeps are loops that a supervisor
restarts: weak fairness on what a live one does next, on the restart and on time
(leases run out). A workflow run's end is strongly fair (`End`), because the extension of
the lease before a retry's wait disables it for a moment, again and again but
never for good, the tries of a task being bounded; that this is so is `RunEnds`.
In `Schedules`, a claim is fair only for a poller that finds no project at its limit
(`Claim(p, {})`). In `DatasetVersions` passes go on and holders commit or die. In
`LiveSources` the source is claimed and a pass goes on; saving is strongly fair, since
every read that finds news interrupts it. In `CoEdit` a Studio sends, polls
and adopts, and a save that began goes on. In `MCServices` and
`MCWorkerTick` the processes of each protocol go on (a client resends, a worker sends), as `Fairness` lists. Nothing is assumed
of people: queueing, editing, saving, cancelling and deciding are never fair.

## What the passing runs assume

The code is right under conditions that it does not always enforce. Each is a
constant, or a condition inside the property; with the constant the other way TLC
finds the property in the third column violated.

| Constant (passing value) | Meaning of the other value | What fails |
|---|---|---|
| `RenewalsFail` (FALSE in `worker_prompt`) | a worker is cut off for longer than its lease and then goes on | `FinishedOnce`, `ResumeWaits`: a second verdict, which the source accepts ("failed, not retried") |
| `DiesClosing` (FALSE in `worker_prompt`) | a death between the two commits of a release | `NoOrphans`, the run `queue_orphan` |
| `Worker` (one in `cron_one`) | two workers queue due workflows | `RepeatsNeedEdits` |
| `Outlast` (FALSE) | an execution outlasts its lease, which schedules do not renew; `docs/disaster-recovery.md:68` promises no more | `OneExecution` |
| `PublishMeanwhile` (FALSE) | a dataset gets a version between two reads of it by one run | `AsAFullRun`, `ErasedIsGone` |
| `Overtaken` (FALSE) | a prune commits between a holder's read and its lock | `PrunedIsFinal` |
| `Remarked` (FALSE) | a version is kept, and marked again, between a pass's list of due versions and its prune | `EarlyReadersFinish` |
| `DiesCopying` (FALSE) | a runner dies while it takes the first copy | `EndsUpRight` |
| `SlowPass` (FALSE) | a pass outlives its lease, or "Start again" falls into its reading | `MirrorIsRight` |
| `Person` (none) | "Save now" beside the runner | `LogMissesNothing` |
| `Mishaps` (none) | an edit before the first reply; the whole copy arrives while changes are unsent; an older reply after a newer one | `NobodysWorkIsLost` |
| | a send fails after a fresh start | `CopyStartsFromTheRecipe` |
| | saves overlap | `CopyStartsFromTheRecipe`, `NoSaveOverAnother`, which no passing run checks, since of saves one after the other it says only what `check_save` compares |
| `DiesBetween` (FALSE) | a death between the commits of one background verdict | `EveryFileIsDecided`, `RunAndFileAgree` |
| `Lapses` (FALSE) | renewals of a live worker are missed | `OneWorkerHasIt`, `RunVerdictStands` |
| `Overlaps` (FALSE) | two requests complete one upload | `IngestedOnce` |
| `EditedMeanwhile` (FALSE) | edits are staged while a commit is going on | `CommittedIsApplied` |
| `Repeated` (none) | two rows share the key a person named | `NothingWrittenOver` |
| `CapturesOverlap` (FALSE) | two captures of a dataset, or a capture and a move of the line, at once | `CrossingsAlternate` |
| `DiesSending` (FALSE) | a death between claiming an event and telling people | `AlertsSettle` |
| `RunsOverlap` (FALSE) | a job is run again before its run has ended | `LoadedOnce`, `NothingSkipped` |
| `CursorsTie`, `RowsComeLate`, `ReadsFail` (FALSE) | equal cursors cut by `max_rows`; rows behind the newest; storage that cannot be read | `NothingSkipped` |
| `Meanwhile` (FALSE) | the contract is touched while data is judged | `HeadIsShown`; `BrokenStaysOut`, which no passing run checks, since without such a touch it says only what the guard does |

Conditions inside properties:

- `NotRunAgain` lets work be done again if a run of the chain, from the one that did it on, ended
  before it recorded the task, or had loaded other settings of the task or other links into it.
  A task that is changed and put back over a pick-up is run again by the code, since each run
  compares with the one it picks up only. The sentence it restates is "Tasks that succeeded are
  not run again, unless you changed them".
- `CoherentResults` speaks of chains of pick-ups over one set of links in which a
  task is linked behind the task whose dataset it uses; `NotBeforeItsTime` of
  times at which nobody has edited a schedule, and `RepeatsNeedEdits` lets a slot be queued
  as often as schedules were edited; `RetriesBounded` lets each edit of a schedule add a
  whole set of retries, since `update_schedule` clears the count, also while a retry is
  executed; `DueSlotIsQueued` and `DueSlotIsExecuted` of slots
  that no edit, trigger or death disturbs; `ErasedIsGone` of full runs that begin after
  the erasure.
- `LoadedOnce` leaves out append mode once a run stopped between its two commits or
  the watermark was reset, `NothingSkipped` a job whose dataset was deleted, and both a
  job whose mode was edited.
- `AsAFullRun` leaves out what an incremental run kept across a destructive erasure
  of its input.
- `OneActive` counts: at most as many active incidents as sweeps were ever under way together, and
  one more for each that a person brought back (`reopened`), by reopening it or by writing over a
  resolution. Every interleaving of sweeps and people is in its run. That a problem has one incident (`SameIncident`) is not so with two sweeps.
- `CrossingsAlternate` lets two crossings follow each other if the line was moved between them
  (`update_alert` starts again from `ok`). `AlertsSettle` leaves out the events whose sending
  failed, which `send_due` does not try again (`alerts.py:229-233`). `TriesAreCounted` allows one more post
  per death.
- `StoredOnce` speaks of the stored events. After a death between the log's publish and its
  mark, the log dataset holds the changes twice.

## What is proved

The proof modules hold for every value of the constants that satisfies the named
assumptions (`QueueAssumption`, `ExecutionAssumption`, ...: types, and what the code checks
before it starts): any number of runs, workers, tasks, schedules, holders or
edits, any calendar, any acyclic graph, any bound on faults. tlapm checks every
obligation. A theorem that needs more says so in its ASSUME, and what it needs is a
passing value of the table above; TLC shows that the property fails without it.

**`WorkflowQueue_proofs`**

- `TypeCorrect`: `Spec => []TypeOK`.
- `MutualExclusion`: `Spec => []OneWorkerPerRun`. The invariant alone is not
  inductive: nothing in it stops a second claim of a run that is in work. The
  strengthening `SafeInv` adds `HeldRuns`: a run that a claim has selected is still
  queued, since every other writer of a queued row waits for its lock; a run in
  work or being closed has left the queue, and no write ever puts one back; a
  cancel in flight has seen a row, so that it cannot make one. Then `ClaimSelect`
  can only choose a queued row that is not locked, hence one no other worker has. Leases
  and identities play no part in the argument, so it holds when
  renewals fail and when workers share an identity.
- `ImplementsTheLedger`: `Spec => KeepsTheLedger`. Under `SafeInv` each action is
  one `Submit`, `Take` or `Settle` of `RunLedger`, or leaves every phase as it
  was. The mapping counts a run as taken while its worker has yet to write
  `running`; without that, a cancel that lands right after the claim would take
  the run from settled back to work.
- `VerdictCountedOnce` and `ResumedRunIsOver`: with renewals in time
  (`RenewalsFail = FALSE`), `FinishedOnce` and `ResumeWaits`. Here leases do matter.
  `PromptInv` adds to `SafeInv` that a worker at work shows a live lease under its own identity,
  that a run being closed has none and one closer, that a run that was counted is over and in
  nobody's hands, that every verdict was counted, and that a run that resumes
  another was queued after that one was counted.
- `NoRunIsOrphaned`: if moreover no worker dies between the two commits of a release
  (`DiesClosing = FALSE`), `NoOrphans`. `queue_orphan` is its counterexample otherwise.

**`WorkflowCron_proofs`**

- `CronRunsAreSafe`: while one worker queues, `Spec => []CronSafety`, with deaths
  between any two commits and ticks as late as they like. `CronInv` counts what every
  row, every workflow a tick has still to read and every row it has loaded may yet queue
  (`MayQueue`: the slot was not queued, or more edits were made than it was queued times).
  An edit may bring back any slot that has not come, so for those one edit is always kept in hand
  (`AheadIsKept`); a row that was advanced stays past the slot in hand unless an edit pays for
  it (`MovedPast`). The invariant was found by failing to prove the stronger claim that no slot is
  queued twice, which is how `cron_ahead` was met.

**`Results_proofs`** (the first four about `WorkflowExecution`, the next two about `IncrementalRuns`, the last about both)

- `TypesHold`: `Spec => []TypeOK`, with the bounds in it: a try is at most the last
  retry, a record names work that was done, and work used work done before it. The tighter clauses
  need `Stands` (a loaded run keeps its graph, versions and settings, an ended run its row, and
  a record is written once) and `Placed` (only a running run is at a task, and that
  task has no record yet).
- `GatesAreRespected`: `Spec => []GatesHold`, with saves during the runs, retries, reuse and deaths.
  `Walked` adds that a decided task comes behind decided ones: the walk takes a task only when
  no task of a lower level is left, and all it waits for are of lower levels. Since
  a record is written once, a gate that was judged then stays as it was judged.
- `ResultsCohere`: `Spec => []CoherentResults` if every task is linked behind the task whose
  dataset it uses (`UsesAreLinked`; the property does not hold otherwise, and nothing in the
  code asks for it). `Kept` is the induction over the chain of pick-ups: what a run
  did itself is recorded as it was done; what it took over is recorded alike by the run
  it resumes, and so are all tasks before it.
- `NoWorkTwice`: `Spec => []NotRunAgain`, without any condition: settings come and go, links are saved,
  saves fall into runs, workers die. `OnRecord`: all work that was done is recorded by the run that did it,
  or about to be, or that run ended first; no record names the work of a later run, and no run is
  at a task it could reuse. `Lasting`: a task that succeeded in an earlier run of the chain, with the
  same settings and after the same work, is never decided in another way by a later one, if
  no run between them interrupts (`Unbroken`); as a run that has ended and the runs it picks up do not change,
  this can be carried from each run to the next. So such a task can be reused when the walk comes to
  it, and is not begun.
- `ErasedForGood`: `IncrementalSpec => []ErasedIsGone` if no dataset gets a version between two reads
  of one run (`PublishMeanwhile = FALSE`; the property fails otherwise). `Erased` relates what is in four places.
  A file whose recorded hash is one without the person has no row of theirs, at every
  moment of an erasure, which rewrites files first and commits hashes after; the same holds of a frame
  in memory and the hash it is kept under. A run that begins after the erasure read such a hash, so
  whichever of the two it takes its rows from is without them.
- `SameAsAFullRun`: `IncrementalSpec => []AsAFullRun` under the same condition. `Rightly` says that every
  record of a run is right (`RightRun`: each piece of its result is there once, and the pieces are those
  of what it says it read), that a record which names a version read just its rows, until an
  erasure rewrites them (`Faithful`), and what a run between two of its steps may rely on (`Builds`:
  the rows it compares with are those the previous record read, and for an append they are the
  first of the rows it reads). A result is compared as a set of pieces, each named by the rows it comes
  from (`Pieces`), which spares the order. `AppendRight` and `PartitionRight` are then facts about sets:
  the pieces of the old rows stay, or those of unchanged partitions do, for the kinds of steps
  that the checks before an incremental run allow. The lengths agree because both
  sequences have each piece once.
- `ResultsTypesHold`: `ResultsSpec => []ResultsTypeOK`, from the types of each (`ShapeOK` for the
  second: versions that a run names exist, a run has a mode and a previous record once it has decided).

**`Schedules_proofs`**

- `TypeCorrect`: `Spec => []TypeOK`.
- `OneAtATime`: if executions end within their lease (`Outlast = FALSE`),
  `Spec => []OneExecution`. The inductive invariant joins `TypeOK`, the fact that nobody
  has a trigger in hand before the first trigger, `LeaseHeld` and `OneExecution`.
  `LeaseHeld`: a schedule that a poller works on shows a lease that has not run out.
  A claim needs a lease that has run out or
  none, so it finds no other poller at that schedule; only the poller that works on a
  schedule clears its lease, as `OneExecution` lets it be the only one; edits,
  toggles and deletions leave leases alone, and the clock waits.
- `SlotsGoInOrder`: under the same condition, `SlotsInOrder`: each slot is executed
  once and those of a schedule in order, none is skipped while nobody edits, and
  retries stay within the limit. `Passed` relates the row to what was executed: every slot
  executed lies before the row's next, or is that one and in work, or was left by a poller
  that stopped. `NoneMissing` says the converse, and `RetriesPaid` that the retries made and owed
  are within the limit for each edit. The lemmas on `SlotAfter` (it is the least slot after
  an instant) carry the calendar. A bound without the edits is false, as the proof showed: an
  edit clears the count, and one that comes while a retry is executed gives the same slot
  a whole set of retries again.

**`DatasetVersions_proofs`** (if no prune commits between a holder's read and its lock and
no version is marked again while a pass lists its old mark: `Overtaken`, `Remarked` FALSE)

- `NeededDataStays`: `Spec => []VersionSafety`. The argument needs the clock and the locks.
  `LocksHold`: what a holder has locked, or saw alive and is about to lock, is alive until it
  commits. `PassesInTime`: a pass on its way to its mark is younger than the grace period
  by more than a reader's patience, and one that prunes lists marks that are old enough.
  `ReadersInTime`: an early reader ends before what it reads can be due, as twice the patience
  is less than the grace period.
- `TombstonesStay`: `Spec => PrunedIsFinal`; a step changes states only as `Gentle` says.

**`LiveSources_proofs`** (`LiveTypesHold` for every value; the others if a pass ends within its
lease, `SlowPass` FALSE, and the last two if moreover nobody saves beside the runner, `Person` empty)

- `LiveTypesHold`: `Spec => []TypeOK`.
- `ChangesAreStoredOnce`: `StoredOnce`, the part of `LogSafety` that holds beside
  "Save now" too. `EventInv`: only the owner of a live lease is in a pass; events are stored in the order of
  the source's positions; between the slot and any stored position none is missing, so
  what the source sends again is found stored; and what was trimmed was acknowledged.
- `LogIsWhole`: `Spec => []LogSafety`. `LogInv`: a pass that saves has counted every event
  that is stored, and from the log's publish to its mark the log holds all it will count.
- `TheMirrorIsRight`: `Spec => []MirrorIsRight`. A row of the copy need not be what the table showed at
  the mark: the copy is read later than the position it starts from. `MirrorsRow` says what survives:
  each row is what the table showed for its key at some moment, no earlier than any
  change of that key that was applied. Applying a change again keeps this, and
  once every change has been applied the moment is now.

**`CoEdit_proofs`**

- `CountersHold`: `Spec => []TypeOK`, and `EditsWinAtHome`: `EditsShowAtOnce`, both for any
  `Mishaps`. `Clocks`: a Studio's clock is not behind any stamp that it made or shows. `Starts`: the copy's epoch,
  with one more for each save in progress, is paid for by the restarts and saves that have begun.
- `NobodyLosesWork`: `Spec => []NobodysWorkIsLost` if none of the mishaps happens. `Timely`: no
  epoch or sequence number under way is ahead of the copy's, a refused send is of an epoch that is over,
  and the batches that are kept have no gaps. `Authored`: what is unsent or
  being sent was made in the epoch it is for, and a stamp names one change.
  A change in this epoch then leaves the queue only to be merged.
- `EveryoneSeesOneCopy`: `Spec => []CopySafety` under the same condition. That a Studio with
  nothing outstanding shows the copy is far from inductive. `Agreed` carries three witnesses that the
  code does not store: what the copy of this epoch started from, the batch it started after, and for
  each register the batch that wrote it last (`w`). A register that a Studio shows is not older than
  the copy's if its last write is within the Studio's sequence number (`Covers`); it is newer only while
  the Studio still has the change that made it so (`Holds`); and a reply carries every
  register written after what the Studio had (`Carries`), or is the whole copy.

**`Services_proofs`** (each under the passing values that its protocol needs)

| Theorem | Property | What the inductive invariant adds |
|---|---|---|
| `RunsAreSafe`, `RunVerdictIsFinal` | `RunSafety`, `RunVerdictStands` | whoever is at a run shows its lease; what a worker's place says of the run and of its file; a run that failed elsewhere has somebody who will still mark its file; how many may be running or about to claim |
| `UploadsAreSafe` | `UploadSafety` | what a row lists or a request will write to it was stored; one request finishes; a client asks to complete once all has arrived, and sends nothing after |
| `WritebackIsSafe`, `WhatWasSeenIsReplaced` | `WritebackSafety`, `NothingWrittenOver` | a commit has the edits as they are; what was run is recorded after; a cell that an edit changed is not one it would change again |
| `AlertsAreSafe` | `AlertSafety` | an event or a delivery is in the hands of one sender, from the attempts its row shows; each post is counted, waits to be, or was lost with a worker; the last event and the state of the alert tell whether it is over its line |
| `ImportsAreSafe` | `ImportSafety` | what stopped a run or edited the job pays for each time a row may be stored again; the mark a run will leave has all rows behind it in what the run has in hand; a dataset that nobody refers to was left by a run that stopped |
| `ContractsAreShown` | `ContractSafety` | what is told as let through is what the head breaks, what is told as stopped is each feed's last data, before and after the one commit that a verdict waits for |
| `IncidentsAreSafe` | `IncidentSafety` | active incidents and the sweeps that saw none and may yet open one are together no more than were under way at once and brought back |
| `NothingIsTakenBack` | `NothingIsUndone` | the two action properties, for the protocols side by side |

**Only model-checked.** Liveness, being out of the prover's reach. Every invariant and every property of steps
that a passing run checks is stated by a theorem, some under the conditions listed in "What the
passing runs assume". Recursive operators of the library
are out of its reach too, which is why `IncrementalRuns` filters rows with a recursive function of
its own (`Those`), about which `ThoseIs` is proved: its rows are those of the sequence that are wanted.

## Where the code departs from its documentation

Two departures are runs that TLC must find violated; `PROJECT.json` quotes the sentence each refutes.

| Run | What happens |
|---|---|
| `queue_orphan` | `release_stalled_runs` clears the lease in one commit and records the verdict in the next (`queue.py:271`): a worker that dies in between leaves a run that is running for good and counts against its project's limit |
| `cron_ahead` | `enqueue_due_workflows` reads each workflow after the first again and does not ask again whether it is due (`queue.py:296`): one edited meanwhile is queued for its next slot ahead of time, and any later edit makes that slot due a second time |

Nine more are reached by a model with a constant of the table above set the other way: TLC then finds
the property violated.

| Property | Set | What happens, and what says otherwise |
|---|---|---|
| `AsAFullRun` | `PublishMeanwhile` | the number of the input's version is read after its file (`run.py:169`, `180`): a version published in between is recorded as what the run read, and the next run finds nothing changed (against `incremental.py:22-23`) |
| `PrunedIsFinal` | `Overtaken` | `_locked_version` locks the row without refreshing one that is loaded (`version_lifecycle.py:66`): a pin puts a pruned version back (against `version_lifecycle.py:25-26`) |
| `LogMissesNothing` | `Person` | "Save now" takes no lease (`streams.py:1100`): it publishes the log over a newer one, and changes that count as saved are not in it (against `streams.py:16-17`) |
| `NoSaveOverAnother` | two of `Saver`, `Mishaps` "saves overlap" | `check_save` counts the revision without a lock (`coedit.py:512`): two saves of one revision both pass, and the second writes over the first (against `service.py:176-177`) |
| `EveryFileIsDecided` | `DiesBetween` | the hook of a failure follows the commit that fails the run (`background.py:189`, `223`): after a death between them the dataset is "being read" for ever, which the hook is there to prevent (against `service.py:516-518`) |
| `NothingWrittenOver` | `Repeated` | a batch of updates is judged by the sum of its rows (`compiler.py:271`): with a key that is not unique, one row missed and another hit twice add up (against `compiler.py:180-182`) |
| `CrossingsAlternate` | `CapturesOverlap` | the alert's state is compared as it was read (`alerts.py:141`): two captures at once report one crossing twice (against `alerts.py:10-11`) |
| `BrokenStaysOut` | `Meanwhile` | data is judged before it is stored and not again when it is committed (`data_contracts.py:489`): a contract saved in between lets it in (against `data_contracts.py:10-11`) |
| `SameIncident` | two of `Sweeper` | `report` opens an incident when it finds none, with nothing to keep two sweeps apart (`incidents.py:163`): one fingerprint has two (against `incidents.py:7-8`) |

The others were met while modelling.

*Workflow runs and cron* (`service_workflows`)

- `cancel_run` decides on a status it read before a claim committed
  (`queue.py:391`): a cancelled run is then executed, and its verdict replaces the
  cancellation. `CancelledRunsAreNotExecuted` in `WorkflowQueue` states what its docstring says.
- The limit of runs at once is counted before the claim's lock
  (`queue.py:168`), so every further worker can pass it by one run.
- `enqueue_due_workflows` says that a slow tick cannot queue an occurrence twice
  (`queue.py:289-290`). Without edits one worker's ticks cannot; two workers' ticks that both
  read the row can.
  A death after the advance (`queue.py:298`) loses the slot, and an edit during a tick is
  overwritten, or has its new time fired at once.
- Saving a workflow, even unchanged, deletes the rows that a running executor holds
  (`service.py:114`): the run fails, and the task that it was working on is done again by the pick-up.
- A pick-up reuses a result on the task's own settings and on what was reused in
  this run (`executor.py:228-235`): a link added since, or a dataset that is used
  without a link, does not make the task run again. Changing settings or links to and fro over an
  intermediate pick-up makes an unchanged task run again, and a pick-up that died early is
  the one picked up next, with the little it recorded.
- `execution_count` is read and written back (`executor.py:488`); two runs that end
  together count once.

*Schedules* (`service_schedules`)

- A schedule that is disabled while it is being executed gets its retry and next
  run back at the end (`scheduler_executor.py:163-179`). Nothing executes it while it is
  disabled; what is shown is wrong. `DisabledIsQuiet` in `Schedules` states it.

*Dataset versions* (`service_datasets`)

- The grace period is measured from the mark on the list of due versions
  (`version_lifecycle.py:56-60`). A version that is rescued and marked again after the list
  was read is pruned without a second wait (`Remarked`).

*Live sources* (`service_extraction`)

- "Start again" resets marks under a pass that is reading (`streams.py:484`, `SlowPass`);
  the pass stores its batch behind the new position.
- A table whose first copy was interrupted stays in state `snapshot`, which no pass
  looks for (`streams.py:773`, `DiesCopying`).
- A live recipe without a window is documented as saving its rows and its position "in one
  transaction" (`live_recipes.py:22-23`); publishing the dataset commits on its own
  before the position does (found by reading; live recipes are not modelled).

*Shared editing* (`coedit.py`, `use-recipe-editing.ts`)

- The mishaps of the table (`Mishaps`) lose a change or bring one back. The most likely:
  an edit made before the first reply has come, and a whole copy that replaces a Studio's recipe
  while changes wait to be sent.

*Background runs and uploads* (`service_pipeline_runs`, `service_ingestion`)

- `sweep` hands the expired sessions back "so their parts go too"
  (`resumable.py:197`), and its caller drops the result (`resumable.py:166`); the parts
  stay. `PartsGoWithTheSession` in `Uploads` states the promise.
- `completed` is set in memory and never saved (`resumable.py:281`), so nothing tells a
  session that is being completed from another; two completions ingest twice (`Overlaps`). A
  completion that names an unknown layout fails after the parts were removed and
  before the row is (`router.py:283-291`), and the session then offers to resume from
  chunks that are gone.

*Write-back* (`service_writeback`)

- A change set that is being committed still takes edits, and marks them
  committed (`EditedMeanwhile`).

*Alerts and webhooks* (`service_observability`, `service_notifications`)

- An event is marked sent before it is sent; a death between loses it (`DiesSending`), and so does a failure to tell, as `alerts.py:229-233` says. Up to
  fifty deliveries are posted before one commit records them, and are posted again after a death.

*Imports* (`service_extraction`)

- In append mode a stop between the dataset's commit and the watermark's, or a reset of the
  watermark, loads rows twice; `incremental.py:7-9` says so of the reset only.
- A deleted target "simply means start fresh" (`extract.py:102`). The watermark
  stays, so the new dataset lacks every older row.
- `docs/plans/phase-18-decisions.md:77-84` says that every extraction run creates a dataset. The
  code keeps one per job and publishes versions of it.

*Recipes* (`service_transformations`, `service_enterprise`)

- A joined dataset is looked at when the run decides and read when it applies, so a version
  published in between is not compared (`PublishMeanwhile`).
- After a destructive erasure an incremental result keeps what it kept, so it is
  no longer a full run's. The erasure reports derived datasets as blocked until their
  recipe runs again (`service_enterprise/service.py:966-978`), and an incremental
  run does not clear them.
- `_erase_destructively` speaks of every historical version; a dataset whose current
  version does not mention the person is skipped before it is reached
  (`service_enterprise/service.py:955`).
- No copy "outlives its file" (`read_copy.py:20-23`), unless a reader that had
  read the file before writes the copy after it was forgotten.

*Contracts and incidents* (`service_quality`, `service_observability`)

- `_record_problem` returns early when it finds the same problem again, and leaves
  a problem it would have superseded open; which of two it finds first is the order of an unordered
  SELECT. A contract that arrives in a bundle is saved without judging the data there is. Two ticks open
  the problem of late data twice.
- `reopen` looks for no other active incident, and an acknowledgement that read
  the incident earlier makes a resolved one active again, beside another that was opened since.

## Not modelled

These modules stand for the code in which processes meet. Most of the repository is something
else, and the map of `PROJECT.json` covers a small share of it for that reason: steps and tools that turn one table into another, the
translation of other tools' files, charts and reports, connectors' drivers,
schemas and routers, the views of the web application and generated clients are
pure functions, or input and output. What they compute is a matter for example-based and
property-based tests; a model of them would be a copy.

| Part | Why |
|---|---|
| Governance: change requests, comments, presence, promotion | a suggestion is approved, rejected or withdrawn by a write on its id after an unlocked look at its status. One review at a time is one transaction; of two that overlap the last verdict stays, whatever was applied, so there is nothing to state that the code keeps. By reading: an approval writes the parameters back as they were when the change was suggested (`recipe_suggestions.py:51-57` says that they stay as they are), and a save that overlaps a change of parameters records a version that the recipe never was (`versioning.py:97-114`) |
| Accounts, sessions and codes | passwords, tokens and one-time passwords are library calls; the rest is single rows looked up by a hash and updated once |
| Enterprise controls | retention is in `DatasetVersions` and erasure in `IncrementalRuns`; single sign-on, tenancy and telemetry are settings and calls outside |
| Permissions | a pure decision over roles and grants |
| Projects and sources | records that one person creates, renames and deletes |
| Connectors, destinations | calls to systems outside; the schema sweep compares two reads and writes a report |
| Reporting, lineage, comparisons, intelligence, workbench | read what other components keep; notebooks and SQL run for one person in a process of their own |
| Gateway, shared library | routing, translation, formatting; the rate limit is one atomic statement |
| Clients, plugin SDK, deployment, most of the web application | keep no state that others share |

Left out of components that are modelled: what a task, step or schedule does to data (a committed
effect); best-effort metrics and usage records; previews and reader's policies;
deletion of projects and datasets in the middle of everything (an import's target
excepted); live recipes and the polling, webhook and topic kinds of a live source; undo, fractional
positions and step types in shared editing; structural write-back and NULL; the
checks that a contract makes of a table and its messages, the promise on a share of rows among them
(it compares with the version before, which a check by hand does not); severity, assignment and comments of an incident; the
database's and the file store's own failures beyond a transaction that is rolled
back or a call that fails (so a delivery that was posted is recorded unless its worker dies).

## Plan

The models cover every protocol that the survey found, and the theorems every safety property
that a run checks. What is left is size: live recipes as a third output of
`LiveSources`, and governance's approvals together with the component they change.
