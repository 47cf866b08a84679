--------------------------- MODULE BackgroundRuns ---------------------------
(***************************************************************************)
(* Long work done by the worker instead of the request                     *)
(* (service_pipeline_runs/background.py), with the large uploads that use  *)
(* it (service_ingestion/service.py): the run, its lease, the dataset the  *)
(* file becomes, and what marks the dataset when the run fails elsewhere.  *)
(*                                                                         *)
(* One action is one committed transaction, or a read that a later one     *)
(* acts on.  Every run here is of one project, whose limit is Limit.       *)
(***************************************************************************)
EXTENDS Naturals, FiniteSets

CONSTANTS
    Run,
    Worker,
    Unclaimed,
    Limit,        \* runs of the project at once
    MaxDeaths,    \* bound on deaths and on errors of the database
    DiesBetween,  \* a worker dies, or errs, between two commits of one verdict
    Lapses        \* the side thread misses its renewals while its worker works

\* A limit is at least one (limits.py:74, and the schema of a project).
ASSUME RunsAssumption ==
    /\ IsFiniteSet(Run) /\ IsFiniteSet(Worker)
    /\ Limit \in Nat \ {0} /\ MaxDeaths \in Nat

VARIABLES
    runStatus,  \* [Run -> PipelineRun.status, "none" before it is queued]
    claim,      \* [Run -> [by, lease]]
    file,       \* [Run -> Dataset.ingestion_status of the file it reads]
    worker,     \* [Worker -> [at, run, list]]
    deaths

runVars == <<runStatus, claim, file, worker, deaths>>

Ended == {"succeeded", "failed"}
Free == [by |-> Unclaimed, lease |-> "none"]
Resting == [at |-> "idle", run |-> Unclaimed, list |-> {}]

\* Where the handler is at work and its lease is kept.
Handling == {"starting", "reading", "marking", "marking failed"}

RunsTypeOK ==
    /\ runStatus \in [Run -> {"none", "queued", "running", "succeeded", "failed"}]
    /\ claim \in [Run -> [by : Worker \cup {Unclaimed}, lease : {"none", "live", "past"}]]
    /\ file \in [Run -> {"none", "pending", "running", "succeeded", "failed"}]
    /\ worker \in [Worker -> [at : Handling \cup {"idle", "claiming", "failing", "hooking",
                                                  "clearing", "releasing", "telling"},
                              run : Run \cup {Unclaimed}, list : SUBSET Run]]
    /\ deaths \in 0..MaxDeaths
    /\ \A r \in Run : file[r] = "none" <=> runStatus[r] = "none"

RunsInit ==
    /\ runStatus = [r \in Run |-> "none"]
    /\ claim = [r \in Run |-> Free]
    /\ file = [r \in Run |-> "none"]
    /\ worker = [w \in Worker |-> Resting]
    /\ deaths = 0

Goto(w, point) == worker' = [worker EXCEPT ![w].at = point]
At(w, point) == worker[w].at = point

-----------------------------------------------------------------------------
(* Queueing and claiming.                                                  *)

\* The request saves the file and leaves the reading to the worker.
QueueUpload(r) ==
    /\ runStatus[r] = "none"
    /\ runStatus' = [runStatus EXCEPT ![r] = "queued"]
    /\ file' = [file EXCEPT ![r] = "pending"]
    /\ UNCHANGED <<claim, worker, deaths>>

Busy(w) == Cardinality({r \in Run : runStatus[r] = "running"}) >= Limit

\* Another worker's claim holds the row: SKIP LOCKED passes it by.
Locked(r) == \E v \in Worker : At(v, "claiming") /\ worker[v].run = r

SelectRun(w, r) ==
    /\ At(w, "idle")
    /\ runStatus[r] = "queued"
    /\ ~Busy(w)
    /\ ~Locked(r)
    /\ worker' = [worker EXCEPT ![w].at = "claiming", ![w].run = r]
    /\ UNCHANGED <<runStatus, claim, file, deaths>>

ClaimRun(w) ==
    LET r == worker[w].run IN
    /\ At(w, "claiming")
    /\ runStatus' = [runStatus EXCEPT ![r] = "running"]
    /\ claim' = [claim EXCEPT ![r] = [by |-> w, lease |-> "live"]]
    /\ Goto(w, "starting")
    /\ UNCHANGED <<file, deaths>>

-----------------------------------------------------------------------------
(* The handler: the file is read, the dataset is finished in one commit and *)
(* the run in the next.                                                    *)

BeginReading(w) ==
    /\ At(w, "starting")
    /\ file' = [file EXCEPT ![worker[w].run] = "running"]
    /\ Goto(w, "reading")
    /\ UNCHANGED <<runStatus, claim, deaths>>

\* The stored file, the dataset or the person is gone.
CannotStart(w) ==
    /\ At(w, "starting")
    /\ Goto(w, "failing")
    /\ UNCHANGED <<runStatus, claim, file, deaths>>

FileIsRead(w, outcome) ==
    /\ At(w, "reading")
    /\ file' = [file EXCEPT ![worker[w].run] = outcome]
    /\ Goto(w, IF outcome = "succeeded" THEN "marking" ELSE "marking failed")
    /\ UNCHANGED <<runStatus, claim, deaths>>

MarkRun(w) ==
    /\ worker[w].at \in {"marking", "marking failed"}
    /\ runStatus' = [runStatus EXCEPT ![worker[w].run] =
                       IF At(w, "marking") THEN "succeeded" ELSE "failed"]
    /\ Goto(w, "clearing")
    /\ UNCHANGED <<claim, file, deaths>>

\* The handler marks the dataset failed although it was read.
MarkingFails(w) ==
    /\ At(w, "marking")
    /\ deaths < MaxDeaths
    /\ deaths' = deaths + 1
    /\ file' = [file EXCEPT ![worker[w].run] = "failed"]
    /\ Goto(w, "marking failed")
    /\ UNCHANGED <<runStatus, claim>>

-----------------------------------------------------------------------------
(* The end of a run, in its own worker and in another's.                   *)

FailRun(w) ==
    LET r == worker[w].run IN
    /\ At(w, "failing")
    /\ runStatus' = IF runStatus[r] \in Ended THEN runStatus
                    ELSE [runStatus EXCEPT ![r] = "failed"]
    /\ Goto(w, IF runStatus[r] \in Ended THEN "clearing" ELSE "hooking")
    /\ UNCHANGED <<claim, file, deaths>>

\* Mutant: nothing else is marked.
FileLeft(r) == file

\* The run failed outside the reading itself: its dataset says so.
FileNotRead(r) == IF file[r] \in Ended THEN file ELSE [file EXCEPT ![r] = "failed"]

AfterFailure(w) ==
    /\ At(w, "hooking")
    /\ file' = FileNotRead(worker[w].run)
    /\ Goto(w, "clearing")
    /\ UNCHANGED <<runStatus, claim, deaths>>

\* By the row's id alone.
ClearClaim(w) ==
    /\ At(w, "clearing")
    /\ claim' = [claim EXCEPT ![worker[w].run] = Free]
    /\ worker' = [worker EXCEPT ![w] = Resting]
    /\ UNCHANGED <<runStatus, file, deaths>>

\* Mutant: nothing renews the lease.
NotKept(r) == FALSE

\* The side thread renews the lease while the handler works.
Kept(r) == ~Lapses /\ \E w \in Worker : worker[w].at \in Handling /\ worker[w].run = r

\* What is left to do after the handler is done within its last renewal.
EndsInTime(r) == ~Lapses /\ \E w \in Worker :
    worker[w].at \in {"failing", "hooking", "clearing"} /\ worker[w].run = r

LeaseRunsOut(r) ==
    /\ claim[r].lease = "live"
    /\ ~Kept(r)
    /\ ~EndsInTime(r)
    /\ claim' = [claim EXCEPT ![r].lease = "past"]
    /\ UNCHANGED <<runStatus, file, worker, deaths>>

Stalled(r) == runStatus[r] = "running" /\ claim[r].lease = "past"

ReleaseScan(w) ==
    /\ At(w, "idle")
    /\ \E r \in Run : Stalled(r)
    /\ worker' = [worker EXCEPT ![w].at = "releasing", ![w].list = {r \in Run : Stalled(r)}]
    /\ UNCHANGED <<runStatus, claim, file, deaths>>

\* One commit for all, and each row only if it is still stalled.
ReleaseRuns(w) ==
    LET released == {r \in worker[w].list : Stalled(r)} IN
    /\ At(w, "releasing")
    /\ runStatus' = [r \in Run |-> IF r \in released THEN "failed" ELSE runStatus[r]]
    /\ claim' = [r \in Run |-> IF r \in released THEN Free ELSE claim[r]]
    /\ worker' = [worker EXCEPT ![w].at = "telling", ![w].list = released]
    /\ UNCHANGED <<file, deaths>>

\* Then what else each failure marks.
AfterRelease(w) ==
    /\ At(w, "telling")
    /\ \E r \in worker[w].list :
         /\ file' = FileNotRead(r)
         /\ worker' = [worker EXCEPT ![w].list = @ \ {r}]
    /\ UNCHANGED <<runStatus, claim, deaths>>

ReleaseDone(w) ==
    /\ At(w, "telling")
    /\ worker[w].list = {}
    /\ worker' = [worker EXCEPT ![w] = Resting]
    /\ UNCHANGED <<runStatus, claim, file, deaths>>

\* A process dies and another takes its place.
WorkerDies(w) ==
    /\ ~At(w, "idle")
    /\ worker[w].at \in {"marking", "hooking", "telling"} => DiesBetween
    /\ deaths < MaxDeaths
    /\ deaths' = deaths + 1
    /\ worker' = [worker EXCEPT ![w] = Resting]
    /\ UNCHANGED <<runStatus, claim, file>>

WorkerStep(w) ==
    \/ \E r \in Run : SelectRun(w, r)
    \/ ClaimRun(w) \/ BeginReading(w) \/ FileIsRead(w, "succeeded") \/ FileIsRead(w, "failed")
    \/ MarkRun(w) \/ FailRun(w) \/ AfterFailure(w) \/ ClearClaim(w)
    \/ ReleaseScan(w) \/ ReleaseRuns(w) \/ AfterRelease(w) \/ ReleaseDone(w)

RunsNext ==
    \/ \E r \in Run : QueueUpload(r) \/ LeaseRunsOut(r)
    \/ \E w \in Worker : WorkerStep(w) \/ CannotStart(w) \/ MarkingFails(w) \/ WorkerDies(w)

\* Workers poll for ever, and a lease that nobody renews runs out.
RunsFairness ==
    /\ \A w \in Worker : WF_runVars(WorkerStep(w))
    /\ \A r \in Run : WF_runVars(LeaseRunsOut(r))

RunsSpec == RunsInit /\ [][RunsNext]_runVars
FairRunsSpec == RunsSpec /\ RunsFairness

-----------------------------------------------------------------------------
\* A worker works only on a run that is going and its own: a stalled run is
\* failed, never worked on by two (background.py:11-13).
OneWorkerHasIt ==
    \A w \in Worker : worker[w].at \in Handling =>
        /\ runStatus[worker[w].run] = "running"
        /\ claim[worker[w].run].by = w
        /\ \A v \in Worker \ {w} : worker[v].at \in Handling => worker[v].run # worker[w].run

\* A verdict is not taken back.
RunVerdictStands ==
    [][\A r \in Run : runStatus[r] \in Ended => runStatus'[r] = runStatus[r]]_runVars

\* When everything about a run is recorded, the run and the dataset say the
\* same: a failed run leaves no dataset "being read".
RunAndFileAgree ==
    \A r \in Run :
        runStatus[r] \in Ended /\ (\A w \in Worker : worker[w].run # r /\ r \notin worker[w].list)
            => file[r] = runStatus[r]

\* The limit is read without a lock: workers that claim together pass it, each
\* by one.
NearTheLimit ==
    Cardinality({r \in Run : runStatus[r] = "running"}) <= Limit + Cardinality(Worker) - 1

\* No file is "being read" for ever, though workers die.
EveryFileIsDecided == <>[](\A r \in Run : file[r] \in Ended \cup {"none"})

\* What holds of queued work at every moment: one worker to a run, the verdict of the run and
\* of its file the same, and few more at once than the limit (background.py).
RunSafety ==
    /\ RunsTypeOK
    /\ OneWorkerHasIt
    /\ RunAndFileAgree
    /\ NearTheLimit
=============================================================================
