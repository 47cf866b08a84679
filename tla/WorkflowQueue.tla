---------------------------- MODULE WorkflowQueue ----------------------------
(***************************************************************************)
(* The leased queue of workflow runs: service_workflows/queue.py, the      *)
(* lease that shared_python/lease.py renews, and the parts of              *)
(* service_workflows/executor.py that write the run's own row.             *)
(*                                                                         *)
(* One action is one committed transaction, or the read a later            *)
(* transaction acts on.  Several worker processes and request handlers     *)
(* interleave; a worker can die between any two of its transactions.       *)
(* What a run does while it executes is in WorkflowExecution.              *)
(*                                                                         *)
(* Time is abstracted to what the queue compares: a lease is absent,       *)
(* "live" (claim_expires_at > now) or "past".                              *)
(***************************************************************************)
EXTENDS Naturals, Sequences, FiniteSets

CONSTANTS
    Run,              \* workflow_runs rows that may come to exist
    Worker,           \* worker processes
    Project,
    ProjectOf,        \* [Run -> Project]
    Trigger,          \* [Run -> Triggers]
    ResumeOf,         \* [Run -> Run \cup {NoRun}]: the failed run it picks up
    Backfills,        \* sequences of runs queued by one backfill, oldest slot first
    Limit,            \* [Project -> Nat]: runs at once
    Identity,         \* [Worker -> Owner]: worker_identity; two may share one
    Owner,
    NoRun,
    NoOwner,
    RenewalsFail,     \* a live worker can miss its renewals for a whole lease
    DiesClosing,      \* a worker can die between the two commits of a release
    MaxCrashes        \* bound on worker deaths

Triggers == {"manual", "resume", "cron", "backfill"}
Statuses == {"none", "queued", "running", "succeeded", "failed", "partial", "cancelled"}
Terminal == {"succeeded", "failed", "partial", "cancelled"}
Outcomes == {"succeeded", "failed", "partial"}

ASSUME QueueAssumption ==
    /\ ProjectOf \in [Run -> Project]
    /\ Trigger \in [Run -> Triggers]
    /\ ResumeOf \in [Run -> Run \cup {NoRun}]
    /\ \A r \in Run : ResumeOf[r] # NoRun => Trigger[r] = "resume"   \* resume_run only
    /\ Backfills \subseteq Seq(Run)
    /\ Limit \in [Project -> Nat \ {0}]
    /\ Identity \in [Worker -> Owner]
    /\ NoRun \notin Run
    /\ NoOwner \notin Owner
    /\ RenewalsFail \in BOOLEAN
    /\ DiesClosing \in BOOLEAN
    /\ MaxCrashes \in Nat

VARIABLES
    status,       \* [Run -> Statuses]; "none" before the row is inserted
    lease,        \* [Run -> {"none", "live", "past"}]: claim_expires_at against now
    owner,        \* [Run -> Owner \cup {NoOwner}]: claim_owner_id
    queuedAt,     \* [Run -> Nat]: the order of queued_at, 0 before it is queued
    arrivals,     \* how many runs have been queued
    cancelling,   \* runs a cancel request has read as queued and not yet written
    finishes,     \* [Run -> Nat]: how often _finish counted and announced the run
    pc,           \* [Worker -> where its loop is]
    job,          \* [Worker -> the run in its hands]
    stalled,      \* [Worker -> the rest of the list release_stalled_runs read]
    crashes

vars == <<status, lease, owner, queuedAt, arrivals, cancelling, finishes,
          pc, job, stalled, crashes>>
rows == <<status, lease, owner, queuedAt, arrivals, cancelling, finishes>>

Points == {"down", "tick", "releasing", "closing", "draining", "claiming",
           "starting", "executing", "extending"}

TypeOK ==
    /\ status \in [Run -> Statuses]
    /\ lease \in [Run -> {"none", "live", "past"}]
    /\ owner \in [Run -> Owner \cup {NoOwner}]
    /\ queuedAt \in [Run -> Nat]
    /\ arrivals \in Nat
    /\ cancelling \in SUBSET Run
    /\ finishes \in [Run -> Nat]
    /\ pc \in [Worker -> Points]
    /\ job \in [Worker -> Run \cup {NoRun}]
    /\ stalled \in [Worker -> SUBSET Run]
    /\ crashes \in Nat

Init ==
    /\ status = [r \in Run |-> "none"]
    /\ lease = [r \in Run |-> "none"]
    /\ owner = [r \in Run |-> NoOwner]
    /\ queuedAt = [r \in Run |-> 0]
    /\ arrivals = 0
    /\ cancelling = {}
    /\ finishes = [r \in Run |-> 0]
    /\ pc = [w \in Worker |-> "tick"]
    /\ job = [w \in Worker |-> NoRun]
    /\ stalled = [w \in Worker |-> {}]
    /\ crashes = 0

-----------------------------------------------------------------------------
(* Requests: queue a run, queue a backfill, cancel.                        *)

\* The run a resume names must have failed or finished partly; any other
\* run is queued when its workflow is enabled.
MayQueue(r) ==
    /\ status[r] = "none"
    /\ ResumeOf[r] # NoRun => status[ResumeOf[r]] \in {"failed", "partial"}

Enqueue(r) ==
    /\ MayQueue(r)
    /\ Trigger[r] # "backfill"
    /\ status' = [status EXCEPT ![r] = "queued"]
    /\ arrivals' = arrivals + 1
    /\ queuedAt' = [queuedAt EXCEPT ![r] = arrivals + 1]
    /\ UNCHANGED <<lease, owner, cancelling, finishes, pc, job, stalled, crashes>>

\* Every slot of the plan in one transaction, each a microsecond later.
QueueBackfill(slots) ==
    /\ \A i \in DOMAIN slots : status[slots[i]] = "none" /\ Trigger[slots[i]] = "backfill"
    /\ status' = [r \in Run |-> IF \E i \in DOMAIN slots : slots[i] = r
                                THEN "queued" ELSE status[r]]
    /\ arrivals' = arrivals + Len(slots)
    /\ queuedAt' = [r \in Run |->
                      IF \E i \in DOMAIN slots : slots[i] = r
                      THEN arrivals + (CHOOSE i \in DOMAIN slots : slots[i] = r)
                      ELSE queuedAt[r]]
    /\ UNCHANGED <<lease, owner, cancelling, finishes, pc, job, stalled, crashes>>

\* cancel_run reads the row and refuses unless it is queued ...
CancelRead(r) ==
    /\ status[r] = "queued"
    /\ cancelling' = cancelling \cup {r}
    /\ UNCHANGED <<status, lease, owner, queuedAt, arrivals, finishes, pc, job, stalled, crashes>>

\* Mutant: the claim selects without FOR UPDATE.
NeverLocked(r) == FALSE

\* The run's row is locked by a claim that has selected it.
RowLocked(r) == \E w \in Worker : pc[w] = "claiming" /\ job[w] = r

\* Mutant: a cancelled run gets a status nothing else knows.
CancelWriteUnknown(r) ==
    /\ r \in cancelling
    /\ ~RowLocked(r)
    /\ cancelling' = cancelling \ {r}
    /\ status' = [status EXCEPT ![r] = "canceled"]
    /\ UNCHANGED <<lease, owner, queuedAt, arrivals, finishes, pc, job, stalled, crashes>>

\* ... and then writes by the row's id alone, once no claim holds the row.
\* The session read the claim as empty, so setting it to None writes nothing.
CancelWrite(r) ==
    /\ r \in cancelling
    /\ ~RowLocked(r)
    /\ cancelling' = cancelling \ {r}
    /\ status' = [status EXCEPT ![r] = "cancelled"]
    /\ UNCHANGED <<lease, owner, queuedAt, arrivals, finishes, pc, job, stalled, crashes>>

-----------------------------------------------------------------------------
(* A worker's tick, first half: release_stalled_runs.                      *)

Goto(w, point) == pc' = [pc EXCEPT ![w] = point]

\* Mutant: the sweep looks among the queued runs.
LooksStalledQueued(r) == status[r] = "queued" /\ lease[r] = "past"

LooksStalled(r) == status[r] = "running" /\ lease[r] = "past"

ReleaseScan(w) ==
    /\ pc[w] = "tick"
    /\ Goto(w, "releasing")
    /\ stalled' = [stalled EXCEPT ![w] = {r \in Run : LooksStalled(r)}]
    /\ UNCHANGED <<rows, job, crashes>>

\* Mutant: the update is made by the row's id alone.
ReleaseRowBlindly(w, r) ==
    /\ pc[w] = "releasing"
    /\ r \in stalled[w]
    /\ stalled' = [stalled EXCEPT ![w] = @ \ {r}]
    /\ lease' = [lease EXCEPT ![r] = "none"]
    /\ owner' = [owner EXCEPT ![r] = NoOwner]
    /\ job' = [job EXCEPT ![w] = r]
    /\ Goto(w, "closing")
    /\ UNCHANGED <<status, queuedAt, arrivals, cancelling, finishes, crashes>>

\* The conditional UPDATE: a run renewed, finished or released since the scan
\* is left alone.
ReleaseRow(w, r) ==
    /\ pc[w] = "releasing"
    /\ r \in stalled[w]
    /\ stalled' = [stalled EXCEPT ![w] = @ \ {r}]
    /\ IF LooksStalled(r)
       THEN /\ lease' = [lease EXCEPT ![r] = "none"]
            /\ owner' = [owner EXCEPT ![r] = NoOwner]
            /\ job' = [job EXCEPT ![w] = r]
            /\ Goto(w, "closing")
       ELSE UNCHANGED <<lease, owner, job, pc>>
    /\ UNCHANGED <<status, queuedAt, arrivals, cancelling, finishes, crashes>>

\* _finish writes the verdict by the row's id, clears the claim, counts the
\* run on its workflow and tells its person.
Finish(r, verdict) ==
    /\ status' = [status EXCEPT ![r] = verdict]
    /\ lease' = [lease EXCEPT ![r] = "none"]
    /\ owner' = [owner EXCEPT ![r] = NoOwner]
    /\ finishes' = [finishes EXCEPT ![r] = @ + 1]
    /\ UNCHANGED <<queuedAt, arrivals, cancelling>>

\* Mutant: a stalled run is put back in the queue.
CloseByRequeueing(w) ==
    /\ pc[w] = "closing"
    /\ Finish(job[w], "queued")
    /\ job' = [job EXCEPT ![w] = NoRun]
    /\ Goto(w, "releasing")
    /\ UNCHANGED <<stalled, crashes>>

CloseStalled(w) ==
    /\ pc[w] = "closing"
    /\ Finish(job[w], "failed")
    /\ job' = [job EXCEPT ![w] = NoRun]
    /\ Goto(w, "releasing")
    /\ UNCHANGED <<stalled, crashes>>

ReleaseDone(w) ==
    /\ pc[w] = "releasing"
    /\ stalled[w] = {}
    /\ Goto(w, "draining")
    /\ UNCHANGED <<rows, job, stalled, crashes>>

-----------------------------------------------------------------------------
(* Second half: claim and execute, run by run.                             *)

Priority(r) == CASE Trigger[r] \in {"manual", "resume"} -> 0
                 [] Trigger[r] = "cron" -> 1
                 [] Trigger[r] = "backfill" -> 2

RunningIn(p) == {r \in Run : status[r] = "running" /\ ProjectOf[r] = p}
Busy(p) == Cardinality(RunningIn(p)) >= Limit[p]

\* What the claim query can return: SKIP LOCKED passes over locked rows.
Claimable(r) == status[r] = "queued" /\ ~RowLocked(r) /\ ~Busy(ProjectOf[r])

Before(r, q) ==
    \/ Priority(r) < Priority(q)
    \/ Priority(r) = Priority(q) /\ queuedAt[r] < queuedAt[q]

ClaimSelect(w, r) ==
    /\ pc[w] = "draining"
    /\ Claimable(r)
    /\ \A q \in Run \ {r} : Claimable(q) => Before(r, q)
    /\ job' = [job EXCEPT ![w] = r]
    /\ Goto(w, "claiming")
    /\ UNCHANGED <<rows, stalled, crashes>>

\* Mutant: the claim sets no expiry.
ClaimForever(w) ==
    /\ pc[w] = "claiming"
    /\ status' = [status EXCEPT ![job[w]] = "running"]
    /\ owner' = [owner EXCEPT ![job[w]] = Identity[w]]
    /\ Goto(w, "starting")
    /\ UNCHANGED <<lease, queuedAt, arrivals, cancelling, finishes, job, stalled, crashes>>

ClaimCommit(w) ==
    /\ pc[w] = "claiming"
    /\ status' = [status EXCEPT ![job[w]] = "running"]
    /\ owner' = [owner EXCEPT ![job[w]] = Identity[w]]
    /\ lease' = [lease EXCEPT ![job[w]] = "live"]
    /\ Goto(w, "starting")
    /\ UNCHANGED <<queuedAt, arrivals, cancelling, finishes, job, stalled, crashes>>

\* The claim is read back after its commit, and the executor then sets the
\* status to running: a verdict written in between is overwritten.
StartRun(w) ==
    /\ pc[w] = "starting"
    /\ status' = [status EXCEPT ![job[w]] = "running"]
    /\ Goto(w, "executing")
    /\ UNCHANGED <<lease, owner, queuedAt, arrivals, cancelling, finishes, job, stalled, crashes>>

NothingToClaim(w) ==
    /\ pc[w] = "draining"
    /\ \A r \in Run : ~Claimable(r)
    /\ Goto(w, "tick")
    /\ UNCHANGED <<rows, job, stalled, crashes>>

\* The lease thread of `kept`, while the run executes.
Renew(w) ==
    /\ pc[w] \in {"executing", "extending"}
    /\ owner[job[w]] = Identity[w]
    /\ lease[job[w]] # "none"
    /\ lease' = [lease EXCEPT ![job[w]] = "live"]
    /\ UNCHANGED <<status, owner, queuedAt, arrivals, cancelling, finishes, pc, job, stalled, crashes>>

\* _keep_the_lease before a retry's wait: read the lease ...
ExtendRead(w) ==
    /\ pc[w] = "executing"
    /\ lease[job[w]] # "none"
    /\ Goto(w, "extending")
    /\ UNCHANGED <<rows, job, stalled, crashes>>

\* ... then write it by the row's id.
ExtendWrite(w) ==
    /\ pc[w] = "extending"
    /\ lease' = [lease EXCEPT ![job[w]] = "live"]
    /\ Goto(w, "executing")
    /\ UNCHANGED <<status, owner, queuedAt, arrivals, cancelling, finishes, job, stalled, crashes>>

\* The run ends, or crashes and _record_crash fails it; then the loop goes on,
\* or this tick has done its max_runs.
FinishRun(w, verdict) ==
    /\ pc[w] = "executing"
    /\ Finish(job[w], verdict)
    /\ job' = [job EXCEPT ![w] = NoRun]
    /\ Goto(w, "draining") \/ Goto(w, "tick")
    /\ UNCHANGED <<stalled, crashes>>

\* The run crashed and its bookkeeping could not be written either: nothing is
\* recorded and nobody renews the lease any more.
AbandonRun(w) ==
    /\ pc[w] = "executing"
    /\ job' = [job EXCEPT ![w] = NoRun]
    /\ Goto(w, "tick")
    /\ UNCHANGED <<rows, stalled, crashes>>

-----------------------------------------------------------------------------
(* Time and failures.                                                      *)

Working == {"starting", "executing", "extending"}
Holds(w, r) == pc[w] \in Working /\ job[w] = r

\* Mutant: nothing renews the lease while the run works.
NotKept(w, r) == FALSE
KeptBy(w, r) == Holds(w, r) /\ owner[r] = Identity[w]

\* Renewed every quarter of its length, a lease passes only when no worker
\* keeps it any more, or when renewals fail for the whole of it.
LeaseRunsOut(r) ==
    /\ lease[r] = "live"
    /\ RenewalsFail \/ \A w \in Worker : ~KeptBy(w, r)
    /\ lease' = [lease EXCEPT ![r] = "past"]
    /\ UNCHANGED <<status, owner, queuedAt, arrivals, cancelling, finishes, pc, job, stalled, crashes>>

Crash(w) ==
    /\ crashes < MaxCrashes
    /\ pc[w] # "down"
    /\ pc[w] = "closing" => DiesClosing
    /\ Goto(w, "down")
    /\ job' = [job EXCEPT ![w] = NoRun]
    /\ stalled' = [stalled EXCEPT ![w] = {}]
    /\ crashes' = crashes + 1
    /\ UNCHANGED rows

Restart(w) ==
    /\ pc[w] = "down"
    /\ Goto(w, "tick")
    /\ UNCHANGED <<rows, job, stalled, crashes>>

-----------------------------------------------------------------------------
Request ==
    \/ \E r \in Run : Enqueue(r) \/ CancelRead(r) \/ CancelWrite(r)
    \/ \E slots \in Backfills : QueueBackfill(slots)

\* The steps a worker that is up takes of its own accord.
Proceed(w) ==
    \/ ReleaseScan(w) \/ CloseStalled(w) \/ ReleaseDone(w)
    \/ ClaimCommit(w) \/ StartRun(w) \/ NothingToClaim(w) \/ ExtendWrite(w)
    \/ \E r \in Run : ReleaseRow(w, r) \/ ClaimSelect(w, r)

End(w) == \E verdict \in Outcomes : FinishRun(w, verdict)

WorkerStep(w) ==
    Proceed(w) \/ End(w) \/ Renew(w) \/ ExtendRead(w) \/ AbandonRun(w)

Next ==
    \/ Request
    \/ \E w \in Worker : WorkerStep(w) \/ Crash(w) \/ Restart(w)
    \/ \E r \in Run : LeaseRunsOut(r)

Spec == Init /\ [][Next]_vars

\* A worker that is up keeps working and a dead one is started again by its
\* supervisor; time passes; a run ends, because each of its tasks has a
\* bounded number of tries (the strong fairness: a retry's wait comes between).
Fairness ==
    /\ \A w \in Worker :
         WF_vars(Proceed(w)) /\ WF_vars(Restart(w)) /\ SF_vars(End(w))
    /\ \A r \in Run : WF_vars(LeaseRunsOut(r))

FairSpec == Spec /\ Fairness

-----------------------------------------------------------------------------
(* Properties.                                                             *)

InHand == {"claiming", "starting", "executing", "extending"}

\* Two workers never have the same run in their hands, whatever happens to
\* leases and clocks ("several workers can poll the same table without handing
\* the same run to two of them"): the claim's row lock and its status guard,
\* and the rule that a stalled run is failed and not claimed again.
OneWorkerPerRun ==
    \A w1, w2 \in Worker :
        /\ pc[w1] \in InHand /\ pc[w2] \in InHand
        /\ job[w1] = job[w2]
        => w1 = w2

\* The inductive strengthening of OneWorkerPerRun: a run a claim has selected
\* is still queued, because the claim holds its row; a run in work or being
\* closed has left the queue for good; a cancel in flight has seen a row.
HeldRuns ==
    /\ \A w \in Worker : pc[w] \in InHand \cup {"closing"} => job[w] \in Run
    /\ \A w \in Worker : pc[w] = "claiming" => status[job[w]] = "queued"
    /\ \A w \in Worker :
         pc[w] \in Working \cup {"closing"} => status[job[w]] \notin {"none", "queued"}
    /\ \A r \in cancelling : status[r] # "none"

SafeInv == TypeOK /\ HeldRuns /\ OneWorkerPerRun

\* While renewals arrive in time, a run is counted and announced once: the
\* verdict of its own worker and the one of release_stalled_runs never both land.
FinishedOnce == \A r \in Run : finishes[r] <= 1

\* While renewals arrive in time, a run that resumes another never works at the
\* same time as it ("replaying one could publish the same data or send the
\* same notification twice"): the earlier run is failed or partial, and no
\* worker is at it any more.
ResumeWaits ==
    \A w1, w2 \in Worker :
        /\ pc[w1] \in Working /\ pc[w2] \in Working
        /\ ResumeOf[job[w1]] # NoRun
        => ResumeOf[job[w1]] # job[w2]

\* "A run whose worker dies is failed once its lease expires": a running row
\* without a lease can never be released, so some worker must be about to
\* record its verdict.
NoOrphans ==
    \A r \in Run :
        status[r] = "running" /\ lease[r] = "none"
        => \E w \in Worker : pc[w] = "closing" /\ job[w] = r

\* "Cancel a run that has not started executing yet": a worker never has a
\* cancelled run in its hands.
CancelledRunsAreNotExecuted ==
    \A w \in Worker : pc[w] \in Working => status[job[w]] # "cancelled"

\* The ledger's view of a row.  Until its worker has written "running" over
\* whatever was recorded since the claim, a claimed run counts as taken.
Starting(r) == \E w \in Worker : pc[w] = "starting" /\ job[w] = r

ledgerState ==
    [r \in Run |->
       IF Starting(r) THEN "taken"
       ELSE CASE status[r] = "none" -> "absent"
              [] status[r] = "queued" -> "waiting"
              [] status[r] = "running" -> "taken"
              [] OTHER -> "settled"]

Ledger == INSTANCE RunLedger WITH state <- ledgerState

\* The queue keeps the ledger's promise: a run is taken at most once and a
\* settled one is never taken again, with stale cancels, lost leases, dying
\* workers and late verdicts included.
KeepsTheLedger == Ledger!LedgerSpec

\* A queued run reaches a verdict, whichever workers die on the way.
EveryRunEnds == Ledger!EverySubmittedRunSettles
=============================================================================
