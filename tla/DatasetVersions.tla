--------------------------- MODULE DatasetVersions ---------------------------
(***************************************************************************)
(* Pins and pruning of dataset versions: version_lifecycle.py, with the    *)
(* two holders that pin (rollback in service_datasets/service.py, replay   *)
(* in service_transformations/replay.py), the readers that do not, the     *)
(* producers that publish, and the sweeps of the retention policies.       *)
(*                                                                         *)
(* One action is one committed transaction, one read that a later step     *)
(* acts on, or one call to the storage.  Requests and sweeps interleave    *)
(* and can die anywhere.  Every publication writes a path of its own, so   *)
(* a version and its artifact are named by the same value.                 *)
(***************************************************************************)
EXTENDS Naturals, Sequences

CONSTANTS
    Dataset,
    First,          \* [Dataset -> Nat]: versions already there, past the cutoff
    Last,           \* bound: no version number above it is published
    Holder,         \* requests that pin versions
    Asked,          \* what they ask: a rollback's target, or the inputs of a replayed run
    Viewer,         \* requests that read a version without a pin
    Viewed,         \* bound: the versions they open
    Sweeper,        \* the ticker and the button of the governance page
    Grace,          \* PRUNE_GRACE
    Patience,       \* longest a request, or a sweep up to its mark, lasts
    Horizon,        \* bound on the clock
    Overtaken,      \* a prune can commit between a holder's read and its lock
    Remarked,       \* a version can be marked again while a pass still lists its old mark
    MaxFaults       \* bound on dead sweeps and failed removals

Version == Dataset \X (1..Last)
None == <<>>

ASSUME VersionsAssumption ==
    /\ Last \in Nat
    /\ First \in [Dataset -> 1..Last]
    /\ Asked \subseteq [kind : {"rollback", "replay"}, inputs : Seq(Version) \ {None}]
    /\ {Grace, Patience, MaxFaults} \subseteq Nat
    /\ Horizon \in Nat \ {0}
    /\ 2 * Patience < Grace
    /\ Viewed \subseteq Version
    /\ {Overtaken, Remarked} \subseteq BOOLEAN

VARIABLES
    now,
    head,        \* [Dataset -> Nat]: the highest version number
    state,       \* [Version -> retention_state], "absent" before it is published
    deleteAfter, \* [Version -> Nat], 0 for none
    bytes,       \* versions whose artifact is in the storage
    removed,     \* versions with artifact_removed_at
    pins,        \* [Holder -> open pins it has committed]
    job,         \* [Holder -> where the request is]
    view,        \* [Viewer -> the version it reads, from when, and its state then]
    sweep,       \* [Sweeper -> where the pass is]
    faults

vars == <<now, head, state, deleteAfter, bytes, removed, pins, job, view, sweep, faults>>
rows == <<head, state, deleteAfter, removed, pins>>

States == {"absent", "active", "pending_delete", "pruned"}
Idle == [phase |-> "idle", kind |-> "none", of |-> None, todo |-> None,
         seen |-> "none", locked |-> {}, rescued |-> {}, number |-> 0]
Over == [Idle EXCEPT !.phase = "over"]
Resting == [phase |-> "idle", moment |-> 0, todo |-> {}, at |-> None]
NoView == [of |-> None, since |-> 0, was |-> "absent"]

TypeOK ==
    /\ now \in 0..Horizon
    /\ head \in [Dataset -> 1..Last]
    /\ state \in [Version -> States]
    /\ deleteAfter \in [Version -> Nat]
    /\ bytes \subseteq Version
    /\ removed \subseteq Version
    /\ pins \in [Holder -> SUBSET Version]
    /\ job \in [Holder -> [phase : {"idle", "pinning", "reading", "publishing",
                                    "committing", "over"},
                           kind : {"none", "rollback", "replay"}, of : Version \cup {None},
                           todo : Seq(Version), seen : {"none"} \cup States,
                           locked : SUBSET Version, rescued : SUBSET Version,
                           number : 0..Last]]
    /\ view \in [Viewer -> [of : Version \cup {None}, since : Nat, was : States]]
    /\ sweep \in [Sweeper -> [phase : {"idle", "marking", "pruning",
                                       "removing", "recording"},
                              moment : Nat, todo : SUBSET Version,
                              at : Version \cup {None}]]
    /\ faults \in 0..MaxFaults

Init ==
    /\ now = 1
    /\ head = First
    /\ state = [v \in Version |-> IF v[2] <= First[v[1]] THEN "active" ELSE "absent"]
    /\ deleteAfter = [v \in Version |-> 0]
    /\ bytes = {v \in Version : v[2] <= First[v[1]]}
    /\ removed = {}
    /\ pins = [h \in Holder |-> {}]
    /\ job = [h \in Holder |-> Idle]
    /\ view = [u \in Viewer |-> NoView]
    /\ sweep = [s \in Sweeper |-> Resting]
    /\ faults = 0

IsHead(v) == head[v[1]] = v[2]
Pinned(v) == \E h \in Holder : v \in pins[h]
Locked(v) == \E h \in Holder : v \in job[h].locked

-----------------------------------------------------------------------------
(* Requests that pin: rollback_dataset_version and replay_run.             *)

\* A request names versions that are there; a rollback of the current one is
\* refused.
Ask(h, request) ==
    /\ job[h].phase = "idle"
    /\ \A i \in DOMAIN request.inputs : state[request.inputs[i]] # "absent"
    /\ request.kind = "rollback" => ~IsHead(Head(request.inputs))
    /\ job' = [job EXCEPT ![h].phase = "pinning", ![h].kind = request.kind,
                          ![h].of = Head(request.inputs), ![h].todo = request.inputs]
    /\ UNCHANGED <<now, rows, bytes, view, sweep, faults>>

\* The request loads the next version; a replay refuses a pruned one here.
\* Whatever it flushed for the inputs before is rolled back.
Look(h) ==
    /\ job[h].phase = "pinning"
    /\ job[h].todo # None
    /\ job[h].seen = "none"
    /\ LET was == state[Head(job[h].todo)] IN
       IF job[h].kind = "replay" /\ was = "pruned"
       THEN job' = [job EXCEPT ![h] = Over]
       ELSE job' = [job EXCEPT ![h].seen = was]
    /\ UNCHANGED <<now, rows, bytes, view, sweep, faults>>

\* pin_version: the row is locked, but the session keeps the state it loaded.
Lock(h) ==
    /\ job[h].phase = "pinning"
    /\ job[h].seen # "none"
    /\ LET v == Head(job[h].todo) IN
       /\ \A g \in Holder \ {h} : v \notin job[g].locked
       /\ IF job[h].seen = "pruned"
          THEN job' = [job EXCEPT ![h] = Over]
          ELSE job' = [job EXCEPT ![h].todo = Tail(@), ![h].seen = "none",
                  ![h].locked = @ \cup {v},
                  ![h].rescued = IF job[h].seen = "pending_delete" THEN @ \cup {v} ELSE @]
    /\ UNCHANGED <<now, rows, bytes, view, sweep, faults>>

\* The pins become durable, and with them the rescues.
CommitPins(h) ==
    /\ job[h].phase = "pinning"
    /\ job[h].todo = None
    /\ pins' = [pins EXCEPT ![h] = job[h].locked]
    /\ state' = [v \in Version |-> IF v \in job[h].rescued THEN "active" ELSE state[v]]
    /\ deleteAfter' = [v \in Version |-> IF v \in job[h].rescued THEN 0 ELSE deleteAfter[v]]
    /\ job' = [job EXCEPT ![h].phase = "reading", ![h].locked = {}, ![h].rescued = {}]
    /\ UNCHANGED <<now, head, bytes, removed, view, sweep, faults>>

\* The bytes are in memory.  A rollback goes on to store a copy of them.
ReadTarget(h) ==
    /\ job[h].phase = "reading"
    /\ job[h].kind = "rollback"
    /\ pins[h] \subseteq bytes
    /\ job' = [job EXCEPT ![h].phase = "publishing"]
    /\ UNCHANGED <<now, rows, bytes, view, sweep, faults>>

\* A rollback whose target cannot be read or breaks a contract, and a replay
\* whether it ran or failed, release their pins.
ReleasePins(h) ==
    /\ job[h].phase = "reading"
    /\ pins' = [pins EXCEPT ![h] = {}]
    /\ job' = [job EXCEPT ![h] = Over]
    /\ UNCHANGED <<now, head, state, deleteAfter, removed, bytes, view, sweep, faults>>

NextNumber(d) == head[d] + 1

\* The copy is stored and the next number read ...
ChooseNumber(h) ==
    /\ job[h].phase = "publishing"
    /\ head[job[h].of[1]] < Last
    /\ job' = [job EXCEPT ![h].phase = "committing", ![h].number = NextNumber(job[h].of[1])]
    /\ UNCHANGED <<now, rows, bytes, view, sweep, faults>>

\* ... and the head, the version and the release land in one commit, unless
\* somebody took the number: then nothing does, and the pin stays open.
PublishCopy(h) ==
    /\ job[h].phase = "committing"
    /\ LET d == job[h].of[1]
           copy == <<d, job[h].number>> IN
       IF head[d] < job[h].number
       THEN /\ head' = [head EXCEPT ![d] = job[h].number]
            /\ state' = [state EXCEPT ![copy] = "active"]
            /\ bytes' = bytes \cup {copy}
            /\ pins' = [pins EXCEPT ![h] = {}]
       ELSE UNCHANGED <<head, state, bytes, pins>>
    /\ job' = [job EXCEPT ![h] = Over]
    /\ UNCHANGED <<now, deleteAfter, removed, view, sweep, faults>>

\* The process dies, or the copy cannot be stored: locks go, open pins stay.
Die(h) ==
    /\ job[h].phase \notin {"idle", "over"}
    /\ job' = [job EXCEPT ![h] = Over]
    /\ UNCHANGED <<now, rows, bytes, view, sweep, faults>>

HolderStep(h) ==
    \/ \E request \in Asked : Ask(h, request)
    \/ Look(h) \/ Lock(h) \/ CommitPins(h) \/ ReadTarget(h)
    \/ ReleasePins(h) \/ ChooseNumber(h) \/ PublishCopy(h) \/ Die(h)

-----------------------------------------------------------------------------
(* Producers, and readers without a pin.                                   *)

Publish(d) ==
    /\ head[d] < Last
    /\ head' = [head EXCEPT ![d] = NextNumber(d)]
    /\ state' = [state EXCEPT ![<<d, NextNumber(d)>>] = "active"]
    /\ bytes' = bytes \cup {<<d, NextNumber(d)>>}
    /\ UNCHANGED <<now, deleteAfter, removed, pins, job, view, sweep, faults>>

\* require_readable lets every version through that is not pruned.
Open(u, v) ==
    /\ view[u] = NoView
    /\ v \in Viewed
    /\ state[v] \in {"active", "pending_delete"}
    /\ view' = [view EXCEPT ![u] = [of |-> v, since |-> now, was |-> state[v]]]
    /\ UNCHANGED <<now, rows, bytes, job, sweep, faults>>

Close(u) ==
    /\ view[u] # NoView
    /\ view' = [view EXCEPT ![u] = NoView]
    /\ UNCHANGED <<now, rows, bytes, job, sweep, faults>>

-----------------------------------------------------------------------------
(* A pass of the policy: sweep_project_versions.                           *)

\* Versions published while the model runs are younger than any cutoff.
Eligible == {v \in Version : /\ v[2] <= First[v[1]]
                             /\ state[v] = "active"
                             /\ ~IsHead(v)
                             /\ ~Pinned(v)}

SweepStart(s) ==
    /\ sweep[s] = Resting
    /\ sweep' = [sweep EXCEPT ![s].phase = "marking", ![s].moment = now, ![s].todo = Eligible]
    /\ UNCHANGED <<now, rows, bytes, job, view, faults>>

\* What a pass that began at a moment prunes, read when its marks are committed.
DueAt(moment) ==
    {v \in Version : /\ state'[v] = "pending_delete"
                     /\ deleteAfter'[v] # 0
                     /\ deleteAfter'[v] <= moment}

\* Mutant: the versions are due at once.
DueAtOnce(moment) == moment

Due(moment) == moment + Grace

\* The marks are written by the rows' ids; the updates wait for locked rows.
Mark(s) ==
    /\ sweep[s].phase = "marking"
    /\ \A v \in sweep[s].todo : ~Locked(v)
    /\ ~Remarked => \A t \in Sweeper \ {s} :
          sweep[t].phase = "pruning" => sweep[t].todo \cap sweep[s].todo = {}
    /\ state' = [v \in Version |-> IF v \in sweep[s].todo THEN "pending_delete" ELSE state[v]]
    /\ deleteAfter' = [v \in Version |-> IF v \in sweep[s].todo
                                         THEN Due(sweep[s].moment) ELSE deleteAfter[v]]
    /\ sweep' = [sweep EXCEPT ![s] = [phase |-> "pruning", moment |-> 0, at |-> None,
                                      todo |-> DueAt(sweep[s].moment)]]
    /\ UNCHANGED <<now, head, removed, pins, bytes, job, view, faults>>

\* Mutant: the second look leaves the pins out.
NotHeld(v) == IsHead(v)

Held(v) == IsHead(v) \/ Pinned(v)

\* Decided again under the row lock.
PruneOne(s, v) ==
    /\ sweep[s].phase = "pruning"
    /\ v \in sweep[s].todo
    /\ ~Locked(v)
    /\ ~Overtaken => \A h \in Holder : job[h].seen # "none" => Head(job[h].todo) # v
    /\ sweep' = [sweep EXCEPT ![s].todo = @ \ {v}]
    /\ IF state[v] # "pending_delete"
       THEN UNCHANGED <<state, deleteAfter>>
       ELSE /\ state' = [state EXCEPT ![v] = IF Held(v)
                                             THEN "active" ELSE "pruned"]
            /\ deleteAfter' = [deleteAfter EXCEPT ![v] = 0]
    /\ UNCHANGED <<now, head, removed, pins, bytes, job, view, faults>>

\* Mutant: what is only marked is listed in the place of the tombstones.
OrphansMarked == {v \in Version \ removed : state[v] = "pending_delete"}

Orphans == {v \in Version \ removed : state[v] = "pruned"}

\* Tombstones of earlier passes are finished with those of this one.
ListPruned(s) ==
    /\ sweep[s].phase = "pruning"
    /\ sweep[s].todo = {}
    /\ sweep' = [sweep EXCEPT ![s].phase = "removing", ![s].todo = Orphans]
    /\ UNCHANGED <<now, rows, bytes, job, view, faults>>

\* Already gone is as good as removed.
RemoveBytes(s, v) ==
    /\ sweep[s].phase = "removing"
    /\ v \in sweep[s].todo
    /\ bytes' = bytes \ {v}
    /\ sweep' = [sweep EXCEPT ![s].phase = "recording", ![s].todo = @ \ {v}, ![s].at = v]
    /\ UNCHANGED <<now, rows, job, view, faults>>

RecordRemoved(s) ==
    /\ sweep[s].phase = "recording"
    /\ removed' = removed \cup {sweep[s].at}
    /\ sweep' = [sweep EXCEPT ![s].phase = "removing", ![s].at = None]
    /\ UNCHANGED <<now, head, state, deleteAfter, pins, bytes, job, view, faults>>

\* The storage refuses: left for the next pass.
RemoveFails(s, v) ==
    /\ sweep[s].phase = "removing"
    /\ v \in sweep[s].todo
    /\ faults < MaxFaults
    /\ faults' = faults + 1
    /\ sweep' = [sweep EXCEPT ![s].todo = @ \ {v}]
    /\ UNCHANGED <<now, rows, bytes, job, view>>

SweepDone(s) ==
    /\ sweep[s].phase = "removing"
    /\ sweep[s].todo = {}
    /\ sweep' = [sweep EXCEPT ![s] = Resting]
    /\ UNCHANGED <<now, rows, bytes, job, view, faults>>

SweepDies(s) ==
    /\ sweep[s] # Resting
    /\ faults < MaxFaults
    /\ faults' = faults + 1
    /\ sweep' = [sweep EXCEPT ![s] = Resting]
    /\ UNCHANGED <<now, rows, bytes, job, view>>

SweepStep(s) ==
    \/ SweepStart(s) \/ Mark(s) \/ ListPruned(s)
    \/ \E v \in Version : PruneOne(s, v) \/ RemoveBytes(s, v)
    \/ RecordRemoved(s) \/ SweepDone(s)

-----------------------------------------------------------------------------
\* Time passes, but a request without a pin ends within Patience, and so does
\* the part of a sweep up to its mark.
Tick ==
    /\ now < Horizon
    /\ \A u \in Viewer : view[u] # NoView => now < view[u].since + Patience
    /\ \A s \in Sweeper : sweep[s].phase = "marking" => now < sweep[s].moment + Patience
    /\ now' = now + 1
    /\ UNCHANGED <<rows, bytes, job, view, sweep, faults>>

Next ==
    \/ \E h \in Holder : HolderStep(h)
    \/ \E d \in Dataset : Publish(d)
    \/ \E u \in Viewer : Close(u) \/ \E v \in Version : Open(u, v)
    \/ \E s \in Sweeper :
          SweepStep(s) \/ SweepDies(s) \/ \E v \in Version : RemoveFails(s, v)
    \/ Tick

Spec == Init /\ [][Next]_vars

\* A process that lives goes on with its pass and its request; the ticker
\* starts a pass on every tick.
FairSpec == Spec /\ (\A s \in Sweeper : WF_vars(SweepStep(s)))
                 /\ (\A h \in Holder : WF_vars(CommitPins(h) \/ Die(h)))

-----------------------------------------------------------------------------
\* What is pinned can be read, for as long as the pin is open, the pins that
\* dead requests left open included: a pin that commits before the sweep looks
\* again rescues the version (version_lifecycle.py:24).
PinnedDataIsKept == \A h \in Holder : pins[h] \subseteq bytes

\* A version that is listed as readable has its artifact: nothing removed is
\* ever brought back to life, and nothing living is removed.
LiveVersionsHaveBytes ==
    \A v \in Version : state[v] \in {"active", "pending_delete"} => v \in bytes

\* A reader that takes no pin finishes on what it opened when it opened the
\* version before its mark: the grace period outlasts it (PRUNE_GRACE).
EarlyReadersFinish ==
    \A u \in Viewer : view[u].was = "active" => view[u].of \in bytes

\* A tombstone is final, whatever mark or rescue was decided before it.
PrunedIsFinal ==
    [][\A v \in Version : state[v] = "pruned" => state'[v] = "pruned"]_vars

\* The bytes of every tombstone go, though passes die at any step and the
\* storage refuses some removals.
PrunedBytesGo ==
    []<>(\A v \in Version : state[v] = "pruned" => v \in removed \ bytes)

\* Data that somebody needs is there: what is pinned, every version that is not pruned, and
\* what a reader opened before the version was marked (version_lifecycle.py).
VersionSafety ==
    /\ TypeOK
    /\ PinnedDataIsKept
    /\ LiveVersionsHaveBytes
    /\ EarlyReadersFinish
=============================================================================
