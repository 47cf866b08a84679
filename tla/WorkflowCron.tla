---------------------------- MODULE WorkflowCron ----------------------------
(***************************************************************************)
(* Cron workflows: how a worker's tick turns due occurrences into queued   *)
(* runs (enqueue_due_workflows in service_workflows/queue.py and cron.py), *)
(* while people edit the schedules and other workers do the same.          *)
(*                                                                         *)
(* A session's commit expires what it has read: the first due workflow of  *)
(* a tick is handled as the due query loaded it, the others as they are    *)
(* read again.                                                             *)
(***************************************************************************)
EXTENDS Calendar, Sequences, FiniteSets

CONSTANTS
    Workflow,
    Worker,
    MaxEdits,     \* bound on edits of schedules
    MaxCrashes    \* bound on worker deaths

ASSUME CronAssumption ==
    IsFiniteSet(Workflow) /\ MaxEdits \in Nat /\ MaxCrashes \in Nat

VARIABLES
    now,
    row,        \* [Workflow -> Row]: the workflow's trigger settings and next_run_at
    fired,      \* [Workflow -> [Slot -> Nat]]: cron runs queued for a slot
    pc,         \* [Worker -> where it is in enqueue_due_workflows]
    moment,     \* [Worker -> the instant its tick took as now]
    todo,       \* [Worker -> the workflows of its tick not handled yet]
    seen,       \* [Worker -> the row of the workflow it is handling, as loaded]
    edits, crashes

vars == <<now, row, fired, pc, moment, todo, seen, edits, crashes>>

Row == [enabled: BOOLEAN, trigger: {"cron", "manual"}, expression: Expression,
        next: Slot \cup {NoSlot}]

TypeOK ==
    /\ now \in 0 .. Horizon
    /\ row \in [Workflow -> Row]
    /\ fired \in [Workflow -> [Slot -> Nat]]
    /\ pc \in [Worker -> {"idle", "loading", "advancing", "queueing"}]
    /\ moment \in [Worker -> 0 .. Horizon]
    /\ todo \in [Worker -> Seq(Workflow)]
    /\ seen \in [Worker -> Row \cup {NoSlot}]
    /\ edits \in Nat /\ crashes \in Nat

-----------------------------------------------------------------------------
\* apply_schedule: an edited schedule starts from its next occurrence.
Applied(r, t) ==
    IF r.enabled /\ r.trigger = "cron"
    THEN [r EXCEPT !.next = SlotAfter(r.expression, t)]
    ELSE [r EXCEPT !.next = NoSlot]

\* advance_after_fire: on from the scheduled instant, skipping what is past.
Following(r, t) ==
    IF r.trigger # "cron" THEN NoSlot
    ELSE LET anchor == IF r.next = NoSlot THEN t ELSE r.next
         IN  SlotAfter(r.expression, IF anchor > t THEN anchor ELSE t)

Init ==
    /\ now = 0
    /\ row \in [Workflow -> {Applied([enabled |-> TRUE, trigger |-> "cron",
                                      expression |-> e, next |-> NoSlot], 0) : e \in Expression}]
    /\ fired = [f \in Workflow |-> [s \in Slot |-> 0]]
    /\ pc = [w \in Worker |-> "idle"]
    /\ moment = [w \in Worker |-> 0]
    /\ todo = [w \in Worker |-> <<>>]
    /\ seen = [w \in Worker |-> NoSlot]
    /\ edits = 0
    /\ crashes = 0

-----------------------------------------------------------------------------
Clock ==
    /\ now < Horizon
    /\ now' = now + 1
    /\ UNCHANGED <<row, fired, pc, moment, todo, seen, edits, crashes>>

\* A person creates a workflow, updates it or restores an earlier version.
Edit(f, enabled, trigger, expression) ==
    /\ edits < MaxEdits
    /\ edits' = edits + 1
    /\ row' = [row EXCEPT ![f] = Applied([@ EXCEPT !.enabled = enabled,
                                                   !.trigger = trigger,
                                                   !.expression = expression], now)]
    /\ UNCHANGED <<now, fired, pc, moment, todo, seen, crashes>>

\* Mutant: only an occurrence at this very instant is due.
DueExactly(f, t) == row[f].enabled /\ row[f].trigger = "cron" /\ row[f].next = t

Due(f, t) ==
    /\ row[f].enabled
    /\ row[f].trigger = "cron"
    /\ row[f].next # NoSlot
    /\ row[f].next <= t

\* The due workflows, earliest occurrence first; ties in any order.
InOrder(order) ==
    /\ \A i, j \in DOMAIN order : order[i] = order[j] => i = j
    /\ \A i, j \in DOMAIN order : i < j => row[order[i]].next <= row[order[j]].next

\* The query loads every due row; the first one is used as loaded.
Tick(w) ==
    LET due == {f \in Workflow : Due(f, now)}
    IN  /\ pc[w] = "idle"
        /\ due # {}
        /\ \E order \in [1 .. Cardinality(due) -> due] :
             /\ InOrder(order)
             /\ todo' = [todo EXCEPT ![w] = order]
             /\ seen' = [seen EXCEPT ![w] = row[order[1]]]
        /\ moment' = [moment EXCEPT ![w] = now]
        /\ pc' = [pc EXCEPT ![w] = "advancing"]
        /\ UNCHANGED <<now, row, fired, edits, crashes>>

\* A later workflow of the tick is read again: the last commit expired it.
Load(w) ==
    /\ pc[w] = "loading"
    /\ seen' = [seen EXCEPT ![w] = row[Head(todo[w])]]
    /\ pc' = [pc EXCEPT ![w] = "advancing"]
    /\ UNCHANGED <<now, row, fired, moment, todo, edits, crashes>>

\* next_run_at moves on by the row's id, from what was loaded.
Advance(w) ==
    /\ pc[w] = "advancing"
    /\ row' = [row EXCEPT ![Head(todo[w])].next = Following(seen[w], moment[w])]
    /\ pc' = [pc EXCEPT ![w] = "queueing"]
    /\ UNCHANGED <<now, fired, moment, todo, seen, edits, crashes>>

\* The run is queued for the slot that was loaded, unless its workflow is
\* disabled by now.  A workflow that lost its schedule meanwhile gets a run
\* without a slot, which no count needs.
Queue(w) ==
    LET f == Head(todo[w])
        slot == seen[w].next
    IN  /\ pc[w] = "queueing"
        /\ fired' = IF row[f].enabled /\ slot # NoSlot
                    THEN [fired EXCEPT ![f][slot] = @ + 1]
                    ELSE fired
        /\ todo' = [todo EXCEPT ![w] = Tail(@)]
        /\ seen' = [seen EXCEPT ![w] = NoSlot]
        /\ pc' = [pc EXCEPT ![w] = IF Len(todo[w]) > 1 THEN "loading" ELSE "idle"]
        /\ UNCHANGED <<now, row, moment, edits, crashes>>

\* The worker dies, or an error ends its tick; it ticks again later.
Crash(w) ==
    /\ crashes < MaxCrashes
    /\ pc[w] # "idle"
    /\ crashes' = crashes + 1
    /\ pc' = [pc EXCEPT ![w] = "idle"]
    /\ todo' = [todo EXCEPT ![w] = <<>>]
    /\ seen' = [seen EXCEPT ![w] = NoSlot]
    /\ UNCHANGED <<now, row, fired, moment, edits>>

WorkerStep(w) == Tick(w) \/ Load(w) \/ Advance(w) \/ Queue(w)

Next ==
    \/ Clock
    \/ \E f \in Workflow, enabled \in BOOLEAN, trigger \in {"cron", "manual"},
          e \in Expression : Edit(f, enabled, trigger, e)
    \/ \E w \in Worker : WorkerStep(w) \/ Crash(w)

Spec == Init /\ [][Next]_vars

\* The worker polls for as long as it is up.
FairSpec == Spec /\ \A w \in Worker : WF_vars(WorkerStep(w))

-----------------------------------------------------------------------------
(* Properties.                                                             *)

\* "A slow tick cannot queue the same occurrence twice" (enqueue_due_workflows).
\* Not so: a tick that reads a workflow again after an edit queues the edited
\* row's slot ahead of its time, and the next edit brings the slot back.
SlotQueuedOnce == \A f \in Workflow, s \in 0 .. Horizon : fired[f][s] <= 1

\* What the code keeps: a slot of a workflow is queued once, or no more often
\* than schedules were edited; a worker's death never repeats it.
RepeatsNeedEdits ==
    \A f \in Workflow, s \in 0 .. Horizon : fired[f][s] <= 1 \/ fired[f][s] <= edits

\* "Queue a run for every cron workflow whose time has come": while nobody
\* edits a schedule, a run stands for an instant that has passed.  (An edit in
\* the middle of a tick moves a row the tick has yet to read again.)
NotBeforeItsTime ==
    edits = 0 => \A f \in Workflow, s \in Slot : fired[f][s] > 0 => s <= now

\* An occurrence that has come is queued in the end, unless the schedule is
\* edited or the tick dies with it; the slots a busy worker was too late for
\* are skipped, never the one the row shows.
DueSlotIsQueued ==
    \A f \in Workflow, s \in 0 .. Horizon :
        Due(f, now) /\ row[f].next = s /\ edits = 0 /\ crashes = 0
        ~> fired[f][s] > 0 \/ edits > 0 \/ crashes > 0

\* What the cron tick may never do: queue one slot twice, or a slot before its
\* time, unless schedules are edited (enqueue_due_workflows).
CronSafety ==
    /\ TypeOK
    /\ RepeatsNeedEdits
    /\ NotBeforeItsTime
=============================================================================
