----------------------------- MODULE Schedules -----------------------------
(***************************************************************************)
(* Scheduled operations: how pollers (the schedule ticker and the internal *)
(* run-due-once call) claim due schedules under a lease, execute them and  *)
(* move them on (service_schedules/scheduler_executor.py, due.py), while   *)
(* people edit, toggle, delete and trigger them (service.py).              *)
(*                                                                         *)
(* Slots are caught up one by one: next_run_at moves on when an execution  *)
(* ends, from the slot it stood for.  A project at its limit of runs keeps *)
(* its schedules due; which projects are is the environment's choice.      *)
(***************************************************************************)
EXTENDS Calendar

CONSTANTS
    Schedule,
    Poller,        \* processes that run run_due_schedules_once
    Person,        \* people who trigger a schedule by hand
    Ttl,           \* scheduler_claim_ttl_seconds, in instants
    MaxRetries,    \* max_retries of a schedule
    RetryDelay,    \* the wait before a retry, in instants
    Outlast,       \* may an execution outlast its lease?
    MaxEdits,      \* bound on edits, toggles and deletions
    MaxTriggers,   \* bound on triggers by hand
    MaxCrashes     \* bound on pollers that stop with a claim

ASSUME SchedulesAssumption ==
    /\ Ttl \in Nat /\ MaxRetries \in Nat /\ RetryDelay \in Nat
    /\ Outlast \in BOOLEAN
    /\ MaxEdits \in Nat /\ MaxTriggers \in Nat /\ MaxCrashes \in Nat

VARIABLES
    now,
    row,       \* [Schedule -> Row]
    job,       \* [Poller -> what it has claimed and executes]
    hand,      \* [Person -> the schedule being triggered]
    ran,       \* [Schedule -> [Slot -> Nat]]: executions begun for a slot
    retried,   \* [Schedule -> Nat]: retries begun since a slot's execution
    edits, triggers, crashes

vars == <<now, row, job, hand, ran, retried, edits, triggers, crashes>>

Row == [exists: BOOLEAN, enabled: BOOLEAN, expression: Expression,
        next: Slot \cup {NoSlot},          \* next_run_at
        retry: Nat \cup {NoSlot},          \* next_retry_at
        retries: 0 .. MaxRetries,          \* retry_count_current
        lease: Nat \cup {NoSlot}]          \* claim_expires_at

\* What a process works on: one schedule or none.
AtMostOne == {{}} \cup {{s} : s \in Schedule}

Idle == [schedule |-> {}, slot |-> NoSlot]

TypeOK ==
    /\ now \in 0 .. Horizon
    /\ row \in [Schedule -> Row]
    /\ job \in [Poller -> [schedule: AtMostOne, slot: Slot \cup {NoSlot}]]
    /\ hand \in [Person -> AtMostOne]
    /\ ran \in [Schedule -> [Slot -> Nat]]
    /\ retried \in [Schedule -> Nat]
    /\ edits \in Nat /\ triggers \in Nat /\ crashes \in Nat

\* sync_next_run_at_for_row: a disabled schedule has no next run and no retry.
Synced(r) ==
    IF r.enabled THEN [r EXCEPT !.next = SlotAfter(r.expression, now)]
    ELSE [r EXCEPT !.next = NoSlot, !.retry = NoSlot, !.retries = 0]

Init ==
    /\ now = 0
    /\ row \in [Schedule -> {[exists |-> TRUE, enabled |-> TRUE, expression |-> e,
                              next |-> SlotAfter(e, 0), retry |-> NoSlot, retries |-> 0,
                              lease |-> NoSlot] : e \in Expression}]
    /\ job = [p \in Poller |-> Idle]
    /\ hand = [h \in Person |-> {}]
    /\ ran = [s \in Schedule |-> [t \in Slot |-> 0]]
    /\ retried = [s \in Schedule |-> 0]
    /\ edits = 0 /\ triggers = 0 /\ crashes = 0

-----------------------------------------------------------------------------
\* While executions stay within their lease, time waits for them.
Clock ==
    /\ now < Horizon
    /\ Outlast \/ \A p \in Poller : \A s \in job[p].schedule :
                    row[s].lease # NoSlot => now < row[s].lease
    /\ now' = now + 1
    /\ UNCHANGED <<row, job, hand, ran, retried, edits, triggers, crashes>>

\* Mutant: an instant is due only while it lasts.
CameExactly(instant) == instant = now

Came(instant) == instant # NoSlot /\ instant <= now

\* Mutant: a lease does not keep others away.
AnyLease(s) == TRUE

Reclaimable(s) == row[s].lease # NoSlot => row[s].lease < now

Due(s) ==
    /\ row[s].exists /\ row[s].enabled
    /\ Came(row[s].retry) \/ Came(row[s].next)
    /\ Reclaimable(s)

DueAt(s) == IF Came(row[s].retry) THEN row[s].retry ELSE row[s].next

\* Retries before slots, the earliest first.
Before(s, q) ==
    \/ Came(row[s].retry) /\ ~Came(row[q].retry)
    \/ (Came(row[s].retry) <=> Came(row[q].retry)) /\ DueAt(s) < DueAt(q)

\* claim_next_due_schedule: a retry is taken off the row, a slot stays on it.
Claim(p, busy) ==
    \E s \in Schedule \ busy :
        /\ job[p] = Idle
        /\ Due(s)
        /\ \A q \in Schedule \ busy : Due(q) => ~Before(q, s)
        /\ LET retry == Came(row[s].retry)
           IN  /\ row' = [row EXCEPT ![s].lease = now + Ttl,
                                     ![s].retry = IF retry THEN NoSlot ELSE @]
               /\ job' = [job EXCEPT ![p] = [schedule |-> {s},
                                             slot |-> IF retry THEN NoSlot ELSE row[s].next]]
               /\ ran' = IF retry THEN ran ELSE [ran EXCEPT ![s][row[s].next] = @ + 1]
               /\ retried' = [retried EXCEPT ![s] = IF retry THEN @ + 1 ELSE 0]
        /\ UNCHANGED <<now, hand, edits, triggers, crashes>>

\* A success ends the retries; a failure asks for one while any are left.
Attempted(r, success) ==
    IF success THEN [r EXCEPT !.retries = 0, !.retry = NoSlot]
    ELSE IF r.retries < MaxRetries
    THEN [r EXCEPT !.retries = @ + 1, !.retry = now + RetryDelay]
    ELSE [r EXCEPT !.retry = NoSlot]

\* Mutant: the schedule moves on from the present, over the slots it missed.
MovedOnFromNow(r, slot) ==
    IF slot = NoSlot THEN r ELSE [r EXCEPT !.next = SlotAfter(r.expression, now)]

MovedOn(r, slot) ==
    IF slot = NoSlot THEN r ELSE [r EXCEPT !.next = SlotAfter(r.expression, slot)]

\* The execution ends; _finalize_after_automated_attempt writes to the row as
\* it is by now, whoever's lease it shows, unless it was deleted.
Finalize(p, success) ==
    \E s \in job[p].schedule :
        /\ row' = IF row[s].exists
                  THEN [row EXCEPT ![s] =
                         [MovedOn(Attempted(@, success), job[p].slot) EXCEPT !.lease = NoSlot]]
                  ELSE row
        /\ job' = [job EXCEPT ![p] = Idle]
        /\ UNCHANGED <<now, hand, ran, retried, edits, triggers, crashes>>

\* The poller dies, cannot find a user to act as, or cannot write the outcome:
\* its pass ends and the lease stays.
Crash(p) ==
    /\ crashes < MaxCrashes
    /\ job[p] # Idle
    /\ crashes' = crashes + 1
    /\ job' = [job EXCEPT ![p] = Idle]
    /\ UNCHANGED <<now, row, hand, ran, retried, edits, triggers>>

-----------------------------------------------------------------------------
MayEdit(s) == edits < MaxEdits /\ row[s].exists

\* update_schedule with a new expression, timezone or enabled flag.
Update(s, expression, enabled) ==
    /\ MayEdit(s)
    /\ edits' = edits + 1
    /\ row' = [row EXCEPT ![s] = Synced([@ EXCEPT !.expression = expression,
                                                  !.enabled = enabled,
                                                  !.retry = NoSlot, !.retries = 0])]
    /\ UNCHANGED <<now, job, hand, ran, retried, triggers, crashes>>

Toggle(s, enabled) ==
    /\ MayEdit(s)
    /\ edits' = edits + 1
    /\ row' = [row EXCEPT ![s] = Synced([@ EXCEPT !.enabled = enabled])]
    /\ UNCHANGED <<now, job, hand, ran, retried, triggers, crashes>>

Delete(s) ==
    /\ MayEdit(s)
    /\ edits' = edits + 1
    /\ row' = [row EXCEPT ![s].exists = FALSE]
    /\ UNCHANGED <<now, job, hand, ran, retried, triggers, crashes>>

\* trigger_schedule_now executes beside the pollers, without a lease ...
Trigger(h, s) ==
    /\ triggers < MaxTriggers
    /\ hand[h] = {}
    /\ row[s].exists
    /\ triggers' = triggers + 1
    /\ hand' = [hand EXCEPT ![h] = {s}]
    /\ UNCHANGED <<now, row, job, ran, retried, edits, crashes>>

\* ... and clears the row's lease in the end, also one a poller holds.  An
\* execution that raises writes nothing.
TriggerDone(h, raised) ==
    \E s \in hand[h] :
        /\ row' = IF raised \/ ~row[s].exists THEN row ELSE [row EXCEPT ![s].lease = NoSlot]
        /\ hand' = [hand EXCEPT ![h] = {}]
        /\ UNCHANGED <<now, job, ran, retried, edits, triggers, crashes>>

Finish(p) == \E success \in BOOLEAN : Finalize(p, success)

Next ==
    \/ Clock
    \/ \E p \in Poller : (\E busy \in SUBSET Schedule : Claim(p, busy)) \/ Finish(p) \/ Crash(p)
    \/ \E s \in Schedule :
         \/ \E e \in Expression, enabled \in BOOLEAN : Update(s, e, enabled)
         \/ \E enabled \in BOOLEAN : Toggle(s, enabled)
         \/ Delete(s)
         \/ \E h \in Person : Trigger(h, s)
    \/ \E h \in Person, raised \in BOOLEAN : TriggerDone(h, raised)

Spec == Init /\ [][Next]_vars

\* Pollers run passes for ever, executions end, and no project stays at its
\* limit of runs.
FairSpec ==
    /\ Spec
    /\ \A p \in Poller : WF_vars(Claim(p, {})) /\ WF_vars(Finish(p))

-----------------------------------------------------------------------------
(* Properties.  They speak of executions that end within their lease and   *)
(* of schedules nobody triggered by hand: the documentation promises no    *)
(* more ("leases reduce duplicate work").                                  *)

\* Within its lease a schedule is executed by one poller, however its row is
\* edited, toggled or deleted and created under it.
OneExecution ==
    triggers = 0
    => \A p, q \in Poller : p # q => job[p].schedule \cap job[q].schedule = {}

\* Edited or not, a slot is executed again only for a poller that stopped with it.
SlotExecutedOnce ==
    triggers = 0 => \A s \in Schedule, t \in Slot : ran[s][t] <= 1 + crashes

\* "finalize uses it to advance next_run_at after the attempt": a schedule
\* nobody edits executes its slots in order and leaves none out, however late
\* its pollers are.
NoSlotSkipped ==
    edits = 0 => \A s \in Schedule : \A t, u \in SlotsOf[row[s].expression] \ {0} :
                    t < u /\ ran[s][u] > 0 => ran[s][t] > 0

\* A slot's execution is retried at most max_retries times, in whatever order
\* slots, retries and crashes come; an edit grants as many again, also when it
\* comes while a retry is executed.
RetriesBounded ==
    triggers = 0 => \A s \in Schedule : retried[s] <= MaxRetries * (1 + edits)

\* "Clears retry state when disabled": nothing is pending on a disabled schedule.
DisabledIsQuiet ==
    \A s \in Schedule :
        row[s].exists /\ ~row[s].enabled
        => row[s].next = NoSlot /\ row[s].retry = NoSlot /\ row[s].retries = 0

\* A slot that has come is executed in the end, unless people change or trigger
\* the schedule or a poller stops with it.
Disturbed == edits + triggers + crashes > 0
DueSlotIsExecuted ==
    \A s \in Schedule, t \in 0 .. Horizon :
        Came(row[s].next) /\ row[s].next = t /\ ~Disturbed ~> ran[s][t] > 0 \/ Disturbed

\* A schedule goes through its slots one after the other: none twice, none left out, and no
\* more retries of one than are allowed (_finalize_success, _finalize_failure).
SlotsInOrder ==
    /\ TypeOK
    /\ SlotExecutedOnce
    /\ NoSlotSkipped
    /\ RetriesBounded
=============================================================================
