-------------------------- MODULE Schedules_proofs --------------------------
(***************************************************************************)
(* Theorems about Schedules, for every calendar, every set of schedules,   *)
(* pollers and people, and every bound: its type invariant, and that while *)
(* executions end within their lease and nobody triggers a schedule by     *)
(* hand, no schedule is executed twice at once, and its slots are executed *)
(* in order, none skipped, with a bounded number of retries.               *)
(***************************************************************************)
EXTENDS Schedules, WellFoundedInduction, TLAPS

(***************************************************************************)
(* The type invariant.                                                     *)
(***************************************************************************)

\* Among some occurrences there is a first one.
LEMMA FirstOccurrence ==
    ASSUME NEW S \in SUBSET Nat, S # {}
    PROVE  \E s \in S : \A q \in S : s <= q
<1> DEFINE R == OpToRel(<, Nat)
<1>1. IsWellFoundedOn(R, Nat)
  BY NatLessThanWellFounded
<1>2. \A x, y \in Nat : y < x => <<y, x>> \in R
  BY DEF OpToRel
<1> HIDE DEF R
<1>3. PICK s \in S : \A q \in S : ~ (<<q, s>> \in R)
  BY <1>1, WFMin
<1>4. \A q \in S : ~ (q < s)
  BY <1>2, <1>3
<1> QED BY <1>4

\* The calendar always has an answer: an occurrence, or the instant beyond.
LEMMA SlotAfterIsASlot ==
    ASSUME NEW e \in Expression, NEW t \in Nat
    PROVE  SlotAfter(e, t) \in Slot
<1> DEFINE Later == {s \in SlotsOf[e] : s > t}
<1>1. SlotsOf[e] \subseteq Slot /\ Beyond \in Slot /\ SlotsOf[e] \subseteq Nat
  BY CalendarAssumption DEF Slot, Beyond
<1>2. CASE Later = {}
  <2>1. ~ \E s \in SlotsOf[e] : s > t
    BY <1>2
  <2> QED BY <1>1, <2>1 DEF SlotAfter
<1>3. CASE Later # {}
  <2>1. PICK s \in Later : \A q \in Later : s <= q
    BY <1>1, <1>3, FirstOccurrence
  <2>2. \E x \in SlotsOf[e] : x > t /\ \A q \in SlotsOf[e] : q > t => x <= q
    BY <2>1
  <2> QED BY <1>1, <2>1, <2>2 DEF SlotAfter
<1> QED BY <1>2, <1>3

\* What the handlers make of a row is a row.
LEMMA SyncedIsARow ==
    ASSUME NEW r \in Row, now \in Nat
    PROVE  Synced(r) \in Row
<1>1. SlotAfter(r.expression, now) \in Slot
  BY SlotAfterIsASlot DEF Row
<1>2. 0 \in 0 .. MaxRetries
  BY SchedulesAssumption
<1> QED BY <1>1, <1>2 DEF Synced, Row

\* An execution that ended leaves a row.
LEMMA AttemptedIsARow ==
    ASSUME NEW r \in Row, NEW success \in BOOLEAN, now \in Nat
    PROVE  Attempted(r, success) \in Row
<1>1. 0 \in 0 .. MaxRetries /\ now + RetryDelay \in Nat
  BY SchedulesAssumption
<1>2. ASSUME r.retries < MaxRetries PROVE r.retries + 1 \in 0 .. MaxRetries
  BY <1>2, SchedulesAssumption DEF Row
<1> QED BY <1>1, <1>2 DEF Attempted, Row

\* A row that moved on to the next slot is a row.
LEMMA MovedOnIsARow ==
    ASSUME NEW r \in Row, NEW slot \in Slot \cup {NoSlot}
    PROVE  MovedOn(r, slot) \in Row
<1>1. CASE slot = NoSlot
  BY <1>1 DEF MovedOn
<1>2. CASE slot # NoSlot
  <2>1. SlotAfter(r.expression, slot) \in Slot
    BY <1>2, SlotAfterIsASlot, CalendarAssumption DEF Row, Slot, Beyond
  <2> QED BY <1>2, <2>1 DEF MovedOn, Row
<1> QED BY <1>1, <1>2

\* Every step keeps the rows and what the pollers and people do well typed.
LEMMA Typing == ASSUME TypeOK, [Next]_vars PROVE TypeOK'
<1>0. now \in Nat /\ NoSlot \notin Nat /\ Slot \subseteq Nat
  BY CalendarAssumption DEF TypeOK, Slot, Beyond
<1>1. CASE UNCHANGED vars
  BY <1>1 DEF TypeOK, vars
<1>2. CASE Clock
  BY <1>2, CalendarAssumption DEF TypeOK, Clock
<1>3. ASSUME NEW p \in Poller, NEW busy \in SUBSET Schedule, Claim(p, busy) PROVE TypeOK'
  <2> PICK s \in Schedule \ busy :
        /\ LET retry == Came(row[s].retry)
           IN  /\ row' = [row EXCEPT ![s].lease = now + Ttl,
                                     ![s].retry = IF retry THEN NoSlot ELSE @]
               /\ job' = [job EXCEPT ![p] = [schedule |-> {s},
                                             slot |-> IF retry THEN NoSlot ELSE row[s].next]]
               /\ ran' = IF retry THEN ran ELSE [ran EXCEPT ![s][row[s].next] = @ + 1]
               /\ retried' = [retried EXCEPT ![s] = IF retry THEN @ + 1 ELSE 0]
        /\ UNCHANGED <<now, hand, edits, triggers, crashes>>
    BY <1>3 DEF Claim
  <2>1. now + Ttl \in Nat /\ row[s] \in Row
    BY <1>0, SchedulesAssumption DEF TypeOK
  <2>2. row' \in [Schedule -> Row]
    BY <2>1 DEF TypeOK, Row
  <2>3. job' \in [Poller -> [schedule: AtMostOne, slot: Slot \cup {NoSlot}]]
    BY <2>1 DEF TypeOK, Row, AtMostOne
  <2>4. ran' \in [Schedule -> [Slot -> Nat]]
    <3>1. CASE row[s].next \in Slot
      <4>1. ran[s][row[s].next] + 1 \in Nat
        BY <3>1 DEF TypeOK
      <4> QED BY <4>1, <3>1 DEF TypeOK
    <3>2. CASE row[s].next \notin Slot
      BY <3>2 DEF TypeOK
    <3> QED BY <3>1, <3>2
  <2>5. retried' \in [Schedule -> Nat]
    BY DEF TypeOK
  <2> QED BY <2>2, <2>3, <2>4, <2>5 DEF TypeOK
<1>4. ASSUME NEW p \in Poller, NEW success \in BOOLEAN, Finalize(p, success) PROVE TypeOK'
  <2> PICK s \in job[p].schedule :
        /\ row' = IF row[s].exists
                  THEN [row EXCEPT ![s] =
                         [MovedOn(Attempted(@, success), job[p].slot) EXCEPT !.lease = NoSlot]]
                  ELSE row
        /\ job' = [job EXCEPT ![p] = Idle]
        /\ UNCHANGED <<now, hand, ran, retried, edits, triggers, crashes>>
    BY <1>4 DEF Finalize
  <2>1. s \in Schedule /\ row[s] \in Row /\ job[p].slot \in Slot \cup {NoSlot}
    BY DEF TypeOK, AtMostOne
  <2>2. MovedOn(Attempted(row[s], success), job[p].slot) \in Row
    BY <1>0, <2>1, AttemptedIsARow, MovedOnIsARow
  <2>3. row' \in [Schedule -> Row]
    <3>1. [MovedOn(Attempted(row[s], success), job[p].slot) EXCEPT !.lease = NoSlot] \in Row
      BY <2>2 DEF Row
    <3> QED BY <3>1 DEF TypeOK
  <2>4. job' \in [Poller -> [schedule: AtMostOne, slot: Slot \cup {NoSlot}]]
    BY DEF TypeOK, Idle, AtMostOne
  <2> QED BY <2>3, <2>4 DEF TypeOK
<1>5. ASSUME NEW p \in Poller, Crash(p) PROVE TypeOK'
  <2>1. crashes + 1 \in Nat /\ Idle \in [schedule: AtMostOne, slot: Slot \cup {NoSlot}]
    BY DEF TypeOK, Idle, AtMostOne
  <2> QED BY <1>5, <2>1 DEF TypeOK, Crash
<1>6. ASSUME NEW s \in Schedule, NEW e \in Expression, NEW enabled \in BOOLEAN,
             Update(s, e, enabled)
      PROVE  TypeOK'
  <2> DEFINE r == [row[s] EXCEPT !.expression = e, !.enabled = enabled,
                                 !.retry = NoSlot, !.retries = 0]
  <2>1. r \in Row
    <3>1. row[s] \in Row /\ 0 \in 0 .. MaxRetries
      BY SchedulesAssumption DEF TypeOK
    <3> QED BY <3>1 DEF Row
  <2>2. Synced(r) \in Row
    BY <1>0, <2>1, SyncedIsARow
  <2>3. row' = [row EXCEPT ![s] = Synced(r)]
    BY <1>6 DEF Update
  <2> HIDE DEF r
  <2>4. row' \in [Schedule -> Row]
    BY <2>2, <2>3 DEF TypeOK
  <2>5. edits' \in Nat /\ UNCHANGED <<now, job, hand, ran, retried, triggers, crashes>>
    BY <1>6 DEF TypeOK, Update
  <2> QED BY <2>4, <2>5 DEF TypeOK
<1>7. ASSUME NEW s \in Schedule, NEW enabled \in BOOLEAN, Toggle(s, enabled) PROVE TypeOK'
  <2> DEFINE r == [row[s] EXCEPT !.enabled = enabled]
  <2>1. r \in Row
    BY DEF TypeOK, Row
  <2>2. Synced(r) \in Row
    BY <1>0, <2>1, SyncedIsARow
  <2>3. row' = [row EXCEPT ![s] = Synced(r)]
    BY <1>7 DEF Toggle
  <2> HIDE DEF r
  <2>4. row' \in [Schedule -> Row]
    BY <2>2, <2>3 DEF TypeOK
  <2>5. edits' \in Nat /\ UNCHANGED <<now, job, hand, ran, retried, triggers, crashes>>
    BY <1>7 DEF TypeOK, Toggle
  <2> QED BY <2>4, <2>5 DEF TypeOK
<1>8. ASSUME NEW s \in Schedule, Delete(s) PROVE TypeOK'
  <2>1. [row[s] EXCEPT !.exists = FALSE] \in Row
    BY DEF TypeOK, Row
  <2>2. row' = [row EXCEPT ![s] = [row[s] EXCEPT !.exists = FALSE]]
    BY <1>8 DEF Delete
  <2>3. row' \in [Schedule -> Row]
    BY <2>1, <2>2 DEF TypeOK
  <2>4. edits' \in Nat /\ UNCHANGED <<now, job, hand, ran, retried, triggers, crashes>>
    BY <1>8 DEF TypeOK, Delete
  <2> QED BY <2>3, <2>4 DEF TypeOK
<1>9. ASSUME NEW s \in Schedule, NEW h \in Person, Trigger(h, s) PROVE TypeOK'
  <2>1. hand' \in [Person -> AtMostOne]
    <3>1. {s} \in AtMostOne
      BY DEF AtMostOne
    <3> QED BY <1>9, <3>1 DEF TypeOK, Trigger
  <2>2. triggers' \in Nat /\ UNCHANGED <<now, row, job, ran, retried, edits, crashes>>
    BY <1>9 DEF TypeOK, Trigger
  <2> QED BY <2>1, <2>2 DEF TypeOK
<1>10. ASSUME NEW h \in Person, NEW raised \in BOOLEAN, TriggerDone(h, raised) PROVE TypeOK'
  <2> PICK s \in hand[h] :
        /\ row' = IF raised \/ ~row[s].exists THEN row ELSE [row EXCEPT ![s].lease = NoSlot]
        /\ hand' = [hand EXCEPT ![h] = {}]
        /\ UNCHANGED <<now, job, ran, retried, edits, triggers, crashes>>
    BY <1>10 DEF TriggerDone
  <2>1. s \in Schedule
    BY DEF TypeOK, AtMostOne
  <2>2. row' \in [Schedule -> Row]
    <3>1. row[s] \in Row
      BY <2>1 DEF TypeOK
    <3>2. [row[s] EXCEPT !.lease = NoSlot] \in Row
      BY <3>1 DEF Row
    <3>3. row' = row \/ row' = [row EXCEPT ![s] = [row[s] EXCEPT !.lease = NoSlot]]
      OBVIOUS
    <3> QED BY <3>2, <3>3 DEF TypeOK
  <2>3. hand' \in [Person -> AtMostOne]
    <3>1. {} \in AtMostOne
      BY DEF AtMostOne
    <3> QED BY <3>1 DEF TypeOK
  <2> QED BY <2>2, <2>3 DEF TypeOK
<1> QED
  BY <1>1, <1>2, <1>3, <1>4, <1>5, <1>6, <1>7, <1>8, <1>9, <1>10 DEF Next, Finish

\* The rows as they are created are rows.
LEMMA TypeCorrectAtInit == ASSUME Init PROVE TypeOK
<1>1. \A e \in Expression : SlotAfter(e, 0) \in Slot
  BY SlotAfterIsASlot
<1>2. ASSUME NEW e \in Expression
      PROVE  [exists |-> TRUE, enabled |-> TRUE, expression |-> e, next |-> SlotAfter(e, 0),
              retry |-> NoSlot, retries |-> 0, lease |-> NoSlot] \in Row
  <2>1. 0 \in 0 .. MaxRetries
    BY SchedulesAssumption
  <2> QED BY <1>1, <2>1 DEF Row
<1>3. row \in [Schedule -> Row]
  BY <1>2 DEF Init
<1>4. job \in [Poller -> [schedule: AtMostOne, slot: Slot \cup {NoSlot}]]
  BY DEF Init, Idle, AtMostOne
<1>5. hand \in [Person -> AtMostOne]
  BY DEF Init, AtMostOne
<1>6. /\ now \in 0 .. Horizon
      /\ ran \in [Schedule -> [Slot -> Nat]] /\ retried \in [Schedule -> Nat]
      /\ edits \in Nat /\ triggers \in Nat /\ crashes \in Nat
  BY CalendarAssumption DEF Init
<1> QED BY <1>3, <1>4, <1>5, <1>6 DEF TypeOK

\* Rows, jobs and counters keep their types in every behaviour.
THEOREM TypeCorrect == Spec => []TypeOK
<1>1. Init => TypeOK
  BY TypeCorrectAtInit
<1>2. TypeOK /\ [Next]_vars => TypeOK'
  BY Typing
<1> QED BY <1>1, <1>2, PTL DEF Spec

(***************************************************************************)
(* One execution at a time.  A poller that executes a schedule holds a     *)
(* live lease on its row: that is what keeps the others away.              *)
(***************************************************************************)

\* No schedule is in the hands of a person who triggers it.
NobodyTriggers == triggers = 0 => \A h \in Person : hand[h] = {}

\* The lease of a schedule that is being executed has not run out.
LeaseHeld ==
    triggers = 0
    => \A p \in Poller : \A s \in job[p].schedule :
           row[s].lease # NoSlot /\ now <= row[s].lease

\* The inductive invariant.
Inductive == TypeOK /\ NobodyTriggers /\ LeaseHeld /\ OneExecution

\* What a job holds are schedules.
LEMMA JobsAreSchedules ==
    ASSUME TypeOK, NEW p \in Poller, NEW s \in job[p].schedule
    PROVE  s \in Schedule /\ job[p].schedule = {s}
BY DEF TypeOK, AtMostOne

\* No step is a trigger while the count of triggers stays at zero.
LEMMA TriggersStayZero ==
    ASSUME Inductive, [Next]_vars, triggers' = 0
    PROVE  triggers = 0
<1>1. triggers \in Nat
  BY DEF Inductive, TypeOK
<1>2. CASE UNCHANGED triggers
  BY <1>2
<1>3. ASSUME NEW s \in Schedule, NEW h \in Person, Trigger(h, s) PROVE triggers = 0
  BY <1>1, <1>3 DEF Trigger
<1>4. [Next]_vars => UNCHANGED triggers \/ \E s \in Schedule, h \in Person : Trigger(h, s)
  BY Zenon DEF Next, vars, Finish, Clock, Claim, Finalize, Crash, Update, Toggle, Delete,
               TriggerDone
<1> QED BY <1>2, <1>3, <1>4

\* Synchronising a row leaves its lease alone.
LEMMA SyncedKeepsLease == ASSUME NEW r \in Row PROVE Synced(r).lease = r.lease
BY DEF Synced, Row

\* While every execution stays within its lease, the parts hold one another up:
\* a claim needs the lease to have run out, a poller at work has one that has
\* not, and only that poller clears it.
LEMMA Holding ==
    ASSUME Inductive, TypeOK', [Next]_vars, Outlast = FALSE
    PROVE  (NobodyTriggers /\ LeaseHeld /\ OneExecution)'
<1> DEFINE Untriggered == \A h \in Person : hand[h] = {}
           Held(p) == \A s \in job[p].schedule :
                          row[s].lease # NoSlot /\ now <= row[s].lease
           Apart(p, q) == p # q => job[p].schedule \cap job[q].schedule = {}
           Goal == Untriggered /\ \A p \in Poller : Held(p) /\ \A q \in Poller : Apart(p, q)
<1> SUFFICES ASSUME triggers' = 0 PROVE Goal'
  BY DEF NobodyTriggers, LeaseHeld, OneExecution
<1>1. triggers = 0 /\ TypeOK
  BY TriggersStayZero DEF Inductive
<1>2. Goal
  BY <1>1 DEF Inductive, NobodyTriggers, LeaseHeld, OneExecution
<1>3. now \in Nat /\ \A s \in Schedule : row[s] \in Row
  BY <1>1 DEF TypeOK
<1>4. CASE UNCHANGED vars
  BY <1>2, <1>4 DEF vars
<1>5. CASE Clock
  <2>1. ASSUME NEW p \in Poller, NEW s \in job[p].schedule
        PROVE  row[s].lease # NoSlot /\ now + 1 <= row[s].lease
    <3>1. row[s].lease # NoSlot /\ now < row[s].lease
      BY <1>2, <1>5, <2>1 DEF Clock
    <3>2. row[s] \in Row
      BY <1>1, <1>3, <2>1, JobsAreSchedules
    <3>3. row[s].lease \in Nat
      BY <3>1, <3>2 DEF Row
    <3> QED BY <1>3, <3>1, <3>3
  <2>2. now' = now + 1 /\ UNCHANGED <<row, job, hand>>
    BY <1>5 DEF Clock
  <2> QED BY <1>2, <2>1, <2>2
<1>6. ASSUME NEW p \in Poller, NEW busy \in SUBSET Schedule, Claim(p, busy) PROVE Goal'
  <2> PICK s \in Schedule :
        /\ Due(s)
        /\ \E retry : row' = [row EXCEPT ![s].lease = now + Ttl, ![s].retry = retry]
        /\ \E slot : job' = [job EXCEPT ![p] = [schedule |-> {s}, slot |-> slot]]
        /\ UNCHANGED <<now, hand>>
    <3>1. PICK u \in Schedule \ busy :
            /\ Due(u)
            /\ LET retry == Came(row[u].retry)
               IN  /\ row' = [row EXCEPT ![u].lease = now + Ttl,
                                         ![u].retry = IF retry THEN NoSlot ELSE @]
                   /\ job' = [job EXCEPT ![p] = [schedule |-> {u},
                                                 slot |-> IF retry THEN NoSlot ELSE row[u].next]]
            /\ UNCHANGED <<now, hand>>
      BY <1>6 DEF Claim
    <3> DEFINE slot == IF Came(row[u].retry) THEN NoSlot ELSE row[u].next
               retry == IF Came(row[u].retry) THEN NoSlot ELSE row[u].retry
    <3>2. row' = [row EXCEPT ![u].lease = now + Ttl, ![u].retry = retry]
      BY <1>1, <3>1 DEF TypeOK
    <3>3. job' = [job EXCEPT ![p] = [schedule |-> {u}, slot |-> slot]]
      BY <3>1
    <3> HIDE DEF slot, retry
    <3> QED BY <3>1, <3>2, <3>3
  <2>1. \A q \in Poller : s \notin job[q].schedule
    <3>1. row[s].lease # NoSlot => row[s].lease < now /\ row[s].lease \in Nat
      BY <1>3 DEF Due, Reclaimable, Row
    <3> QED BY <1>2, <1>3, <3>1
  <2>2. /\ row'[s].lease = now + Ttl
        /\ \A u \in Schedule : u # s => row'[u] = row[u]
    BY <1>1, <1>3 DEF TypeOK, Row
  <2>3. now + Ttl \in Nat /\ now + Ttl # NoSlot /\ now <= now + Ttl
    BY <1>3, SchedulesAssumption, CalendarAssumption
  <2>4. job'[p].schedule = {s} /\ \A q \in Poller : q # p => job'[q] = job[q]
    BY <1>1 DEF TypeOK
  <2>5. \A q \in Poller : \A u \in job[q].schedule : u \in Schedule
    BY <1>1, JobsAreSchedules
  <2>6. \A q \in Poller : Held(q)'
    <3>1. ASSUME NEW q \in Poller, q # p PROVE Held(q)'
      BY <1>2, <2>1, <2>2, <2>4, <2>5, <3>1
    <3>2. Held(p)'
      BY <2>2, <2>3, <2>4
    <3> QED BY <3>1, <3>2
  <2>7. \A q, u \in Poller : Apart(q, u)'
    BY <1>2, <2>1, <2>4
  <2> QED BY <1>2, <2>6, <2>7
<1>7. ASSUME NEW p \in Poller, NEW success \in BOOLEAN, Finalize(p, success) PROVE Goal'
  <2> PICK s \in job[p].schedule :
        /\ row' = row \/ \E r : row' = [row EXCEPT ![s] = r]
        /\ job' = [job EXCEPT ![p] = Idle]
        /\ UNCHANGED <<now, hand>>
    BY <1>7 DEF Finalize
  <2>1. job'[p].schedule = {} /\ \A q \in Poller : q # p => job'[q] = job[q]
    BY <1>1 DEF TypeOK, Idle
  <2>2. \A q \in Poller : q # p => s \notin job[q].schedule
    BY <1>2
  <2>3. \A u \in Schedule : u # s => row'[u] = row[u]
    BY <1>1 DEF TypeOK
  <2>4. \A q \in Poller : \A u \in job[q].schedule : u \in Schedule
    BY <1>1, JobsAreSchedules
  <2> QED BY <1>2, <2>1, <2>2, <2>3, <2>4
<1>8. ASSUME NEW p \in Poller, Crash(p) PROVE Goal'
  <2>1. job'[p].schedule = {} /\ \A q \in Poller : q # p => job'[q] = job[q]
    BY <1>1, <1>8 DEF TypeOK, Crash, Idle
  <2>2. UNCHANGED <<now, row, hand>>
    BY <1>8 DEF Crash
  <2> QED BY <1>2, <2>1, <2>2
<1>9. ASSUME UNCHANGED <<now, job, hand>>, \A s \in Schedule : row'[s].lease = row[s].lease
      PROVE  Goal'
  <2>1. \A q \in Poller : \A u \in job[q].schedule : u \in Schedule
    BY <1>1, JobsAreSchedules
  <2> QED BY <1>2, <1>9, <2>1
<1>10. ASSUME NEW s \in Schedule, NEW e \in Expression, NEW enabled \in BOOLEAN,
              Update(s, e, enabled)
       PROVE  Goal'
  <2> DEFINE r == [row[s] EXCEPT !.expression = e, !.enabled = enabled,
                                 !.retry = NoSlot, !.retries = 0]
  <2>1. r \in Row /\ r.lease = row[s].lease
    <3>1. row[s] \in Row /\ 0 \in 0 .. MaxRetries
      BY <1>3, SchedulesAssumption
    <3> QED BY <3>1 DEF Row
  <2>2. row' = [row EXCEPT ![s] = Synced(r)] /\ UNCHANGED <<now, job, hand>>
    BY <1>10 DEF Update
  <2> HIDE DEF r
  <2>3. \A u \in Schedule : row'[u].lease = row[u].lease
    BY <1>1, <2>1, <2>2, SyncedKeepsLease DEF TypeOK
  <2> QED BY <1>9, <2>2, <2>3
<1>11. ASSUME NEW s \in Schedule, NEW enabled \in BOOLEAN, Toggle(s, enabled) PROVE Goal'
  <2> DEFINE r == [row[s] EXCEPT !.enabled = enabled]
  <2>1. r \in Row /\ r.lease = row[s].lease
    BY <1>3 DEF Row
  <2>2. row' = [row EXCEPT ![s] = Synced(r)] /\ UNCHANGED <<now, job, hand>>
    BY <1>11 DEF Toggle
  <2> HIDE DEF r
  <2>3. \A u \in Schedule : row'[u].lease = row[u].lease
    BY <1>1, <2>1, <2>2, SyncedKeepsLease DEF TypeOK
  <2> QED BY <1>9, <2>2, <2>3
<1>12. ASSUME NEW s \in Schedule, Delete(s) PROVE Goal'
  <2>1. row' = [row EXCEPT ![s].exists = FALSE] /\ UNCHANGED <<now, job, hand>>
    BY <1>12 DEF Delete
  <2>2. \A u \in Schedule : row'[u].lease = row[u].lease
    BY <1>1, <1>3, <2>1 DEF TypeOK, Row
  <2> QED BY <1>9, <2>1, <2>2
<1>13. ASSUME NEW s \in Schedule, NEW h \in Person, Trigger(h, s) PROVE Goal'
  BY <1>1, <1>13 DEF Trigger
<1>14. ASSUME NEW h \in Person, NEW raised \in BOOLEAN, TriggerDone(h, raised) PROVE Goal'
  BY <1>2, <1>14 DEF TriggerDone
<1> HIDE DEF Goal
<1> QED
  BY <1>4, <1>5, <1>6, <1>7, <1>8, <1>10, <1>11, <1>12, <1>13, <1>14 DEF Next, Finish

\* As long as executions end within their lease, no two pollers ever execute
\* one schedule at once: claim_next_due_schedule and the finalize step suffice.
THEOREM OneAtATime ==
    ASSUME Outlast = FALSE PROVE Spec => []OneExecution
<1>1. Init => Inductive
  BY TypeCorrectAtInit DEF Init, Inductive, NobodyTriggers, LeaseHeld, OneExecution, Idle
<1>2. Inductive /\ [Next]_vars => Inductive'
  <2> SUFFICES ASSUME Inductive, [Next]_vars PROVE Inductive'
    OBVIOUS
  <2>1. TypeOK'
    BY Typing DEF Inductive
  <2>2. (NobodyTriggers /\ LeaseHeld /\ OneExecution)'
    BY <2>1, Holding
  <2> QED BY <2>1, <2>2 DEF Inductive
<1>3. Inductive => OneExecution
  BY DEF Inductive
<1> QED BY <1>1, <1>2, <1>3, PTL DEF Spec

(***************************************************************************)
(* The slots of a schedule.  SlotExecutedOnce needs to know how the slots  *)
(* executed lie to the one the row is at and to the one in work (Passed);  *)
(* NoSlotSkipped, that none before those is missing (NoneMissing);         *)
(* RetriesBounded, that a pending retry has been paid for by the count on  *)
(* the row, and so has the execution in work (RetriesPaid).                *)
(***************************************************************************)

Executed(s, t) == ran[s][t] > 0
InWork(s, t) == \E p \in Poller : s \in job[p].schedule /\ job[p].slot = t

\* The row of a schedule is at or past the last slot executed; at it only while
\* that slot is in work, or when a poller stopped with it.
Passed ==
    triggers = 0 =>
    \A s \in Schedule : \A t \in Slot :
        Executed(s, t) =>
            /\ t <= now
            /\ ran[s][t] <= 1 + crashes
            /\ \A p \in Poller :
                 s \in job[p].schedule /\ job[p].slot # NoSlot => t <= job[p].slot
            /\ row[s].exists /\ row[s].next # NoSlot =>
                 \/ t < row[s].next
                 \/ t = row[s].next /\ (ran[s][t] <= crashes \/ InWork(s, t))

\* A slot in work has come.
WorkHasCome ==
    \A p \in Poller : job[p].slot # NoSlot => job[p].slot <= now

\* The slots of a calendar, but for the instant schedules are created at.
Slots(s) == SlotsOf[row[s].expression] \ {0}

NoneMissing ==
    edits = 0 =>
    \A s \in Schedule :
        /\ row[s].next # NoSlot
        /\ \A t \in Slots(s) : t < row[s].next => Executed(s, t)
        /\ \A t \in Slots(s) : \A p \in Poller :
             s \in job[p].schedule /\ job[p].slot # NoSlot /\ t <= job[p].slot
               => Executed(s, t)

RetriesPaid ==
    triggers = 0 =>
    \A s \in Schedule :
        /\ row[s].retry # NoSlot => retried[s] + 1 <= row[s].retries + MaxRetries * edits
        /\ \A p \in Poller :
             s \in job[p].schedule => retried[s] <= row[s].retries + MaxRetries * edits

Orderly ==
    /\ Inductive
    /\ WorkHasCome
    /\ Passed
    /\ NoneMissing
    /\ NoSlotSkipped
    /\ RetriesPaid
    /\ RetriesBounded

\* What the calendar answers comes after the instant it was asked for, and
\* leaves no slot between.
LEMMA SlotAfterFollows ==
    ASSUME NEW e \in Expression, NEW t \in 0 .. Horizon
    PROVE  /\ SlotAfter(e, t) \in Slot
           /\ t < SlotAfter(e, t)
           /\ \A s \in SlotsOf[e] : s < SlotAfter(e, t) => s <= t
<1> DEFINE After == {s \in SlotsOf[e] : s > t}
<1>1. SlotsOf[e] \subseteq 0 .. Horizon /\ Horizon \in Nat
  BY CalendarAssumption
<1>0. After \in SUBSET Nat
  BY <1>1
<1>2. CASE After = {}
  <2>1. ~ \E s \in SlotsOf[e] : s > t
    BY <1>2
  <2>2. SlotAfter(e, t) = Beyond
    BY <2>1 DEF SlotAfter
  <2>3. \A s \in SlotsOf[e] : s <= t
    BY <1>1, <2>1
  <2> QED BY <1>1, <2>2, <2>3 DEF Beyond, Slot
<1>3. CASE After # {}
  <2>1. PICK s \in After : \A q \in After : s <= q
    BY <1>0, <1>3, FirstOccurrence
  <2>2. \E x \in SlotsOf[e] : x > t /\ \A q \in SlotsOf[e] : q > t => x <= q
    BY <2>1
  <2> DEFINE a == SlotAfter(e, t)
  <2>3. a \in SlotsOf[e] /\ a > t /\ \A q \in SlotsOf[e] : q > t => a <= q
    BY <2>2 DEF SlotAfter
  <2> HIDE DEF a
  <2>4. a \in Nat /\ a <= Horizon /\ \A q \in SlotsOf[e] : q \in Nat
    BY <1>1, <2>3
  <2>5. t < a /\ \A q \in SlotsOf[e] : q < a => q <= t
    BY <2>3, <2>4
  <2>6. a \in Slot
    BY <1>1, <2>4 DEF Slot, Beyond
  <2> QED BY <2>5, <2>6 DEF a
<1> QED BY <1>2, <1>3

\* A schedule that is due is in no poller's hands.
LEMMA DueIsFree ==
    ASSUME Inductive, triggers = 0, NEW s \in Schedule, Due(s), NEW p \in Poller
    PROVE  s \notin job[p].schedule
<1>1. row[s] \in Row /\ now \in Nat
  BY CalendarAssumption DEF Inductive, TypeOK
<1>2. row[s].lease # NoSlot => row[s].lease < now /\ row[s].lease \in Nat
  BY <1>1 DEF Due, Reclaimable, Row
<1> QED BY <1>1, <1>2 DEF Inductive, LeaseHeld

\* What a claim does (claim_next_due_schedule), field by field.
LEMMA ClaimEffect ==
    ASSUME TypeOK, NEW p \in Poller, NEW busy \in SUBSET Schedule, Claim(p, busy)
    PROVE  \E s \in Schedule :
             /\ Due(s) /\ UNCHANGED <<now, edits, triggers, crashes>>
             /\ job[p].schedule = {}
             /\ \A u \in Schedule \ {s} : row'[u] = row[u] /\ retried'[u] = retried[u]
                                           /\ ran'[u] = ran[u]
             /\ row'[s].exists = row[s].exists /\ row'[s].expression = row[s].expression
             /\ row'[s].next = row[s].next /\ row'[s].retries = row[s].retries
             /\ \A q \in Poller \ {p} : job'[q] = job[q]
             /\ job'[p].schedule = {s}
             /\ \/ /\ Came(row[s].retry) /\ job'[p].slot = NoSlot
                   /\ row'[s].retry = NoSlot
                   /\ ran'[s] = ran[s] /\ retried'[s] = retried[s] + 1
                \/ /\ Came(row[s].next) /\ job'[p].slot = row[s].next
                   /\ row'[s].retry = row[s].retry
                   /\ ran'[s] = [ran[s] EXCEPT ![row[s].next] = @ + 1] /\ retried'[s] = 0
<1>1. PICK s \in Schedule \ busy :
        /\ Due(s) /\ job[p] = Idle
        /\ LET retry == Came(row[s].retry)
           IN  /\ row' = [row EXCEPT ![s].lease = now + Ttl,
                                     ![s].retry = IF retry THEN NoSlot ELSE @]
               /\ job' = [job EXCEPT ![p] = [schedule |-> {s},
                                             slot |-> IF retry THEN NoSlot ELSE row[s].next]]
               /\ ran' = IF retry THEN ran ELSE [ran EXCEPT ![s][row[s].next] = @ + 1]
               /\ retried' = [retried EXCEPT ![s] = IF retry THEN @ + 1 ELSE 0]
        /\ UNCHANGED <<now, edits, triggers, crashes>>
  BY DEF Claim
<1>2. \A u \in Schedule \ {s} : row'[u] = row[u] /\ retried'[u] = retried[u] /\ ran'[u] = ran[u]
  BY <1>1 DEF TypeOK
<1>3. /\ row'[s].exists = row[s].exists /\ row'[s].expression = row[s].expression
      /\ row'[s].next = row[s].next /\ row'[s].retries = row[s].retries
  BY <1>1 DEF TypeOK, Row
<1>4. /\ \A q \in Poller \ {p} : job'[q] = job[q]
      /\ job[p].schedule = {} /\ job'[p].schedule = {s}
      /\ job'[p].slot = IF Came(row[s].retry) THEN NoSlot ELSE row[s].next
  BY <1>1 DEF TypeOK, Idle
<1>5. CASE Came(row[s].retry)
  <2>1. row'[s].retry = NoSlot /\ ran'[s] = ran[s] /\ retried'[s] = retried[s] + 1
    BY <1>1, <1>5 DEF TypeOK, Row
  <2> QED BY <1>1, <1>2, <1>3, <1>4, <1>5, <2>1
<1>6. CASE ~Came(row[s].retry)
  <2>1. /\ row'[s].retry = row[s].retry /\ retried'[s] = 0
        /\ ran'[s] = [ran[s] EXCEPT ![row[s].next] = @ + 1]
    BY <1>1, <1>6 DEF TypeOK, Row
  <2>2. Came(row[s].next)
    BY <1>1, <1>6 DEF Due
  <2> QED BY <1>1, <1>2, <1>3, <1>4, <1>6, <2>1, <2>2
<1> QED BY <1>5, <1>6

\* What the end of an execution does (_finalize_after_automated_attempt).
LEMMA FinalizeEffect ==
    ASSUME TypeOK, NEW p \in Poller, NEW success \in BOOLEAN, Finalize(p, success)
    PROVE  \E s \in Schedule :
             /\ s \in job[p].schedule
             /\ UNCHANGED <<now, ran, retried, edits, triggers, crashes>>
             /\ \A q \in Poller \ {p} : job'[q] = job[q]
             /\ job'[p].schedule = {} /\ job'[p].slot = NoSlot
             /\ \A u \in Schedule \ {s} : row'[u] = row[u]
             /\ row'[s].exists = row[s].exists /\ row'[s].expression = row[s].expression
             /\ \/ row'[s] = row[s] /\ ~row[s].exists
                \/ /\ row'[s].next = IF job[p].slot = NoSlot THEN row[s].next
                                     ELSE SlotAfter(row[s].expression, job[p].slot)
                   /\ \/ row'[s].retry = NoSlot
                      \/ row'[s].retries = row[s].retries + 1
<1>1. PICK s \in job[p].schedule :
        /\ row' = IF row[s].exists
                  THEN [row EXCEPT ![s] =
                         [MovedOn(Attempted(@, success), job[p].slot) EXCEPT !.lease = NoSlot]]
                  ELSE row
        /\ job' = [job EXCEPT ![p] = Idle]
        /\ UNCHANGED <<now, ran, retried, edits, triggers, crashes>>
  BY DEF Finalize
<1>2. s \in Schedule /\ row[s] \in Row
  BY JobsAreSchedules DEF TypeOK
<1>3. /\ \A q \in Poller \ {p} : job'[q] = job[q]
      /\ job'[p].schedule = {} /\ job'[p].slot = NoSlot
  BY <1>1 DEF TypeOK, Idle
<1>4. CASE ~row[s].exists
  BY <1>1, <1>2, <1>3, <1>4
<1>5. CASE row[s].exists
  <2> DEFINE r == Attempted(row[s], success)
             m == MovedOn(r, job[p].slot)
  <2>1. /\ r \in [exists : BOOLEAN, enabled : BOOLEAN, expression : Expression,
                  next : Slot \cup {NoSlot}, retry : Nat \cup {NoSlot},
                  retries : 0 .. MaxRetries, lease : Nat \cup {NoSlot}]
        /\ r.exists = row[s].exists /\ r.expression = row[s].expression
        /\ r.next = row[s].next
        /\ r.retry = NoSlot \/ r.retries = row[s].retries + 1
    <3>1. now \in Nat
      BY CalendarAssumption DEF TypeOK
    <3>2. r \in Row
      BY <1>2, <3>1, AttemptedIsARow
    <3>3. /\ r.exists = row[s].exists /\ r.expression = row[s].expression
          /\ r.next = row[s].next
          /\ r.retry = NoSlot \/ r.retries = row[s].retries + 1
      BY <1>2 DEF Attempted, Row
    <3> QED BY <3>2, <3>3 DEF Row
  <2> HIDE DEF r
  <2>2. /\ m.exists = r.exists /\ m.expression = r.expression
        /\ m.retry = r.retry /\ m.retries = r.retries
        /\ m.next = IF job[p].slot = NoSlot THEN r.next
                    ELSE SlotAfter(r.expression, job[p].slot)
    BY <2>1 DEF MovedOn
  <2>3. m \in Row
    <3>1. job[p].slot \in Slot \cup {NoSlot} /\ r \in Row
      BY <2>1 DEF TypeOK, Row
    <3> QED BY <3>1, MovedOnIsARow
  <2>4. row' = [row EXCEPT ![s] = [m EXCEPT !.lease = NoSlot]]
    BY <1>1, <1>5 DEF r
  <2> HIDE DEF m
  <2>5. /\ row'[s].exists = m.exists /\ row'[s].expression = m.expression
        /\ row'[s].retry = m.retry /\ row'[s].retries = m.retries
        /\ row'[s].next = m.next
        /\ \A u \in Schedule \ {s} : row'[u] = row[u]
    BY <1>2, <2>3, <2>4 DEF TypeOK, Row
  <2> QED BY <1>1, <1>2, <1>3, <2>1, <2>2, <2>5
<1> QED BY <1>4, <1>5

\* What people do to a row (update_schedule, toggle, delete): a new next run is
\* one to come, and a new count of retries leaves none pending.
LEMMA EditEffect ==
    ASSUME TypeOK, NEW s \in Schedule,
           \/ \E e \in Expression, enabled \in BOOLEAN : Update(s, e, enabled)
           \/ \E enabled \in BOOLEAN : Toggle(s, enabled)
           \/ Delete(s)
    PROVE  /\ edits' = edits + 1 /\ UNCHANGED <<now, job, ran, retried, triggers, crashes>>
           /\ \A u \in Schedule \ {s} : row'[u] = row[u]
           /\ row[s].exists
           /\ \/ ~row'[s].exists
              \/ row'[s].next = NoSlot \/ now < row'[s].next
           /\ \/ row'[s].retry = NoSlot
              \/ row'[s].retry = row[s].retry /\ row'[s].retries = row[s].retries
<1>1. now \in 0 .. Horizon /\ row[s] \in Row
  BY DEF TypeOK
<1>2. ASSUME NEW r \in Row
      PROVE  /\ Synced(r) \in Row
             /\ Synced(r).next = NoSlot \/ now < Synced(r).next
             /\ \/ Synced(r).retry = NoSlot
                \/ Synced(r).retry = r.retry /\ Synced(r).retries = r.retries
  <2>1. now < SlotAfter(r.expression, now) /\ now \in Nat
    BY <1>1, SlotAfterFollows DEF Row
  <2>2. Synced(r) \in Row
    BY <2>1, SyncedIsARow
  <2>3. CASE r.enabled
    <3>1. Synced(r) = [r EXCEPT !.next = SlotAfter(r.expression, now)]
      BY <2>3 DEF Synced
    <3>2. /\ Synced(r).next = SlotAfter(r.expression, now)
          /\ Synced(r).retry = r.retry /\ Synced(r).retries = r.retries
      BY <3>1 DEF Row
    <3> QED BY <2>1, <2>2, <3>2
  <2>4. CASE ~r.enabled
    <3>1. Synced(r) = [r EXCEPT !.next = NoSlot, !.retry = NoSlot, !.retries = 0]
      BY <2>4 DEF Synced
    <3>2. Synced(r).next = NoSlot /\ Synced(r).retry = NoSlot
      BY <3>1 DEF Row
    <3> QED BY <2>2, <3>2
  <2> QED BY <2>3, <2>4
<1>3. ASSUME NEW e \in Expression, NEW enabled \in BOOLEAN, Update(s, e, enabled)
      PROVE  /\ row[s].exists /\ \A u \in Schedule \ {s} : row'[u] = row[u]
             /\ row'[s].next = NoSlot \/ now < row'[s].next
             /\ row'[s].retry = NoSlot
  <2> DEFINE r == [row[s] EXCEPT !.expression = e, !.enabled = enabled,
                                 !.retry = NoSlot, !.retries = 0]
  <2>1. r \in Row /\ r.retry = NoSlot
    <3>1. 0 \in 0 .. MaxRetries
      BY SchedulesAssumption
    <3> QED BY <1>1, <3>1 DEF Row
  <2>2. row' = [row EXCEPT ![s] = Synced(r)] /\ row[s].exists
    BY <1>3 DEF Update, MayEdit
  <2> HIDE DEF r
  <2>3. row'[s] = Synced(r) /\ \A u \in Schedule \ {s} : row'[u] = row[u]
    BY <2>2 DEF TypeOK
  <2> QED BY <1>2, <2>1, <2>2, <2>3
<1>4. ASSUME NEW enabled \in BOOLEAN, Toggle(s, enabled)
      PROVE  /\ row[s].exists /\ \A u \in Schedule \ {s} : row'[u] = row[u]
             /\ row'[s].next = NoSlot \/ now < row'[s].next
             /\ \/ row'[s].retry = NoSlot
                \/ row'[s].retry = row[s].retry /\ row'[s].retries = row[s].retries
  <2> DEFINE r == [row[s] EXCEPT !.enabled = enabled]
  <2>1. r \in Row /\ r.retry = row[s].retry /\ r.retries = row[s].retries
    BY <1>1 DEF Row
  <2>2. row' = [row EXCEPT ![s] = Synced(r)] /\ row[s].exists
    BY <1>4 DEF Toggle, MayEdit
  <2> HIDE DEF r
  <2>3. row'[s] = Synced(r) /\ \A u \in Schedule \ {s} : row'[u] = row[u]
    BY <2>2 DEF TypeOK
  <2> QED BY <1>2, <2>1, <2>2, <2>3
<1>5. ASSUME Delete(s)
      PROVE  /\ row[s].exists /\ \A u \in Schedule \ {s} : row'[u] = row[u]
             /\ ~row'[s].exists
             /\ row'[s].retry = row[s].retry /\ row'[s].retries = row[s].retries
  BY <1>1, <1>5 DEF Delete, MayEdit, TypeOK, Row
<1>6. edits' = edits + 1 /\ UNCHANGED <<now, job, ran, retried, triggers, crashes>>
  BY DEF Update, Toggle, Delete
<1> QED BY <1>3, <1>4, <1>5, <1>6

\* What the other steps do: time passes, people trigger, a lease is cleared.
LEMMA QuietEffect ==
    ASSUME TypeOK,
           \/ UNCHANGED vars \/ Clock
           \/ \E s \in Schedule, h \in Person : Trigger(h, s)
           \/ \E h \in Person, raised \in BOOLEAN : TriggerDone(h, raised)
    PROVE  /\ UNCHANGED <<job, ran, retried, edits, crashes>> /\ now <= now'
           /\ \A s \in Schedule :
                /\ row'[s].exists = row[s].exists /\ row'[s].expression = row[s].expression
                /\ row'[s].next = row[s].next
                /\ row'[s].retry = row[s].retry /\ row'[s].retries = row[s].retries
<1>1. now \in Nat /\ \A s \in Schedule : row[s] \in Row
  BY CalendarAssumption DEF TypeOK
<1>2. CASE UNCHANGED vars
  BY <1>1, <1>2 DEF vars
<1>3. CASE Clock
  BY <1>1, <1>3 DEF Clock
<1>4. CASE \E s \in Schedule, h \in Person : Trigger(h, s)
  BY <1>1, <1>4 DEF Trigger
<1>5. ASSUME NEW h \in Person, NEW raised \in BOOLEAN, TriggerDone(h, raised)
      PROVE  /\ UNCHANGED <<now, job, ran, retried, edits, crashes>>
             /\ row' = row \/ \E s \in Schedule : row' = [row EXCEPT ![s].lease = NoSlot]
  <2>1. PICK s \in hand[h] :
          /\ row' = IF raised \/ ~row[s].exists THEN row ELSE [row EXCEPT ![s].lease = NoSlot]
          /\ UNCHANGED <<now, job, ran, retried, edits, triggers, crashes>>
    BY <1>5 DEF TriggerDone
  <2>2. s \in Schedule
    BY DEF TypeOK, AtMostOne
  <2> QED BY <2>1, <2>2
<1>6. ASSUME NEW s \in Schedule, row' = [row EXCEPT ![s].lease = NoSlot]
      PROVE  \A u \in Schedule :
               /\ row'[u].exists = row[u].exists /\ row'[u].expression = row[u].expression
               /\ row'[u].next = row[u].next
               /\ row'[u].retry = row[u].retry /\ row'[u].retries = row[u].retries
  BY <1>1, <1>6 DEF TypeOK, Row
<1> QED BY <1>1, <1>2, <1>3, <1>4, <1>5, <1>6

\* Every step is one of five: a quiet one, a claim, the end of an execution, a
\* crash, an edit.
LEMMA FiveKinds ==
    ASSUME [Next]_vars
    PROVE  \/ \/ UNCHANGED vars \/ Clock
              \/ \E s \in Schedule, h \in Person : Trigger(h, s)
              \/ \E h \in Person, raised \in BOOLEAN : TriggerDone(h, raised)
           \/ \E p \in Poller : \E busy \in SUBSET Schedule : Claim(p, busy)
           \/ \E p \in Poller : \E success \in BOOLEAN : Finalize(p, success)
           \/ \E p \in Poller : Crash(p)
           \/ \E s \in Schedule :
                \/ \E e \in Expression, enabled \in BOOLEAN : Update(s, e, enabled)
                \/ \E enabled \in BOOLEAN : Toggle(s, enabled)
                \/ Delete(s)
BY Zenon DEF Next, Finish

\* The instants of the model are numbers, and no slot is none of them.
LEMMA Instants ==
    ASSUME TypeOK
    PROVE  /\ NoSlot \notin Nat /\ Slot \subseteq Nat /\ now \in 0 .. Horizon
           /\ crashes \in Nat /\ edits \in Nat
           /\ \A s \in Schedule : row[s] \in Row /\ row[s].next \in Slot \cup {NoSlot}
           /\ \A s \in Schedule : \A t \in Slot : ran[s][t] \in Nat
           /\ \A p \in Poller : job[p].slot \in Slot \cup {NoSlot}
BY CalendarAssumption DEF TypeOK, Row, Slot, Beyond

\* The slots executed stay behind the row: a claim begins the slot the row is at,
\* which had been executed only for pollers that stopped with it, and the end of an
\* execution moves the row over the slot it stood for.
LEMMA PassedStep ==
    ASSUME Inductive, WorkHasCome, Passed, [Next]_vars, TypeOK'
    PROVE  (WorkHasCome /\ Passed)'
<1> DEFINE Done(s, t) ==
             /\ t <= now
             /\ ran[s][t] <= 1 + crashes
             /\ \A p \in Poller :
                  s \in job[p].schedule /\ job[p].slot # NoSlot => t <= job[p].slot
             /\ row[s].exists /\ row[s].next # NoSlot =>
                  \/ t < row[s].next
                  \/ t = row[s].next /\ (ran[s][t] <= crashes \/ InWork(s, t))
           Come(p) == job[p].slot # NoSlot => job[p].slot <= now
<1>0. TypeOK /\ now \in Nat /\ crashes \in Nat /\ NoSlot \notin Nat
  BY Instants DEF Inductive
<1>1. \A s \in Schedule : \A t \in Slot : ran[s][t] \in Nat /\ t \in Nat
  BY <1>0, Instants
<1>2. \A p \in Poller : job[p].slot \in Nat \cup {NoSlot} /\ Come(p)
  BY <1>0, Instants DEF WorkHasCome
<1>3. triggers' = 0 => \A s \in Schedule : \A t \in Slot : Executed(s, t) => Done(s, t)
  BY TriggersStayZero DEF Passed
<1>4. ASSUME UNCHANGED <<job, ran, crashes>>, now <= now', now' \in Nat,
             \A s \in Schedule : row'[s].exists = row[s].exists /\ row'[s].next = row[s].next
      PROVE  (WorkHasCome /\ Passed)'
  <2>1. WorkHasCome'
    BY <1>0, <1>2, <1>4 DEF WorkHasCome
  <2>2. ASSUME triggers' = 0, NEW s \in Schedule, NEW t \in Slot, ran[s][t] > 0
        PROVE  Done(s, t)'
    BY <1>0, <1>1, <1>3, <1>4, <2>2 DEF Executed, InWork
  <2> QED BY <1>4, <2>1, <2>2 DEF Passed, Executed
<1>5. ASSUME NEW p \in Poller, NEW busy \in SUBSET Schedule, Claim(p, busy)
      PROVE  (WorkHasCome /\ Passed)'
  <2>1. PICK s \in Schedule :
          /\ Due(s) /\ UNCHANGED <<now, edits, triggers, crashes>>
          /\ job[p].schedule = {}
          /\ \A u \in Schedule \ {s} : row'[u] = row[u] /\ ran'[u] = ran[u]
          /\ row'[s].exists = row[s].exists /\ row'[s].next = row[s].next
          /\ \A q \in Poller \ {p} : job'[q] = job[q]
          /\ job'[p].schedule = {s}
          /\ \/ job'[p].slot = NoSlot /\ ran'[s] = ran[s]
             \/ /\ Came(row[s].next) /\ job'[p].slot = row[s].next
                /\ ran'[s] = [ran[s] EXCEPT ![row[s].next] = @ + 1]
    BY <1>0, <1>5, ClaimEffect
  <2>2. WorkHasCome'
    BY <1>2, <2>1 DEF WorkHasCome, Came
  <2>3. ASSUME triggers' = 0, NEW u \in Schedule, u # s, NEW t \in Slot, ran'[u][t] > 0
        PROVE  Done(u, t)'
    <3>1. Done(u, t)
      BY <1>3, <2>1, <2>3 DEF Executed
    <3>2. InWork(u, t) => InWork(u, t)'
      BY <2>1 DEF InWork
    <3>3. \A q \in Poller : u \in job'[q].schedule => job'[q] = job[q]
      BY <2>1, <2>3
    <3> QED BY <2>1, <2>3, <3>1, <3>2, <3>3
  <2>4. ASSUME triggers' = 0, NEW t \in Slot, ran'[s][t] > 0
        PROVE  Done(s, t)'
    <3>1. \A q \in Poller : s \notin job[q].schedule
      BY <2>1, <2>4, DueIsFree
    <3>2. ran[s][t] > 0 => t <= now /\ ran[s][t] <= 1 + crashes /\
            (row[s].exists /\ row[s].next # NoSlot =>
                t < row[s].next \/ (t = row[s].next /\ ran[s][t] <= crashes))
      BY <1>3, <2>4, <3>1 DEF Executed, InWork
    <3>3. \A q \in Poller : s \in job'[q].schedule => q = p
      BY <2>1, <3>1
    <3>4. row[s].exists /\ row[s].next \in Slot \cup {NoSlot}
      BY <1>0, <2>1, Instants DEF Due
    <3>5. CASE job'[p].slot = NoSlot /\ ran'[s] = ran[s]
      BY <2>1, <2>4, <3>2, <3>3, <3>5
    <3>6. CASE /\ Came(row[s].next) /\ job'[p].slot = row[s].next
               /\ ran'[s] = [ran[s] EXCEPT ![row[s].next] = @ + 1]
      <4> DEFINE n == row[s].next
      <4>1. n \in Slot /\ n \in Nat /\ n <= now /\ n # NoSlot
        BY <1>0, <1>1, <3>4, <3>6, Instants DEF Came
      <4>2. ran[s] \in [Slot -> Nat]
        BY <1>0 DEF TypeOK
      <4>3. CASE t # n
        <5>1. ran'[s][t] = ran[s][t]
          BY <3>6, <4>2, <4>3
        <5>2. t < n /\ t <= now /\ ran[s][t] <= 1 + crashes
          BY <2>4, <3>2, <3>4, <4>1, <4>3, <5>1
        <5> QED BY <1>0, <1>1, <2>1, <3>3, <3>6, <4>1, <5>1, <5>2
      <4>4. CASE t = n
        <5>1. ran'[s][n] = ran[s][n] + 1
          BY <3>6, <4>1, <4>2
        <5>2. ran[s][n] <= crashes
          BY <1>0, <1>1, <3>2, <3>4, <4>1, <4>4
        <5>3. InWork(s, t)'
          BY <2>1, <3>6, <4>4 DEF InWork
        <5>4. ran'[s][n] <= 1 + crashes
          BY <1>0, <1>1, <4>1, <5>1, <5>2
        <5> QED BY <1>0, <2>1, <3>3, <3>6, <4>1, <4>4, <5>3, <5>4
      <4> QED BY <4>3, <4>4
    <3> QED BY <2>1, <3>5, <3>6
  <2> QED BY <2>2, <2>3, <2>4 DEF Passed, Executed
<1>6. ASSUME NEW p \in Poller, NEW success \in BOOLEAN, Finalize(p, success)
      PROVE  (WorkHasCome /\ Passed)'
  <2>1. PICK s \in Schedule :
          /\ s \in job[p].schedule
          /\ UNCHANGED <<now, ran, retried, edits, triggers, crashes>>
          /\ \A q \in Poller \ {p} : job'[q] = job[q]
          /\ job'[p].schedule = {} /\ job'[p].slot = NoSlot
          /\ \A u \in Schedule \ {s} : row'[u] = row[u]
          /\ row'[s].exists = row[s].exists
          /\ \/ row'[s] = row[s] /\ ~row[s].exists
             \/ row'[s].next = IF job[p].slot = NoSlot THEN row[s].next
                               ELSE SlotAfter(row[s].expression, job[p].slot)
    BY <1>0, <1>6, FinalizeEffect
  <2>2. WorkHasCome'
    BY <1>2, <2>1 DEF WorkHasCome
  <2>3. job[p].schedule = {s}
    BY <1>0, <2>1, JobsAreSchedules
  <2>4. ASSUME triggers' = 0, NEW u \in Schedule, u # s, NEW t \in Slot, ran[u][t] > 0
        PROVE  Done(u, t)'
    <3>1. Done(u, t)
      BY <1>3, <2>4 DEF Executed
    <3>2. InWork(u, t) => InWork(u, t)'
      BY <2>1, <2>3, <2>4 DEF InWork
    <3>3. \A q \in Poller : u \in job'[q].schedule => job'[q] = job[q]
      BY <2>1
    <3> QED BY <2>1, <2>4, <3>1, <3>2, <3>3
  <2>5. ASSUME triggers' = 0, NEW t \in Slot, ran[s][t] > 0
        PROVE  Done(s, t)'
    <3>1. \A q \in Poller : q # p => s \notin job[q].schedule
      BY <2>1, <2>5 DEF Inductive, OneExecution
    <3>2. \A q \in Poller : s \notin job'[q].schedule
      BY <2>1, <3>1
    <3>3. Done(s, t)
      BY <1>3, <2>5 DEF Executed
    <3>4. CASE ~row[s].exists
      BY <2>1, <3>2, <3>3, <3>4
    <3>5. CASE row'[s].next = row[s].next /\ job[p].slot = NoSlot
      <4>1. ~InWork(s, t)
        BY <1>0, <1>1, <3>1, <3>5 DEF InWork
      <4> QED BY <2>1, <3>2, <3>3, <3>5, <4>1
    <3>6. CASE /\ row'[s].next = SlotAfter(row[s].expression, job[p].slot)
               /\ job[p].slot # NoSlot
      <4>1. job[p].slot \in 0 .. Horizon /\ row[s].expression \in Expression
        <5>1. now \in 0 .. Horizon /\ Horizon \in Nat /\ row[s] \in Row
          BY <1>0, Instants, CalendarAssumption
        <5> QED BY <1>2, <3>6, <5>1 DEF Row
      <4>2. row'[s].next \in Nat /\ job[p].slot < row'[s].next
        BY <1>0, <3>6, <4>1, SlotAfterFollows, Instants
      <4>3. t <= job[p].slot
        BY <2>1, <3>3, <3>6
      <4>4. t < row'[s].next
        BY <1>1, <4>1, <4>2, <4>3
      <4> QED BY <2>1, <3>2, <3>3, <4>4
    <3> QED BY <2>1, <3>4, <3>5, <3>6
  <2> QED BY <2>1, <2>2, <2>4, <2>5 DEF Passed, Executed
<1>7. ASSUME NEW p \in Poller, Crash(p) PROVE (WorkHasCome /\ Passed)'
  <2>1. /\ crashes' = crashes + 1 /\ UNCHANGED <<now, row, ran, triggers>>
        /\ job'[p].schedule = {} /\ job'[p].slot = NoSlot
        /\ \A q \in Poller : q # p => job'[q] = job[q]
    BY <1>0, <1>7 DEF TypeOK, Crash, Idle
  <2>2. WorkHasCome'
    BY <1>2, <2>1 DEF WorkHasCome
  <2>3. ASSUME triggers' = 0, NEW s \in Schedule, NEW t \in Slot, ran[s][t] > 0
        PROVE  Done(s, t)'
    <3>1. Done(s, t) /\ ran[s][t] \in Nat
      BY <1>1, <1>3, <2>3 DEF Executed
    <3>2. ran[s][t] <= crashes'
      BY <1>0, <2>1, <3>1
    <3>3. ran[s][t] <= 1 + crashes'
      BY <1>0, <2>1, <3>1
    <3> QED BY <2>1, <3>1, <3>2, <3>3
  <2> QED BY <2>1, <2>2, <2>3 DEF Passed, Executed
<1>8. ASSUME NEW s \in Schedule,
             \/ \E e \in Expression, enabled \in BOOLEAN : Update(s, e, enabled)
             \/ \E enabled \in BOOLEAN : Toggle(s, enabled)
             \/ Delete(s)
      PROVE  (WorkHasCome /\ Passed)'
  <2>1. /\ UNCHANGED <<now, job, ran, triggers, crashes>>
        /\ \A u \in Schedule \ {s} : row'[u] = row[u]
        /\ ~row'[s].exists \/ row'[s].next = NoSlot \/ now < row'[s].next
    BY <1>0, <1>8, EditEffect
  <2>2. WorkHasCome'
    BY <1>2, <2>1 DEF WorkHasCome
  <2>3. ASSUME triggers' = 0, NEW u \in Schedule, NEW t \in Slot, ran[u][t] > 0
        PROVE  Done(u, t)'
    <3>1. Done(u, t)
      BY <1>3, <2>3 DEF Executed
    <3>2. CASE u # s
      BY <2>1, <3>1, <3>2 DEF InWork
    <3>3. CASE u = s
      <4>1. row'[s].next \in Nat \cup {NoSlot}
        BY CalendarAssumption DEF TypeOK, Row, Slot, Beyond
      <4> QED BY <1>0, <1>1, <2>1, <3>1, <3>3, <4>1
    <3> QED BY <3>2, <3>3
  <2> QED BY <2>1, <2>2, <2>3 DEF Passed, Executed
<1>9. now' \in Nat
  BY CalendarAssumption DEF TypeOK
<1> QED
  BY <1>0, <1>4, <1>5, <1>6, <1>7, <1>8, <1>9, QuietEffect, FiveKinds

\* No slot is left out: the calendar's answer leaves none between, and a claim
\* begins the very slot the row is at.
LEMMA NoneMissingStep ==
    ASSUME TypeOK, WorkHasCome, NoneMissing, NoSlotSkipped, [Next]_vars, TypeOK'
    PROVE  (NoneMissing /\ NoSlotSkipped)'
<1> DEFINE Behind(s) ==
             /\ row[s].next # NoSlot
             /\ \A t \in Slots(s) : t < row[s].next => ran[s][t] > 0
             /\ \A t \in Slots(s) : \A p \in Poller :
                  s \in job[p].schedule /\ job[p].slot # NoSlot /\ t <= job[p].slot
                    => ran[s][t] > 0
           Follows(s) == \A t, u \in Slots(s) : t < u /\ ran[s][u] > 0 => ran[s][t] > 0
           Goal(s) == Behind(s) /\ Follows(s)
<1>0. now \in Nat /\ edits \in Nat /\ NoSlot \notin Nat /\ Slot \subseteq Nat
  BY Instants
<1>1. edits = 0 => \A s \in Schedule : Goal(s)
  BY DEF NoneMissing, NoSlotSkipped, Executed, Slots
<1>2. (\A s \in Schedule : Goal(s)') => (NoneMissing /\ NoSlotSkipped)'
  BY DEF NoneMissing, NoSlotSkipped, Executed, Slots
<1>3. ASSUME UNCHANGED <<ran, edits>>,
             \A p \in Poller : job'[p] = job[p] \/ job'[p].schedule = {},
             \A s \in Schedule :
                 row'[s].next = row[s].next /\ row'[s].expression = row[s].expression
      PROVE  (NoneMissing /\ NoSlotSkipped)'
  <2>1. ASSUME edits = 0, NEW s \in Schedule PROVE Goal(s)'
    <3>1. Goal(s) /\ Slots(s)' = Slots(s)
      BY <1>1, <1>3, <2>1 DEF Slots
    <3>2. Behind(s)'
      BY <1>3, <3>1
    <3>3. Follows(s)'
      BY <1>3, <3>1
    <3> QED BY <3>2, <3>3
  <2>2. CASE edits = 0
    BY <1>2, <2>1, <2>2
  <2>3. CASE edits # 0
    BY <1>3, <2>3 DEF NoneMissing, NoSlotSkipped
  <2> QED BY <2>2, <2>3
<1>4. ASSUME NEW p \in Poller, NEW busy \in SUBSET Schedule, Claim(p, busy)
      PROVE  (NoneMissing /\ NoSlotSkipped)'
  <2>1. PICK s \in Schedule :
          /\ UNCHANGED edits
          /\ \A u \in Schedule \ {s} : row'[u] = row[u] /\ ran'[u] = ran[u]
          /\ row'[s].expression = row[s].expression /\ row'[s].next = row[s].next
          /\ \A q \in Poller \ {p} : job'[q] = job[q]
          /\ job'[p].schedule = {s}
          /\ \/ job'[p].slot = NoSlot /\ ran'[s] = ran[s]
             \/ /\ Came(row[s].next) /\ job'[p].slot = row[s].next
                /\ ran'[s] = [ran[s] EXCEPT ![row[s].next] = @ + 1]
    BY <1>4, ClaimEffect
  <2>2. ASSUME edits = 0, NEW u \in Schedule, u # s PROVE Goal(u)'
    <3>1. Goal(u) /\ Slots(u)' = Slots(u)
      BY <1>1, <2>1, <2>2 DEF Slots
    <3>2. \A q \in Poller : u \in job'[q].schedule => job'[q] = job[q]
      BY <2>1, <2>2
    <3>3. Behind(u)'
      BY <2>1, <2>2, <3>1, <3>2
    <3>4. Follows(u)'
      BY <2>1, <2>2, <3>1
    <3> QED BY <3>3, <3>4
  <2>3. ASSUME edits = 0 PROVE Goal(s)'
    <3> DEFINE n == row[s].next
    <3>1. Goal(s) /\ Slots(s)' = Slots(s) /\ row'[s].next = n
      BY <1>1, <2>1, <2>3 DEF Slots
    <3>2. n \in Slot /\ n \in Nat /\ Slots(s) \subseteq Slot /\ Slots(s) \subseteq Nat
      <4>1. row[s] \in Row
        BY Instants
      <4>2. row[s].next \in Slot
        BY <3>1, <4>1, Instants
      <4>3. Slots(s) \subseteq Slot
        BY <4>1, CalendarAssumption DEF Slots, Row, Slot, Beyond
      <4> QED BY <1>0, <4>2, <4>3
    <3>3. ran[s] \in [Slot -> Nat]
      BY DEF TypeOK
    <3>4. \A t \in Slot : ran[s][t] > 0 => ran'[s][t] > 0
      BY <2>1, <3>2, <3>3
    <3>5. \A t \in Slot : ran'[s][t] > 0 => ran[s][t] > 0 \/ (t = n /\ job'[p].slot = n)
      BY <2>1, <3>2, <3>3
    <3>6. job'[p].slot = n => ran'[s][n] > 0
      BY <1>0, <2>1, <3>2, <3>3
    <3>7. job'[p].slot = n \/ job'[p].slot = NoSlot
      BY <2>1
    <3> HIDE DEF n
    <3>8. Behind(s)'
      <4>1. \A t \in Slots(s) : t < n => ran'[s][t] > 0
        BY <3>1, <3>2, <3>4 DEF n
      <4>2. ASSUME NEW t \in Slots(s), NEW q \in Poller,
                   s \in job'[q].schedule, job'[q].slot # NoSlot, t <= job'[q].slot
            PROVE  ran'[s][t] > 0
        <5>1. CASE q # p
          BY <2>1, <3>1, <3>2, <3>4, <4>2, <5>1
        <5>2. CASE q = p
          BY <3>2, <3>6, <3>7, <4>1, <4>2, <5>2
        <5> QED BY <5>1, <5>2
      <4>3. n # NoSlot
        BY <3>1 DEF n
      <4> QED BY <3>1, <4>1, <4>2, <4>3
    <3>9. Follows(s)'
      <4>1. ASSUME NEW t \in Slots(s), NEW u \in Slots(s), t < u, ran'[s][u] > 0
            PROVE  ran'[s][t] > 0
        <5>1. CASE ran[s][u] > 0
          BY <3>1, <3>2, <3>4, <4>1, <5>1
        <5>2. CASE u = n
          BY <3>1, <3>2, <3>4, <4>1, <5>2 DEF n
        <5> QED BY <3>2, <3>5, <4>1, <5>1, <5>2
      <4> QED BY <3>1, <4>1
    <3> QED BY <3>8, <3>9
  <2>4. CASE edits = 0
    BY <1>2, <2>2, <2>3, <2>4
  <2>5. CASE edits # 0
    BY <2>1, <2>5 DEF NoneMissing, NoSlotSkipped
  <2> QED BY <2>4, <2>5
<1>5. ASSUME NEW p \in Poller, NEW success \in BOOLEAN, Finalize(p, success)
      PROVE  (NoneMissing /\ NoSlotSkipped)'
  <2>1. PICK s \in Schedule :
          /\ s \in job[p].schedule
          /\ UNCHANGED <<ran, edits>>
          /\ \A q \in Poller \ {p} : job'[q] = job[q]
          /\ job'[p].schedule = {}
          /\ \A u \in Schedule \ {s} : row'[u] = row[u]
          /\ row'[s].expression = row[s].expression
          /\ \/ row'[s] = row[s]
             \/ row'[s].next = IF job[p].slot = NoSlot THEN row[s].next
                               ELSE SlotAfter(row[s].expression, job[p].slot)
    BY <1>5, FinalizeEffect
  <2>2. \A q \in Poller : job'[q] = job[q] \/ job'[q].schedule = {}
    BY <2>1
  <2>3. ASSUME edits = 0, NEW u \in Schedule PROVE Goal(u)'
    <3>1. Goal(u) /\ Slots(u)' = Slots(u)
      BY <1>1, <2>1, <2>3 DEF Slots
    <3>2. Follows(u)'
      BY <2>1, <3>1
    <3>3. \A t \in Slots(u) : \A q \in Poller :
            u \in job'[q].schedule /\ job'[q].slot # NoSlot /\ t <= job'[q].slot
              => ran'[u][t] > 0
      BY <2>1, <2>2, <3>1
    <3>4. CASE row'[u].next = row[u].next
      BY <2>1, <3>1, <3>2, <3>3, <3>4
    <3>5. CASE /\ u = s /\ job[p].slot # NoSlot
               /\ row'[u].next = SlotAfter(row[u].expression, job[p].slot)
      <4> DEFINE k == job[p].slot
      <4>1. k \in 0 .. Horizon /\ row[u].expression \in Expression
        <5>1. now \in 0 .. Horizon /\ Horizon \in Nat /\ row[u] \in Row
              /\ job[p].slot \in Nat /\ k <= now
          BY <1>0, <3>5, Instants, CalendarAssumption DEF WorkHasCome
        <5> QED BY <5>1 DEF Row
      <4>2. /\ SlotAfter(row[u].expression, k) \in Slot
            /\ \A t \in SlotsOf[row[u].expression] :
                 t < SlotAfter(row[u].expression, k) => t <= k
        BY <4>1, SlotAfterFollows
      <4>3. \A t \in Slots(u) : t < row'[u].next => ran[u][t] > 0
        BY <2>1, <3>1, <3>5, <4>2 DEF Slots
      <4>4. row'[u].next # NoSlot
        BY <1>0, <3>5, <4>2
      <4> QED BY <2>1, <3>1, <3>2, <3>3, <4>3, <4>4
    <3> QED BY <2>1, <3>4, <3>5
  <2>4. CASE edits = 0
    BY <1>2, <2>3, <2>4
  <2>5. CASE edits # 0
    BY <2>1, <2>5 DEF NoneMissing, NoSlotSkipped
  <2> QED BY <2>4, <2>5
<1>6. ASSUME NEW p \in Poller, Crash(p) PROVE (NoneMissing /\ NoSlotSkipped)'
  <2>1. /\ UNCHANGED <<row, ran, edits>> /\ job'[p].schedule = {}
        /\ \A q \in Poller : q # p => job'[q] = job[q]
    BY <1>6 DEF TypeOK, Crash, Idle
  <2> QED BY <1>3, <2>1
<1>7. ASSUME NEW s \in Schedule,
             \/ \E e \in Expression, enabled \in BOOLEAN : Update(s, e, enabled)
             \/ \E enabled \in BOOLEAN : Toggle(s, enabled)
             \/ Delete(s)
      PROVE  (NoneMissing /\ NoSlotSkipped)'
  <2>1. edits' = edits + 1
    BY <1>7, EditEffect
  <2>2. edits' # 0
    BY <1>0, <2>1
  <2> QED BY <2>2 DEF NoneMissing, NoSlotSkipped
<1>8. CASE \/ UNCHANGED vars \/ Clock
           \/ \E s \in Schedule, h \in Person : Trigger(h, s)
           \/ \E h \in Person, raised \in BOOLEAN : TriggerDone(h, raised)
  <2>1. /\ UNCHANGED <<job, ran, retried, edits, crashes>>
        /\ \A s \in Schedule :
             row'[s].next = row[s].next /\ row'[s].expression = row[s].expression
    BY <1>8, QuietEffect
  <2> QED BY <1>3, <2>1
<1> QED BY <1>4, <1>5, <1>6, <1>7, <1>8, FiveKinds

\* A retry is asked for only against the row's count, and an edit, which resets the
\* count, grants as many again: what has been retried stays paid for.
LEMMA RetriesStep ==
    ASSUME Inductive, RetriesPaid, RetriesBounded, [Next]_vars, TypeOK'
    PROVE  (RetriesPaid /\ RetriesBounded)'
<1> DEFINE Budget == MaxRetries * edits
           Paid(s) ==
             /\ row[s].retry # NoSlot => retried[s] + 1 <= row[s].retries + Budget
             /\ \A p \in Poller : s \in job[p].schedule => retried[s] <= row[s].retries + Budget
             /\ retried[s] <= MaxRetries + Budget
<1>0. TypeOK /\ Budget \in Nat /\ MaxRetries \in Nat /\ edits \in Nat /\ NoSlot \notin Nat
  BY Instants, SchedulesAssumption DEF Inductive
<1>1. MaxRetries * (1 + edits) = MaxRetries + Budget
  BY <1>0
<1>1a. MaxRetries * (1 + edits') = MaxRetries + Budget'
  BY <1>0 DEF TypeOK
<1>2. triggers' = 0 => \A s \in Schedule : Paid(s)
  BY <1>1, TriggersStayZero DEF RetriesPaid, RetriesBounded
<1>3. (triggers' = 0 => \A s \in Schedule : Paid(s)') => (RetriesPaid /\ RetriesBounded)'
  BY <1>1a DEF RetriesPaid, RetriesBounded
<1>4. \A s \in Schedule :
        /\ retried[s] \in Nat /\ retried'[s] \in Nat
        /\ row[s].retries \in 0 .. MaxRetries /\ row'[s].retries \in 0 .. MaxRetries
  BY <1>0 DEF TypeOK, Row
<1> HIDE DEF Budget
<1>5. ASSUME UNCHANGED <<retried, edits>>,
             \A p \in Poller : job'[p] = job[p] \/ job'[p].schedule = {},
             \A s \in Schedule :
                 row'[s].retry = row[s].retry /\ row'[s].retries = row[s].retries
      PROVE  (RetriesPaid /\ RetriesBounded)'
  <2>1. Budget' = Budget
    BY <1>5 DEF Budget
  <2>2. ASSUME triggers' = 0, NEW s \in Schedule PROVE Paid(s)'
    BY <1>2, <1>5, <2>1, <2>2
  <2> QED BY <1>3, <2>2
<1>6. ASSUME NEW p \in Poller, NEW busy \in SUBSET Schedule, Claim(p, busy)
      PROVE  (RetriesPaid /\ RetriesBounded)'
  <2>1. PICK s \in Schedule :
          /\ UNCHANGED edits
          /\ \A u \in Schedule \ {s} : row'[u] = row[u] /\ retried'[u] = retried[u]
          /\ row'[s].retries = row[s].retries
          /\ \A q \in Poller \ {p} : job'[q] = job[q]
          /\ job'[p].schedule = {s}
          /\ \/ Came(row[s].retry) /\ row'[s].retry = NoSlot /\ retried'[s] = retried[s] + 1
             \/ row'[s].retry = row[s].retry /\ retried'[s] = 0
    <3>1. TypeOK
      BY <1>0
    <3> QED BY <1>6, <3>1, ClaimEffect, Zenon
  <2>2. Budget' = Budget
    BY <2>1 DEF Budget
  <2>3. ASSUME triggers' = 0, NEW u \in Schedule, u # s PROVE Paid(u)'
    <3>1. \A q \in Poller : u \in job'[q].schedule => job'[q] = job[q]
      BY <2>1, <2>3
    <3> QED BY <1>2, <2>1, <2>2, <2>3, <3>1
  <2>4. ASSUME triggers' = 0 PROVE Paid(s)'
    <3>1. CASE /\ Came(row[s].retry)
               /\ row'[s].retry = NoSlot /\ retried'[s] = retried[s] + 1
      <4>1. retried[s] + 1 <= row[s].retries + Budget
        BY <1>2, <2>4, <3>1 DEF Came
      <4>2. retried'[s] <= MaxRetries + Budget
        BY <1>0, <1>4, <3>1, <4>1
      <4> QED BY <2>1, <2>2, <3>1, <4>1, <4>2
    <3>2. CASE row'[s].retry = row[s].retry /\ retried'[s] = 0
      <4>1. row[s].retry # NoSlot => retried[s] + 1 <= row[s].retries + Budget
        BY <1>2, <2>4
      <4>2. row[s].retry # NoSlot => 1 <= row[s].retries + Budget
        BY <1>0, <1>4, <4>1
      <4>3. 0 <= row[s].retries + Budget /\ 0 <= MaxRetries + Budget
        BY <1>0, <1>4
      <4> QED BY <2>1, <2>2, <3>2, <4>2, <4>3
    <3> QED BY <2>1, <3>1, <3>2
  <2> QED BY <1>3, <2>3, <2>4
<1>7. ASSUME NEW p \in Poller, NEW success \in BOOLEAN, Finalize(p, success)
      PROVE  (RetriesPaid /\ RetriesBounded)'
  <2>1. PICK s \in Schedule :
          /\ s \in job[p].schedule /\ UNCHANGED <<retried, edits>>
          /\ \A q \in Poller \ {p} : job'[q] = job[q]
          /\ job'[p].schedule = {}
          /\ \A u \in Schedule \ {s} : row'[u] = row[u]
          /\ \/ row'[s] = row[s]
             \/ row'[s].retry = NoSlot
             \/ row'[s].retries = row[s].retries + 1
    BY <1>0, <1>7, FinalizeEffect
  <2>2. Budget' = Budget
    BY <2>1 DEF Budget
  <2>3. ASSUME triggers' = 0, NEW u \in Schedule, u # s PROVE Paid(u)'
    <3>1. \A q \in Poller : u \in job'[q].schedule => job'[q] = job[q]
      BY <2>1
    <3> QED BY <1>2, <2>1, <2>2, <2>3, <3>1
  <2>4. ASSUME triggers' = 0 PROVE Paid(s)'
    <3>1. triggers = 0
      BY <2>4, TriggersStayZero
    <3>2. \A q \in Poller : s \notin job'[q].schedule
      BY <2>1, <3>1 DEF Inductive, OneExecution
    <3>3. retried[s] <= row[s].retries + Budget
      BY <1>2, <2>1, <2>4
    <3>4. row'[s].retries = row[s].retries + 1 => retried[s] + 1 <= row'[s].retries + Budget
      BY <1>0, <1>4, <3>3
    <3> QED BY <1>2, <2>1, <2>2, <2>4, <3>2, <3>4
  <2> QED BY <1>3, <2>3, <2>4
<1>8. ASSUME NEW p \in Poller, Crash(p) PROVE (RetriesPaid /\ RetriesBounded)'
  <2>1. /\ UNCHANGED <<row, retried, edits>> /\ job'[p].schedule = {}
        /\ \A q \in Poller : q # p => job'[q] = job[q]
    BY <1>0, <1>8 DEF TypeOK, Crash, Idle
  <2> QED BY <1>5, <2>1
<1>9. ASSUME NEW s \in Schedule,
             \/ \E e \in Expression, enabled \in BOOLEAN : Update(s, e, enabled)
             \/ \E enabled \in BOOLEAN : Toggle(s, enabled)
             \/ Delete(s)
      PROVE  (RetriesPaid /\ RetriesBounded)'
  <2>1. /\ edits' = edits + 1 /\ UNCHANGED <<job, retried>>
        /\ \A u \in Schedule \ {s} : row'[u] = row[u]
        /\ \/ row'[s].retry = NoSlot
           \/ row'[s].retry = row[s].retry /\ row'[s].retries = row[s].retries
    BY <1>0, <1>9, EditEffect
  <2>2. Budget' = Budget + MaxRetries
    BY <1>0, <2>1 DEF Budget
  <2>3. ASSUME triggers' = 0, NEW u \in Schedule PROVE Paid(u)'
    <3>1. Paid(u)
      BY <1>2, <2>3
    <3>2. retried[u] <= MaxRetries + Budget'
      BY <1>0, <1>4, <2>2, <3>1
    <3>3. retried[u] <= row'[u].retries + Budget'
      BY <1>0, <1>4, <2>2, <3>1
    <3>4. row'[u].retry # NoSlot => row'[u].retry = row[u].retry /\ row'[u].retries = row[u].retries
      BY <2>1
    <3>5. row'[u].retry # NoSlot => retried[u] + 1 <= row'[u].retries + Budget'
      BY <1>0, <1>4, <2>2, <3>1, <3>4
    <3> QED BY <2>1, <3>2, <3>3, <3>5
  <2> QED BY <1>3, <2>3
<1>10. CASE \/ UNCHANGED vars \/ Clock
            \/ \E s \in Schedule, h \in Person : Trigger(h, s)
            \/ \E h \in Person, raised \in BOOLEAN : TriggerDone(h, raised)
  <2>1. /\ UNCHANGED <<job, ran, retried, edits, crashes>>
        /\ \A s \in Schedule :
             row'[s].retry = row[s].retry /\ row'[s].retries = row[s].retries
    BY <1>0, <1>10, QuietEffect
  <2> QED BY <1>5, <2>1
<1> QED BY <1>6, <1>7, <1>8, <1>9, <1>10, FiveKinds

\* At first no slot has been executed and every row is at the first of its slots.
LEMMA OrderlyInit == ASSUME Init PROVE Orderly
<1>1. Inductive
  BY TypeCorrectAtInit DEF Init, Inductive, NobodyTriggers, LeaseHeld, OneExecution, Idle
<1>2. \A s \in Schedule : \A t \in Slot : ran[s][t] = 0
  BY DEF Init
<1>3. /\ triggers = 0 /\ edits = 0 /\ crashes = 0
      /\ \A p \in Poller : job[p].schedule = {} /\ job[p].slot = NoSlot
      /\ \A s \in Schedule : retried[s] = 0
  BY DEF Init, Idle
<1>4. ASSUME NEW s \in Schedule
      PROVE  /\ row[s].retry = NoSlot /\ row[s].expression \in Expression
             /\ row[s].next = SlotAfter(row[s].expression, 0)
  BY DEF Init
<1>5. WorkHasCome /\ Passed
  BY <1>2, <1>3 DEF WorkHasCome, Passed, Executed
<1>6. NoSlotSkipped
  <2>1. \A s \in Schedule : Slots(s) \subseteq Slot
    BY <1>4, CalendarAssumption DEF Slots, Slot, Beyond
  <2> QED BY <1>2, <2>1 DEF NoSlotSkipped, Slots
<1>7. NoneMissing
  <2>1. ASSUME NEW s \in Schedule
        PROVE  /\ row[s].next # NoSlot
               /\ \A t \in Slots(s) : t < row[s].next => Executed(s, t)
    <3>1. 0 \in 0 .. Horizon /\ NoSlot \notin Slot /\ SlotsOf[row[s].expression] \subseteq Nat
      BY <1>4, CalendarAssumption DEF Slot, Beyond
    <3>2. /\ row[s].next \in Slot
          /\ \A t \in SlotsOf[row[s].expression] : t < row[s].next => t <= 0
      BY <1>4, <3>1, SlotAfterFollows
    <3> QED BY <3>1, <3>2 DEF Slots
  <2> QED BY <1>3, <2>1 DEF NoneMissing
<1>8. RetriesPaid /\ RetriesBounded
  <2>1. MaxRetries * 0 = 0 /\ MaxRetries * (1 + 0) = MaxRetries /\ MaxRetries >= 0
    BY SchedulesAssumption
  <2>2. RetriesPaid
    BY <1>3, <1>4 DEF RetriesPaid
  <2>3. RetriesBounded
    BY <1>3, <2>1 DEF RetriesBounded
  <2> QED BY <2>2, <2>3
<1> QED BY <1>1, <1>5, <1>6, <1>7, <1>8 DEF Orderly

\* As long as executions end within their lease, a schedule goes through its slots in
\* order (_finalize_success, _finalize_failure): no slot is executed again but for a
\* poller that stopped with it, an unedited schedule leaves none out, and retries
\* stay within what the schedule and its edits grant.
THEOREM SlotsGoInOrder ==
    ASSUME Outlast = FALSE PROVE Spec => []SlotsInOrder
<1>1. Init => Orderly
  BY OrderlyInit
<1>2. Orderly /\ [Next]_vars => Orderly'
  <2> SUFFICES ASSUME Orderly, [Next]_vars PROVE Orderly'
    OBVIOUS
  <2>1. TypeOK'
    BY Typing DEF Orderly, Inductive
  <2>2. Inductive'
    BY <2>1, Holding DEF Orderly, Inductive
  <2>3. (WorkHasCome /\ Passed)'
    BY <2>1, PassedStep DEF Orderly
  <2>4. (NoneMissing /\ NoSlotSkipped)'
    BY <2>1, NoneMissingStep DEF Orderly, Inductive
  <2>5. (RetriesPaid /\ RetriesBounded)'
    BY <2>1, RetriesStep DEF Orderly
  <2> QED BY <2>2, <2>3, <2>4, <2>5 DEF Orderly
<1>3. Orderly => SlotsInOrder
  <2> SUFFICES ASSUME Orderly PROVE SlotExecutedOnce
    BY DEF Orderly, Inductive, SlotsInOrder
  <2>1. TypeOK
    BY DEF Orderly, Inductive
  <2>2. \A s \in Schedule : \A t \in Slot : ran[s][t] \in Nat /\ crashes \in Nat
    BY <2>1, Instants
  <2> QED BY <2>2 DEF Orderly, Passed, Executed, SlotExecutedOnce
<1> QED BY <1>1, <1>2, <1>3, PTL DEF Spec
=============================================================================
