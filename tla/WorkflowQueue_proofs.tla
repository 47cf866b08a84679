------------------------ MODULE WorkflowQueue_proofs ------------------------
(***************************************************************************)
(* Theorems about WorkflowQueue for any number of runs, workers, projects  *)
(* and deaths.  With or without renewals in time: its type invariant, that *)
(* no two workers ever hold one run, and that it implements RunLedger.     *)
(* With renewals in time: that a run is finished once, that a run picks up *)
(* one nobody works at any more, and, while nobody dies between the two    *)
(* commits of a release, that no run is left running without a lease.      *)
(***************************************************************************)
EXTENDS WorkflowQueue, TLAPS

(***************************************************************************)
(* The type invariant.                                                     *)
(***************************************************************************)

\* The submission time of a slot is a number: the slots of a backfill are
\* numbered from one.
LEMMA SlotTimes ==
    ASSUME NEW slots \in Backfills
    PROVE  /\ Len(slots) \in Nat
           /\ DOMAIN slots \subseteq Nat
           /\ \A i \in DOMAIN slots : slots[i] \in Run
BY QueueAssumption

\* Counting at any argument keeps a table of numbers one.
LEMMA Counting ==
    ASSUME NEW f \in [Run -> Nat], NEW x
    PROVE  [f EXCEPT ![x] = f[x] + 1] \in [Run -> Nat]
<1>1. CASE x \in Run
  <2>1. f[x] + 1 \in Nat
    BY <1>1
  <2> QED BY <1>1, <2>1
<1>2. CASE x \notin Run
  BY <1>2
<1> QED BY <1>1, <1>2

\* Every step of the queue keeps its rows and its workers well typed.
LEMMA Typing == ASSUME TypeOK, [Next]_vars PROVE TypeOK'
<1>1. CASE UNCHANGED vars
  BY <1>1 DEF TypeOK, vars
<1>2. ASSUME NEW r \in Run, Enqueue(r) PROVE TypeOK'
  BY <1>2 DEF TypeOK, Enqueue, Statuses
<1>3. ASSUME NEW r \in Run, CancelRead(r) PROVE TypeOK'
  BY <1>3 DEF TypeOK, CancelRead
<1>4. ASSUME NEW r \in Run, CancelWrite(r) PROVE TypeOK'
  BY <1>4 DEF TypeOK, CancelWrite, Statuses
<1>5. ASSUME NEW slots \in Backfills, QueueBackfill(slots) PROVE TypeOK'
  <2>1. \A r \in Run : (\E i \in DOMAIN slots : slots[i] = r) =>
          (CHOOSE i \in DOMAIN slots : slots[i] = r) \in Nat
    BY SlotTimes
  <2>2. queuedAt' \in [Run -> Nat] /\ arrivals' \in Nat
    <3>1. arrivals \in Nat /\ queuedAt \in [Run -> Nat]
      BY DEF TypeOK
    <3>2. \A r \in Run :
            (IF \E i \in DOMAIN slots : slots[i] = r
             THEN arrivals + (CHOOSE i \in DOMAIN slots : slots[i] = r)
             ELSE queuedAt[r]) \in Nat
      BY <2>1, <3>1
    <3>3. queuedAt' = [r \in Run |->
                         IF \E i \in DOMAIN slots : slots[i] = r
                         THEN arrivals + (CHOOSE i \in DOMAIN slots : slots[i] = r)
                         ELSE queuedAt[r]]
      BY <1>5 DEF QueueBackfill
    <3>4. arrivals' = arrivals + Len(slots)
      BY <1>5 DEF QueueBackfill
    <3>5. arrivals' \in Nat
      BY <3>1, <3>4, SlotTimes
    <3> QED BY ONLY <3>2, <3>3, <3>5
  <2>3. status' \in [Run -> Statuses]
    BY <1>5 DEF QueueBackfill, TypeOK, Statuses
  <2> QED BY <1>5, <2>2, <2>3 DEF QueueBackfill, TypeOK
<1>6. ASSUME NEW w \in Worker, ReleaseScan(w) PROVE TypeOK'
  BY <1>6 DEF TypeOK, ReleaseScan, Goto, Points, rows
<1>7. ASSUME NEW w \in Worker, NEW r \in Run, ReleaseRow(w, r) PROVE TypeOK'
  BY <1>7 DEF TypeOK, ReleaseRow, Goto, Points
<1>8. ASSUME NEW w \in Worker, CloseStalled(w) PROVE TypeOK'
  <2>1. pc' \in [Worker -> Points]
    BY <1>8 DEF TypeOK, CloseStalled, Goto, Points
  <2>2. finishes' \in [Run -> Nat]
    BY <1>8, Counting DEF TypeOK, CloseStalled, Finish
  <2>3. status' \in [Run -> Statuses]
    BY <1>8 DEF TypeOK, CloseStalled, Finish, Statuses
  <2> QED BY <1>8, <2>1, <2>2, <2>3 DEF TypeOK, CloseStalled, Finish
<1>9. ASSUME NEW w \in Worker, ReleaseDone(w) PROVE TypeOK'
  BY <1>9 DEF TypeOK, ReleaseDone, Goto, Points, rows
<1>10. ASSUME NEW w \in Worker, NEW r \in Run, ClaimSelect(w, r) PROVE TypeOK'
  BY <1>10 DEF TypeOK, ClaimSelect, Goto, Points, rows
<1>11. ASSUME NEW w \in Worker, ClaimCommit(w) PROVE TypeOK'
  BY <1>11, QueueAssumption DEF TypeOK, ClaimCommit, Goto, Points, Statuses
<1>12. ASSUME NEW w \in Worker, StartRun(w) PROVE TypeOK'
  BY <1>12 DEF TypeOK, StartRun, Goto, Points, Statuses
<1>13. ASSUME NEW w \in Worker, NothingToClaim(w) PROVE TypeOK'
  BY <1>13 DEF TypeOK, NothingToClaim, Goto, Points, rows
<1>14. ASSUME NEW w \in Worker, Renew(w) PROVE TypeOK'
  BY <1>14 DEF TypeOK, Renew
<1>15. ASSUME NEW w \in Worker, ExtendRead(w) PROVE TypeOK'
  BY <1>15 DEF TypeOK, ExtendRead, Goto, Points, rows
<1>16. ASSUME NEW w \in Worker, ExtendWrite(w) PROVE TypeOK'
  BY <1>16 DEF TypeOK, ExtendWrite, Goto, Points
<1>17. ASSUME NEW w \in Worker, NEW verdict \in Outcomes, FinishRun(w, verdict)
       PROVE TypeOK'
  <2>1. pc' \in [Worker -> Points]
    BY <1>17 DEF TypeOK, FinishRun, Goto, Points
  <2>2. finishes' \in [Run -> Nat]
    <3>1. finishes' = [finishes EXCEPT ![job[w]] = finishes[job[w]] + 1]
      BY <1>17 DEF FinishRun, Finish
    <3> QED BY <3>1, Counting DEF TypeOK
  <2>3. status' \in [Run -> Statuses]
    BY <1>17 DEF TypeOK, FinishRun, Finish, Statuses, Outcomes
  <2> QED BY <1>17, <2>1, <2>2, <2>3 DEF TypeOK, FinishRun, Finish
<1>18. ASSUME NEW w \in Worker, AbandonRun(w) PROVE TypeOK'
  BY <1>18 DEF TypeOK, AbandonRun, Goto, Points, rows
<1>19. ASSUME NEW w \in Worker, Crash(w) PROVE TypeOK'
  BY <1>19 DEF TypeOK, Crash, Goto, Points, rows
<1>20. ASSUME NEW w \in Worker, Restart(w) PROVE TypeOK'
  BY <1>20 DEF TypeOK, Restart, Goto, Points, rows
<1>21. ASSUME NEW r \in Run, LeaseRunsOut(r) PROVE TypeOK'
  BY <1>21 DEF TypeOK, LeaseRunsOut
<1> QED
  BY <1>1, <1>2, <1>3, <1>4, <1>5, <1>6, <1>7, <1>8, <1>9, <1>10, <1>11, <1>12,
     <1>13, <1>14, <1>15, <1>16, <1>17, <1>18, <1>19, <1>20, <1>21
  DEF Next, Request, WorkerStep, Proceed, End

\* The rows of workflow_runs and the workers' own state always have the values
\* the code gives them, with any number of runs and workers.
THEOREM TypeCorrect == Spec => []TypeOK
<1>1. Init => TypeOK
  BY QueueAssumption DEF Init, TypeOK, Statuses, Points
<1> QED BY <1>1, Typing, PTL DEF Spec

(***************************************************************************)
(* No two workers hold one run.                                            *)
(*                                                                         *)
(* OneWorkerPerRun alone is not inductive: a claim must know that the run  *)
(* it selects is in nobody's hands.  HeldRuns says why: the run is queued, *)
(* runs in work are not, and the rows claims have selected are locked.     *)
(***************************************************************************)

\* A queued row that no claim has selected is in nobody's hands.
LEMMA QueuedIsFree ==
    ASSUME SafeInv, NEW r \in Run, status[r] \in {"none", "queued"}, ~RowLocked(r),
           NEW w \in Worker, pc[w] \in InHand \cup {"closing"}
    PROVE  job[w] # r
BY DEF SafeInv, HeldRuns, RowLocked, InHand, Working

\* Every step keeps the runs in the workers' hands apart.
LEMMA SafeStep == ASSUME SafeInv, [Next]_vars PROVE SafeInv'
<1> USE DEF InHand, Working
<1>1. TypeOK'
  BY Typing DEF SafeInv
<1>2. SUFFICES HeldRuns' /\ OneWorkerPerRun'
  BY <1>1 DEF SafeInv
<1>3. TypeOK
  BY DEF SafeInv
<1>4. HeldRuns /\ OneWorkerPerRun
  BY DEF SafeInv
<1>5. ASSUME pc' = pc, job' = job, cancelling' \subseteq cancelling, status' = status
      PROVE  HeldRuns' /\ OneWorkerPerRun'
  BY <1>4, <1>5 DEF HeldRuns, OneWorkerPerRun
<1>6. CASE UNCHANGED vars
  BY <1>5, <1>6 DEF vars
<1>7. ASSUME NEW r \in Run, Enqueue(r) PROVE HeldRuns' /\ OneWorkerPerRun'
  <2>1. status[r] = "none" /\ status' = [status EXCEPT ![r] = "queued"]
    BY <1>7 DEF Enqueue, MayQueue
  <2>2. pc' = pc /\ job' = job /\ cancelling' = cancelling
    BY <1>7 DEF Enqueue
  <2> QED BY <2>1, <2>2, <1>3, <1>4 DEF HeldRuns, OneWorkerPerRun, TypeOK
<1>8. ASSUME NEW slots \in Backfills, QueueBackfill(slots)
      PROVE HeldRuns' /\ OneWorkerPerRun'
  <2>1. \A r \in Run : status'[r] = status[r] \/ (status[r] = "none" /\ status'[r] = "queued")
    BY <1>8 DEF QueueBackfill
  <2>2. pc' = pc /\ job' = job /\ cancelling' = cancelling
    BY <1>8 DEF QueueBackfill
  <2> QED BY <2>1, <2>2, <1>3, <1>4 DEF HeldRuns, OneWorkerPerRun, TypeOK
<1>9. ASSUME NEW r \in Run, CancelRead(r) PROVE HeldRuns' /\ OneWorkerPerRun'
  BY <1>9, <1>4 DEF CancelRead, HeldRuns, OneWorkerPerRun
<1>10. ASSUME NEW r \in Run, CancelWrite(r) PROVE HeldRuns' /\ OneWorkerPerRun'
  <2>1. pc' = pc /\ job' = job /\ cancelling' = cancelling \ {r}
    BY <1>10 DEF CancelWrite
  <2>2. status' = [status EXCEPT ![r] = "cancelled"]
    BY <1>10 DEF CancelWrite
  <2>3. \A w \in Worker : pc[w] = "claiming" => job[w] # r
    BY <1>10 DEF CancelWrite, RowLocked
  <2> QED BY <2>1, <2>2, <2>3, <1>3, <1>4 DEF HeldRuns, OneWorkerPerRun, TypeOK
<1>11. ASSUME NEW w \in Worker,
              ReleaseScan(w) \/ ReleaseDone(w) \/ NothingToClaim(w) \/ AbandonRun(w)
                \/ Crash(w) \/ Restart(w)
       PROVE HeldRuns' /\ OneWorkerPerRun'
  <2>1. status' = status /\ cancelling' = cancelling
    BY <1>11 DEF ReleaseScan, ReleaseDone, NothingToClaim, AbandonRun, Crash, Restart, rows
  <2>2. \A v \in Worker \ {w} : pc'[v] = pc[v] /\ job'[v] = job[v]
    BY <1>11, <1>3 DEF ReleaseScan, ReleaseDone, NothingToClaim, AbandonRun, Crash,
                       Restart, Goto, TypeOK
  <2>3. pc'[w] \in {"releasing", "draining", "tick", "down"}
    BY <1>11, <1>3 DEF ReleaseScan, ReleaseDone, NothingToClaim, AbandonRun, Crash,
                       Restart, Goto, TypeOK
  <2> QED BY <2>1, <2>2, <2>3, <1>4 DEF HeldRuns, OneWorkerPerRun
<1>12. ASSUME NEW w \in Worker, NEW r \in Run, ReleaseRow(w, r)
       PROVE HeldRuns' /\ OneWorkerPerRun'
  <2>1. status' = status /\ cancelling' = cancelling
    BY <1>12 DEF ReleaseRow
  <2>2. CASE LooksStalled(r)
    <3>1. pc' = [pc EXCEPT ![w] = "closing"] /\ job' = [job EXCEPT ![w] = r]
      BY <1>12, <2>2 DEF ReleaseRow, Goto
    <3>2. status[r] = "running"
      BY <2>2 DEF LooksStalled
    <3> QED BY <2>1, <3>1, <3>2, <1>3, <1>4 DEF HeldRuns, OneWorkerPerRun, TypeOK
  <2>3. CASE ~LooksStalled(r)
    BY <1>12, <2>1, <2>3, <1>5 DEF ReleaseRow
  <2> QED BY <2>2, <2>3
<1>13. ASSUME NEW w \in Worker, NEW verdict \in Outcomes, NEW point \in {"releasing", "draining", "tick"},
              pc[w] \in {"closing", "executing"},
              Finish(job[w], verdict), job' = [job EXCEPT ![w] = NoRun], Goto(w, point)
       PROVE HeldRuns' /\ OneWorkerPerRun'
  <2>1. job[w] \in Run /\ status[job[w]] \notin {"none", "queued"}
    BY <1>13, <1>4 DEF HeldRuns
  <2>2. status' = [status EXCEPT ![job[w]] = verdict] /\ cancelling' = cancelling
    BY <1>13 DEF Finish
  <2>3. \A r \in Run :
          /\ status[r] = "queued" => status'[r] = "queued"
          /\ status[r] \notin {"none", "queued"} => status'[r] \notin {"none", "queued"}
          /\ status[r] # "none" => status'[r] # "none"
    BY <2>1, <2>2, <1>3 DEF TypeOK, Outcomes
  <2>4. \A v \in Worker \ {w} : pc'[v] = pc[v] /\ job'[v] = job[v]
    BY <1>13, <1>3 DEF Goto, TypeOK
  <2>5. pc'[w] \in {"releasing", "draining", "tick"}
    BY <1>13, <1>3 DEF Goto, TypeOK
  <2> QED BY <2>2, <2>3, <2>4, <2>5, <1>3, <1>4 DEF HeldRuns, OneWorkerPerRun, TypeOK
<1>14. ASSUME NEW w \in Worker, CloseStalled(w) PROVE HeldRuns' /\ OneWorkerPerRun'
  BY <1>14, <1>13 DEF CloseStalled, Outcomes
<1>15. ASSUME NEW w \in Worker, NEW verdict \in Outcomes, FinishRun(w, verdict)
       PROVE HeldRuns' /\ OneWorkerPerRun'
  BY <1>15, <1>13 DEF FinishRun
<1>16. ASSUME NEW w \in Worker, NEW r \in Run, ClaimSelect(w, r)
       PROVE HeldRuns' /\ OneWorkerPerRun'
  <2>1. status' = status /\ cancelling' = cancelling
    BY <1>16 DEF ClaimSelect, rows
  <2>2. pc' = [pc EXCEPT ![w] = "claiming"] /\ job' = [job EXCEPT ![w] = r]
    BY <1>16 DEF ClaimSelect, Goto
  <2>3. status[r] = "queued" /\ ~RowLocked(r)
    BY <1>16 DEF ClaimSelect, Claimable
  <2>4. \A v \in Worker : pc[v] \in InHand \cup {"closing"} => job[v] # r
    BY <2>3, QueuedIsFree
  <2>5. HeldRuns'
    BY <2>1, <2>2, <2>3, <1>3, <1>4 DEF HeldRuns, TypeOK
  <2>6. OneWorkerPerRun'
    BY <2>2, <2>4, <1>3, <1>4 DEF OneWorkerPerRun, TypeOK
  <2> QED BY <2>5, <2>6
<1>17. ASSUME NEW w \in Worker,
              ClaimCommit(w) \/ StartRun(w)
       PROVE HeldRuns' /\ OneWorkerPerRun'
  <2>1. pc[w] \in {"claiming", "starting"} /\ job' = job /\ cancelling' = cancelling
    BY <1>17 DEF ClaimCommit, StartRun
  <2>2. status' = [status EXCEPT ![job[w]] = "running"] /\ job[w] \in Run
    BY <1>17, <2>1, <1>4 DEF ClaimCommit, StartRun, HeldRuns
  <2>3. \A v \in Worker \ {w} : pc'[v] = pc[v]
    BY <1>17, <1>3 DEF ClaimCommit, StartRun, Goto, TypeOK
  <2>4. pc'[w] \in {"starting", "executing"}
    BY <1>17, <1>3 DEF ClaimCommit, StartRun, Goto, TypeOK
  <2>5. \A v \in Worker : pc[v] \in InHand /\ v # w => job[v] # job[w]
    BY <2>1, <1>4 DEF OneWorkerPerRun
  <2>6. HeldRuns'
    BY <2>1, <2>2, <2>3, <2>4, <2>5, <1>3, <1>4 DEF HeldRuns, TypeOK
  <2>7. OneWorkerPerRun'
    BY <2>1, <2>3, <2>4, <2>5, <1>4 DEF OneWorkerPerRun
  <2> QED BY <2>6, <2>7
<1>18. ASSUME NEW w \in Worker, ExtendRead(w) \/ ExtendWrite(w) \/ Renew(w)
       PROVE HeldRuns' /\ OneWorkerPerRun'
  <2>1. job' = job /\ cancelling' = cancelling /\ status' = status
    BY <1>18 DEF ExtendRead, ExtendWrite, Renew, rows
  <2>2. \A v \in Worker \ {w} : pc'[v] = pc[v]
    BY <1>18, <1>3 DEF ExtendRead, ExtendWrite, Renew, Goto, TypeOK
  <2>3. pc[w] \in {"executing", "extending"} /\ pc'[w] \in {"executing", "extending"}
    BY <1>18, <1>3 DEF ExtendRead, ExtendWrite, Renew, Goto, TypeOK
  <2>4. HeldRuns'
    BY <2>1, <2>2, <2>3, <1>4 DEF HeldRuns
  <2>5. OneWorkerPerRun'
    BY <2>1, <2>2, <2>3, <1>4 DEF OneWorkerPerRun
  <2> QED BY <2>4, <2>5
<1>19. ASSUME NEW r \in Run, LeaseRunsOut(r) PROVE HeldRuns' /\ OneWorkerPerRun'
  BY <1>19, <1>5 DEF LeaseRunsOut
<1> QED
  BY <1>6, <1>7, <1>8, <1>9, <1>10, <1>11, <1>12, <1>14, <1>15, <1>16, <1>17, <1>18, <1>19
  DEF Next, Request, WorkerStep, Proceed, End

\* At the start nobody holds a run.
LEMMA SafeInit == Init => SafeInv
<1>1. Init => TypeOK
  BY QueueAssumption DEF Init, TypeOK, Statuses, Points
<1>2. Init => HeldRuns /\ OneWorkerPerRun
  BY DEF Init, HeldRuns, OneWorkerPerRun, InHand, Working
<1> QED BY <1>1, <1>2 DEF SafeInv

\* However many workers poll the queue, whatever leases they lose and wherever
\* they die, one run is never in two workers' hands.
THEOREM MutualExclusion == Spec => []OneWorkerPerRun
<1>1. Spec => []SafeInv
  BY SafeInit, SafeStep, PTL DEF Spec
<1>2. SafeInv => OneWorkerPerRun
  BY DEF SafeInv
<1> QED BY <1>1, <1>2, PTL

(***************************************************************************)
(* The queue implements the ledger.                                        *)
(***************************************************************************)

\* The phase of one run.
LEMMA PhaseOf ==
    ASSUME NEW r \in Run, TypeOK
    PROVE  /\ Starting(r) => ledgerState[r] = "taken"
           /\ ~Starting(r) =>
                /\ status[r] = "none" => ledgerState[r] = "absent"
                /\ status[r] = "queued" => ledgerState[r] = "waiting"
                /\ status[r] = "running" => ledgerState[r] = "taken"
                /\ status[r] \in Terminal => ledgerState[r] = "settled"
<1>1. CASE Starting(r)
  BY <1>1 DEF ledgerState, Starting
<1>2. CASE ~Starting(r)
  BY <1>2 DEF ledgerState, Starting, Terminal
<1> QED BY <1>1, <1>2

\* A run whose status and worker a step leaves alone stays in its phase.
LEMMA PhaseKept ==
    ASSUME NEW r \in Run, status'[r] = status[r], Starting(r)' = Starting(r)
    PROVE  ledgerState'[r] = ledgerState[r]
BY DEF ledgerState, Starting

\* A step that changes the phase of no run is a stutter of the ledger.
LEMMA Stutter ==
    ASSUME \A r \in Run : ledgerState'[r] = ledgerState[r]
    PROVE  UNCHANGED ledgerState
BY DEF ledgerState

\* A step that moves one run along is a step of the ledger.
LEMMA OneMove ==
    ASSUME NEW r \in Run,
           \/ ledgerState[r] = "absent" /\ ledgerState'[r] = "waiting"
           \/ ledgerState[r] = "waiting" /\ ledgerState'[r] = "taken"
           \/ ledgerState[r] \in {"waiting", "taken"} /\ ledgerState'[r] = "settled"
           \/ ledgerState'[r] = ledgerState[r],
           \A q \in Run \ {r} : ledgerState'[q] = ledgerState[q]
    PROVE  [Ledger!LedgerNext]_ledgerState
<1>0. /\ ledgerState = [q \in Run |-> ledgerState[q]]
      /\ ledgerState' = [q \in Run |-> ledgerState'[q]]
  BY DEF ledgerState
<1>1. /\ ledgerState' = [ledgerState EXCEPT ![r] = ledgerState'[r]]
      /\ ledgerState' = [q \in Run |-> IF q \in {r} THEN ledgerState'[r] ELSE ledgerState[q]]
  BY <1>0
<1>2. CASE ledgerState[r] = "absent" /\ ledgerState'[r] = "waiting"
  <2>1. Ledger!Submit({r})
    BY <1>1, <1>2 DEF Ledger!Submit
  <2> QED BY <2>1 DEF Ledger!LedgerNext
<1>3. CASE ledgerState[r] = "waiting" /\ ledgerState'[r] = "taken"
  BY <1>1, <1>3 DEF Ledger!LedgerNext, Ledger!Take, Ledger!Move
<1>4. CASE ledgerState[r] \in {"waiting", "taken"} /\ ledgerState'[r] = "settled"
  BY <1>1, <1>4 DEF Ledger!LedgerNext, Ledger!Settle, Ledger!Move
<1>5. CASE ledgerState'[r] = ledgerState[r]
  BY <1>5, Stutter
<1> QED BY <1>2, <1>3, <1>4, <1>5

\* Every step of the queue is a step of the ledger, or changes nothing there.
LEMMA LedgerStep ==
    ASSUME SafeInv, SafeInv', [Next]_vars
    PROVE  [Ledger!LedgerNext]_ledgerState
<1>1. TypeOK /\ TypeOK' /\ HeldRuns /\ OneWorkerPerRun
  BY DEF SafeInv
<1>2. ASSUME status' = status, \A r \in Run : Starting(r)' = Starting(r)
      PROVE  [Ledger!LedgerNext]_ledgerState
  BY <1>2, PhaseKept, Stutter
<1>3. ASSUME pc' = pc, job' = job PROVE \A r \in Run : Starting(r)' = Starting(r)
  BY <1>3 DEF Starting
<1>4. ASSUME NEW w \in Worker, pc[w] # "starting", pc'[w] # "starting",
             \A v \in Worker \ {w} : pc'[v] = pc[v] /\ job'[v] = job[v]
      PROVE  \A r \in Run : Starting(r)' = Starting(r)
  BY <1>4 DEF Starting
<1>5. CASE UNCHANGED vars
  BY <1>2, <1>3, <1>5 DEF vars
<1>6. ASSUME NEW r \in Run, Enqueue(r) PROVE [Ledger!LedgerNext]_ledgerState
  <2>1. status[r] = "none" /\ status' = [status EXCEPT ![r] = "queued"]
    BY <1>6 DEF Enqueue, MayQueue
  <2>2. pc' = pc /\ job' = job
    BY <1>6 DEF Enqueue
  <2>3. ~Starting(r)
    BY <2>1, <1>1 DEF Starting, HeldRuns, Working
  <2>4. ledgerState[r] = "absent"
    BY <2>1, <2>3, <1>1, PhaseOf
  <2>5. status'[r] = "queued" /\ ~Starting(r)'
    BY <2>1, <2>2, <2>3, <1>1, <1>3 DEF TypeOK
  <2>6. ledgerState'[r] = "waiting"
    BY <2>5 DEF ledgerState, Starting
  <2>7. \A q \in Run \ {r} : ledgerState'[q] = ledgerState[q]
    BY <2>1, <2>2, <1>1, <1>3, PhaseKept DEF TypeOK
  <2> QED BY <2>4, <2>6, <2>7, OneMove
<1>7. ASSUME NEW slots \in Backfills, QueueBackfill(slots)
      PROVE [Ledger!LedgerNext]_ledgerState
  <2> DEFINE rs == {r \in Run : \E i \in DOMAIN slots : slots[i] = r}
  <2>1. \A r \in rs : status[r] = "none" /\ status'[r] = "queued"
    BY <1>7 DEF QueueBackfill
  <2>2. \A r \in Run \ rs : status'[r] = status[r]
    BY <1>7 DEF QueueBackfill
  <2>3. pc' = pc /\ job' = job
    BY <1>7 DEF QueueBackfill
  <2>4. \A r \in rs : ~Starting(r) /\ ~Starting(r)'
    BY <2>1, <2>3, <1>1, <1>3 DEF Starting, HeldRuns, Working
  <2>5. \A r \in rs : ledgerState[r] = "absent"
    BY <2>1, <2>4, <1>1, PhaseOf
  <2>6. \A r \in rs : ledgerState'[r] = "waiting"
    BY <2>1, <2>4 DEF ledgerState, Starting
  <2>7. \A r \in Run \ rs : ledgerState'[r] = ledgerState[r]
    BY <2>2, <2>3, <1>3, PhaseKept
  <2>8. ledgerState' = [r \in Run |-> ledgerState'[r]]
    BY DEF ledgerState
  <2>9. Ledger!Submit(rs)
    BY <2>5, <2>6, <2>7, <2>8 DEF Ledger!Submit
  <2> QED BY <2>9 DEF Ledger!LedgerNext
<1>8. ASSUME NEW r \in Run, CancelRead(r) \/ LeaseRunsOut(r)
      PROVE [Ledger!LedgerNext]_ledgerState
  BY <1>8, <1>2, <1>3 DEF CancelRead, LeaseRunsOut
<1>9. ASSUME NEW r \in Run, CancelWrite(r) PROVE [Ledger!LedgerNext]_ledgerState
  <2>1. status[r] # "none" /\ status' = [status EXCEPT ![r] = "cancelled"]
    BY <1>9, <1>1 DEF CancelWrite, HeldRuns
  <2>2. pc' = pc /\ job' = job
    BY <1>9 DEF CancelWrite
  <2>3. \A q \in Run \ {r} : ledgerState'[q] = ledgerState[q]
    BY <2>1, <2>2, <1>1, <1>3, PhaseKept DEF TypeOK
  <2>4. CASE Starting(r)
    <3>1. ledgerState[r] = "taken" /\ ledgerState'[r] = "taken"
      BY <2>2, <2>4, <1>3 DEF ledgerState, Starting
    <3> QED BY <3>1, <2>3, OneMove
  <2>5. CASE ~Starting(r)
    <3>1. ledgerState[r] \in {"waiting", "taken", "settled"}
      BY <2>1, <2>5, <1>1, PhaseOf DEF TypeOK, Statuses, Terminal
    <3>2. status'[r] = "cancelled"
      BY <2>1, <1>1 DEF TypeOK
    <3>3. ledgerState'[r] = "settled"
      BY <2>2, <2>5, <3>2, <1>3 DEF ledgerState, Starting
    <3> QED BY <3>1, <3>3, <2>3, OneMove
  <2> QED BY <2>4, <2>5
<1>10. ASSUME NEW w \in Worker, NEW r \in Run,
              ReleaseRow(w, r) \/ ClaimSelect(w, r)
       PROVE [Ledger!LedgerNext]_ledgerState
  <2>1. status' = status
    BY <1>10 DEF ReleaseRow, ClaimSelect, rows
  <2>2. pc[w] # "starting" /\ pc'[w] # "starting"
    BY <1>10, <1>1 DEF ReleaseRow, ClaimSelect, Goto, TypeOK
  <2>3. \A v \in Worker \ {w} : pc'[v] = pc[v] /\ job'[v] = job[v]
    BY <1>10, <1>1 DEF ReleaseRow, ClaimSelect, Goto, TypeOK
  <2> QED BY <2>1, <2>2, <2>3, <1>2, <1>4
<1>11. ASSUME NEW w \in Worker,
              ReleaseScan(w) \/ ReleaseDone(w) \/ NothingToClaim(w) \/ AbandonRun(w) \/ Restart(w)
       PROVE [Ledger!LedgerNext]_ledgerState
  <2>1. status' = status
    BY <1>11 DEF ReleaseScan, ReleaseDone, NothingToClaim, AbandonRun, Restart, rows
  <2>2. pc[w] # "starting" /\ pc'[w] # "starting"
    BY <1>11, <1>1 DEF ReleaseScan, ReleaseDone, NothingToClaim, AbandonRun, Restart, Goto, TypeOK
  <2>3. \A v \in Worker \ {w} : pc'[v] = pc[v] /\ job'[v] = job[v]
    BY <1>11, <1>1 DEF ReleaseScan, ReleaseDone, NothingToClaim, AbandonRun, Restart, Goto, TypeOK
  <2> QED BY <2>1, <2>2, <2>3, <1>2, <1>4
<1>12. ASSUME NEW w \in Worker, ExtendRead(w) \/ ExtendWrite(w) \/ Renew(w)
       PROVE [Ledger!LedgerNext]_ledgerState
  <2>1. status' = status
    BY <1>12 DEF ExtendRead, ExtendWrite, Renew, rows
  <2>2. pc[w] # "starting" /\ pc'[w] # "starting"
    BY <1>12, <1>1 DEF ExtendRead, ExtendWrite, Renew, Goto, TypeOK
  <2>3. \A v \in Worker \ {w} : pc'[v] = pc[v] /\ job'[v] = job[v]
    BY <1>12, <1>1 DEF ExtendRead, ExtendWrite, Renew, Goto, rows, TypeOK
  <2> QED BY <2>1, <2>2, <2>3, <1>2, <1>4
<1>13. ASSUME NEW w \in Worker, Crash(w) PROVE [Ledger!LedgerNext]_ledgerState
  <2>1. status' = status /\ pc' = [pc EXCEPT ![w] = "down"] /\ job' = [job EXCEPT ![w] = NoRun]
    BY <1>13 DEF Crash, rows, Goto
  <2>2. \A v \in Worker \ {w} : pc'[v] = pc[v] /\ job'[v] = job[v]
    BY <2>1, <1>1 DEF TypeOK
  <2>3. CASE pc[w] # "starting"
    <3>1. pc'[w] # "starting"
      BY <2>1, <1>1 DEF TypeOK
    <3> QED BY <2>1, <2>2, <2>3, <3>1, <1>2, <1>4
  <2>4. CASE pc[w] = "starting"
    <3>1. PICK r \in Run : r = job[w]
      BY <2>4, <1>1 DEF HeldRuns, InHand, Working
    <3>2. status[r] \notin {"none", "queued"} /\ Starting(r)
      BY <2>4, <3>1, <1>1 DEF HeldRuns, InHand, Working, Starting
    <3>3. pc'[w] = "down"
      BY <2>1, <1>1 DEF TypeOK
    <3>4. \A q \in Run \ {r} : Starting(q)' = Starting(q)
      BY <2>2, <2>4, <3>1, <3>3 DEF Starting
    <3>5. \A q \in Run \ {r} : ledgerState'[q] = ledgerState[q]
      BY <2>1, <3>4, PhaseKept
    <3>6. ledgerState[r] = "taken"
      BY <3>2, <1>1, PhaseOf
    <3>7. ~Starting(r)'
      BY <2>2, <2>4, <3>1, <3>3, <1>1 DEF Starting, OneWorkerPerRun, InHand
    <3>8. ledgerState'[r] \in {"taken", "settled"}
      BY <2>1, <3>2, <3>7, <1>1 DEF ledgerState, TypeOK, Statuses
    <3> QED BY <3>5, <3>6, <3>8, OneMove
  <2> QED BY <2>3, <2>4
<1>14. ASSUME NEW w \in Worker, ClaimCommit(w) PROVE [Ledger!LedgerNext]_ledgerState
  <2>1. pc[w] = "claiming" /\ job' = job /\ pc' = [pc EXCEPT ![w] = "starting"]
    BY <1>14 DEF ClaimCommit, Goto
  <2>2. job[w] \in Run /\ status[job[w]] = "queued"
    BY <2>1, <1>1 DEF HeldRuns, InHand
  <2>3. status' = [status EXCEPT ![job[w]] = "running"]
    BY <1>14 DEF ClaimCommit
  <2>4. ~Starting(job[w])
    BY <2>2, <1>1 DEF Starting, HeldRuns, Working
  <2>5. ledgerState[job[w]] = "waiting"
    BY <2>2, <2>4, <1>1, PhaseOf
  <2>6. Starting(job[w])'
    BY <2>1, <1>1 DEF Starting, TypeOK
  <2>7. ledgerState'[job[w]] = "taken"
    BY <2>1, <2>2, <2>6 DEF ledgerState, Starting
  <2>8. \A q \in Run \ {job[w]} : Starting(q)' = Starting(q)
    BY <2>1, <1>1 DEF Starting, TypeOK
  <2>9. \A q \in Run \ {job[w]} : ledgerState'[q] = ledgerState[q]
    BY <2>3, <2>8, <1>1, PhaseKept DEF TypeOK
  <2> QED BY <2>2, <2>5, <2>7, <2>9, OneMove
<1>15. ASSUME NEW w \in Worker, StartRun(w) PROVE [Ledger!LedgerNext]_ledgerState
  <2>1. pc[w] = "starting" /\ job' = job /\ pc' = [pc EXCEPT ![w] = "executing"]
    BY <1>15 DEF StartRun, Goto
  <2>2. job[w] \in Run
    BY <2>1, <1>1 DEF HeldRuns, InHand
  <2>3. status' = [status EXCEPT ![job[w]] = "running"]
    BY <1>15 DEF StartRun
  <2>4. ledgerState[job[w]] = "taken"
    BY <2>1, <2>2, <1>1, PhaseOf DEF Starting
  <2>5. ledgerState'[job[w]] = "taken"
    BY <2>2, <2>3, <1>1 DEF ledgerState, TypeOK
  <2>6. \A q \in Run \ {job[w]} : Starting(q)' = Starting(q)
    BY <2>1, <1>1 DEF Starting, TypeOK
  <2>7. \A q \in Run \ {job[w]} : ledgerState'[q] = ledgerState[q]
    BY <2>3, <2>6, <1>1, PhaseKept DEF TypeOK
  <2> QED BY <2>2, <2>4, <2>5, <2>7, OneMove
<1>16. ASSUME NEW w \in Worker, NEW verdict \in Outcomes, Finish(job[w], verdict),
              pc[w] \in {"closing", "executing"}, pc'[w] # "starting",
              \A v \in Worker \ {w} : pc'[v] = pc[v] /\ job'[v] = job[v]
       PROVE [Ledger!LedgerNext]_ledgerState
  <2>1. job[w] \in Run /\ status[job[w]] \notin {"none", "queued"}
    BY <1>16, <1>1 DEF HeldRuns, InHand, Working
  <2>2. status' = [status EXCEPT ![job[w]] = verdict]
    BY <1>16 DEF Finish
  <2>3. \A q \in Run : Starting(q)' = Starting(q)
    BY <1>16, <1>4
  <2>4. \A q \in Run \ {job[w]} : ledgerState'[q] = ledgerState[q]
    BY <2>2, <2>3, <1>1, PhaseKept DEF TypeOK
  <2>5. CASE Starting(job[w])
    <3>1. ledgerState[job[w]] = "taken" /\ ledgerState'[job[w]] = "taken"
      BY <2>1, <2>3, <2>5 DEF ledgerState, Starting
    <3> QED BY <2>1, <2>4, <3>1, OneMove
  <2>6. CASE ~Starting(job[w])
    <3>1. ledgerState[job[w]] \in {"taken", "settled"}
      BY <2>1, <2>6, <1>1, PhaseOf DEF TypeOK, Statuses, Terminal
    <3>2. status'[job[w]] \in Outcomes
      BY <2>1, <2>2, <1>1 DEF TypeOK
    <3>3. ledgerState'[job[w]] = "settled"
      BY <2>1, <2>3, <2>6, <3>2 DEF ledgerState, Starting, Outcomes
    <3> QED BY <2>1, <2>4, <3>1, <3>3, OneMove
  <2> QED BY <2>5, <2>6
<1>17. ASSUME NEW w \in Worker, CloseStalled(w) PROVE [Ledger!LedgerNext]_ledgerState
  <2>1. pc[w] = "closing" /\ Finish(job[w], "failed")
    BY <1>17 DEF CloseStalled
  <2>2. pc'[w] # "starting" /\ \A v \in Worker \ {w} : pc'[v] = pc[v] /\ job'[v] = job[v]
    BY <1>17, <1>1 DEF CloseStalled, Goto, TypeOK
  <2> QED BY <2>1, <2>2, <1>16 DEF Outcomes
<1>18. ASSUME NEW w \in Worker, NEW verdict \in Outcomes, FinishRun(w, verdict)
       PROVE [Ledger!LedgerNext]_ledgerState
  <2>1. pc[w] = "executing" /\ Finish(job[w], verdict)
    BY <1>18 DEF FinishRun
  <2>2. pc'[w] # "starting" /\ \A v \in Worker \ {w} : pc'[v] = pc[v] /\ job'[v] = job[v]
    BY <1>18, <1>1 DEF FinishRun, Goto, TypeOK
  <2> QED BY <2>1, <2>2, <1>16
<1> QED
  BY <1>5, <1>6, <1>7, <1>8, <1>9, <1>10, <1>11, <1>12, <1>13, <1>14, <1>15, <1>17, <1>18
  DEF Next, Request, WorkerStep, Proceed, End

\* Whatever workers, cancels and sweeps do, a run of workflow_runs is submitted
\* once, is taken at most once, and once settled never goes back to work.
THEOREM ImplementsTheLedger == Spec => KeepsTheLedger
<1>1. Init => Ledger!LedgerInit
  BY DEF Init, Ledger!LedgerInit, ledgerState, Starting
<1>2. Spec => []SafeInv
  BY SafeInit, SafeStep, PTL DEF Spec
<1>3. SafeInv /\ SafeInv' /\ [Next]_vars => [Ledger!LedgerNext]_ledgerState
  BY LedgerStep
<1> QED BY <1>1, <1>2, <1>3, PTL DEF Spec, KeepsTheLedger, Ledger!LedgerSpec

(***************************************************************************)
(* While renewals arrive in time: one verdict per run, no overlap with the *)
(* run that resumes it, no orphan.                                         *)
(*                                                                         *)
(* None of the three is inductive.  That a second verdict never lands      *)
(* needs to know that a run in work keeps a live lease of its own          *)
(* (LeaseKept), which the sweep passes over; that two sweeps never close   *)
(* one run (ClosedByOne); and that a counted run stands at a terminal      *)
(* status, which the claim passes over, and is in nobody's hands           *)
(* (CountedOnce).  A resume then starts after the verdict of the run it    *)
(* picks up (VerdictsCounted, ResumesAfter).                               *)
(***************************************************************************)

LeaseKept ==
    \A w \in Worker :
        pc[w] \in Working => owner[job[w]] = Identity[w] /\ lease[job[w]] = "live"

ClosedByOne ==
    /\ \A w \in Worker : pc[w] = "closing" => lease[job[w]] = "none"
    /\ \A v, w \in Worker :
         pc[v] = "closing" /\ pc[w] = "closing" /\ job[v] = job[w] => v = w

CountedOnce ==
    \A r \in Run :
        finishes[r] # 0 =>
          /\ finishes[r] = 1
          /\ status[r] \in Terminal
          /\ \A w \in Worker : pc[w] \in InHand \cup {"closing"} => job[w] # r

VerdictsCounted == \A r \in Run : status[r] \in Outcomes => finishes[r] # 0

ResumesAfter ==
    \A r \in Run :
        ResumeOf[r] # NoRun /\ status[r] # "none" => finishes[ResumeOf[r]] # 0

PromptInv ==
    /\ SafeInv
    /\ LeaseKept
    /\ ClosedByOne
    /\ CountedOnce
    /\ VerdictsCounted
    /\ ResumesAfter

\* Every step keeps the verdicts single while no renewal is missed.
LEMMA PromptStep ==
    ASSUME RenewalsFail = FALSE, PromptInv, [Next]_vars
    PROVE  PromptInv'
<1> DEFINE P == LeaseKept /\ ClosedByOne /\ CountedOnce /\ VerdictsCounted /\ ResumesAfter
<1> USE DEF InHand, Working
<1>1. TypeOK /\ HeldRuns /\ OneWorkerPerRun /\ P
  BY DEF PromptInv, SafeInv
<1>2. SafeInv' /\ TypeOK' /\ HeldRuns'
  <2>1. SafeInv'
    BY SafeStep DEF PromptInv
  <2> QED BY <2>1 DEF SafeInv
<1>3. SUFFICES P'
  BY <1>2 DEF PromptInv
<1>4. \A r \in Run : ResumeOf[r] = NoRun \/ ResumeOf[r] \in Run
  BY QueueAssumption
\* A step that only lets workers go, or keeps them at their runs.
<1>5. ASSUME status' = status, lease' = lease, owner' = owner, finishes' = finishes,
             \A w \in Worker :
               pc'[w] \in InHand \cup {"closing"} =>
                 /\ job'[w] = job[w]
                 /\ pc[w] \in InHand \cup {"closing"}
                 /\ pc'[w] \in Working => pc[w] \in Working
                 /\ pc'[w] = "closing" => pc[w] = "closing"
      PROVE  P'
  BY <1>1, <1>5 DEF LeaseKept, ClosedByOne, CountedOnce, VerdictsCounted, ResumesAfter
<1>6. CASE UNCHANGED vars
  BY <1>5, <1>6 DEF vars
<1>7. ASSUME NEW r \in Run, CancelRead(r) PROVE P'
  BY <1>5, <1>7 DEF CancelRead
<1>8. ASSUME NEW w \in Worker,
             ReleaseScan(w) \/ ReleaseDone(w) \/ NothingToClaim(w) \/ AbandonRun(w)
               \/ Crash(w) \/ Restart(w) \/ ExtendRead(w)
      PROVE P'
  <2>1. UNCHANGED rows
    BY <1>8 DEF ReleaseScan, ReleaseDone, NothingToClaim, AbandonRun, Crash, Restart,
                ExtendRead
  <2>2. \A v \in Worker \ {w} : pc'[v] = pc[v] /\ job'[v] = job[v]
    BY <1>8, <1>1 DEF ReleaseScan, ReleaseDone, NothingToClaim, AbandonRun, Crash,
                      Restart, ExtendRead, Goto, TypeOK
  <2>3. \/ pc'[w] \in {"releasing", "draining", "tick", "down"}
        \/ pc[w] = "executing" /\ pc'[w] = "extending" /\ job'[w] = job[w]
    BY <1>8, <1>1 DEF ReleaseScan, ReleaseDone, NothingToClaim, AbandonRun, Crash,
                      Restart, ExtendRead, Goto, TypeOK
  <2> QED BY <2>1, <2>2, <2>3, <1>5 DEF rows
\* Requests: the rows they queue were absent, so uncounted and in nobody's hands.
<1>9. ASSUME NEW rs \in SUBSET Run, pc' = pc, job' = job,
             UNCHANGED <<lease, owner, finishes>>,
             \A r \in rs : /\ status[r] = "none" /\ status'[r] = "queued"
                           /\ ResumeOf[r] # NoRun =>
                                status[ResumeOf[r]] \in {"failed", "partial"},
             \A r \in Run \ rs : status'[r] = status[r]
      PROVE P'
  <2>1. LeaseKept' /\ ClosedByOne'
    BY <1>1, <1>9 DEF LeaseKept, ClosedByOne
  <2>2. CountedOnce' /\ VerdictsCounted'
    BY <1>1, <1>9 DEF CountedOnce, VerdictsCounted, Terminal, Outcomes
  <2>3. ResumesAfter'
    BY <1>1, <1>4, <1>9 DEF ResumesAfter, VerdictsCounted, Outcomes
  <2> QED BY <2>1, <2>2, <2>3
<1>10. ASSUME NEW r \in Run, Enqueue(r) PROVE P'
  <2>1. status[r] = "none" /\ status' = [status EXCEPT ![r] = "queued"]
    BY <1>10 DEF Enqueue, MayQueue
  <2>2. ResumeOf[r] # NoRun => status[ResumeOf[r]] \in {"failed", "partial"}
    BY <1>10 DEF Enqueue, MayQueue
  <2>3. pc' = pc /\ job' = job /\ UNCHANGED <<lease, owner, finishes>>
    BY <1>10 DEF Enqueue
  <2>4. status'[r] = "queued" /\ \A q \in Run \ {r} : status'[q] = status[q]
    BY <2>1, <1>1 DEF TypeOK
  <2>5. PICK rs \in SUBSET Run : rs = {r}
    OBVIOUS
  <2> QED BY <2>1, <2>2, <2>3, <2>4, <2>5, <1>9
<1>11. ASSUME NEW slots \in Backfills, QueueBackfill(slots) PROVE P'
  <2> DEFINE rs == {r \in Run : \E i \in DOMAIN slots : slots[i] = r}
  <2>1. \A r \in rs : status[r] = "none" /\ status'[r] = "queued"
    BY <1>11 DEF QueueBackfill
  <2>2. \A r \in rs : ResumeOf[r] = NoRun
    BY <1>11, QueueAssumption DEF QueueBackfill
  <2>3. \A r \in Run \ rs : status'[r] = status[r]
    BY <1>11 DEF QueueBackfill
  <2>4. pc' = pc /\ job' = job /\ UNCHANGED <<lease, owner, finishes>>
    BY <1>11 DEF QueueBackfill
  <2> HIDE DEF rs
  <2>5. rs \in SUBSET Run
    BY DEF rs
  <2> QED BY <2>1, <2>2, <2>3, <2>4, <2>5, <1>9
<1>12. ASSUME NEW r \in Run, CancelWrite(r) PROVE P'
  <2>1. status' = [status EXCEPT ![r] = "cancelled"] /\ status[r] # "none"
    BY <1>12, <1>1 DEF CancelWrite, HeldRuns
  <2>2. pc' = pc /\ job' = job /\ UNCHANGED <<lease, owner, finishes>>
    BY <1>12 DEF CancelWrite
  <2>3. status'[r] = "cancelled" /\ \A q \in Run \ {r} : status'[q] = status[q]
    BY <2>1, <1>1 DEF TypeOK
  <2>4. LeaseKept' /\ ClosedByOne'
    BY <1>1, <2>2 DEF LeaseKept, ClosedByOne
  <2>5. CountedOnce' /\ VerdictsCounted' /\ ResumesAfter'
    BY <1>1, <2>1, <2>2, <2>3
    DEF CountedOnce, VerdictsCounted, ResumesAfter, Terminal, Outcomes
  <2> QED BY <2>4, <2>5
<1>13. ASSUME NEW w \in Worker, NEW r \in Run, ReleaseRow(w, r) PROVE P'
  <2>1. CASE ~LooksStalled(r)
    BY <1>5, <1>13, <2>1 DEF ReleaseRow
  <2>2. CASE LooksStalled(r)
    <3>1. status[r] = "running" /\ lease[r] = "past"
      BY <2>2 DEF LooksStalled
    <3>2. pc' = [pc EXCEPT ![w] = "closing"] /\ job' = [job EXCEPT ![w] = r]
      BY <1>13, <2>2 DEF ReleaseRow, Goto
    <3>3. /\ lease' = [lease EXCEPT ![r] = "none"]
          /\ owner' = [owner EXCEPT ![r] = NoOwner]
          /\ status' = status /\ finishes' = finishes
      BY <1>13, <2>2 DEF ReleaseRow
    <3>4. pc'[w] = "closing" /\ job'[w] = r
      BY <3>2, <1>1 DEF TypeOK
    <3>5. \A v \in Worker \ {w} : pc'[v] = pc[v] /\ job'[v] = job[v]
      BY <3>2, <1>1 DEF TypeOK
    <3>6. \A v \in Worker : pc[v] \in Working \cup {"closing"} => job[v] # r
      BY <3>1, <1>1 DEF LeaseKept, ClosedByOne
    <3>7. \A q \in Run \ {r} : lease'[q] = lease[q] /\ owner'[q] = owner[q]
      BY <3>3, <1>1 DEF TypeOK
    <3>8. lease'[r] = "none"
      BY <3>3, <1>1 DEF TypeOK
    <3>9. LeaseKept'
      BY <3>4, <3>5, <3>6, <3>7, <1>1 DEF LeaseKept, HeldRuns
    <3>10. ClosedByOne'
      BY <3>4, <3>5, <3>6, <3>7, <3>8, <1>1 DEF ClosedByOne, HeldRuns
    <3>11. CountedOnce'
      BY <3>1, <3>3, <3>4, <3>5, <1>1 DEF CountedOnce, Terminal
    <3> QED BY <3>3, <3>9, <3>10, <3>11, <1>1 DEF VerdictsCounted, ResumesAfter
  <2> QED BY <2>1, <2>2
\* The verdict: its run was uncounted, and nobody else is at it.
<1>14. ASSUME NEW w \in Worker, NEW verdict \in Outcomes,
              pc[w] \in {"closing", "executing"}, Finish(job[w], verdict),
              pc'[w] \in {"releasing", "draining", "tick"},
              \A v \in Worker \ {w} : pc'[v] = pc[v] /\ job'[v] = job[v]
       PROVE P'
  <2> DEFINE r == job[w]
  <2>1. r \in Run /\ status[r] # "none"
    BY <1>14, <1>1 DEF HeldRuns
  <2>2. \A v \in Worker \ {w} : pc[v] \in InHand \cup {"closing"} => job[v] # r
    BY <1>14, <1>1 DEF OneWorkerPerRun, LeaseKept, ClosedByOne, HeldRuns
  <2>3. finishes[r] = 0
    BY <1>14, <2>1, <1>1 DEF CountedOnce
  <2>4. /\ status'[r] = verdict /\ lease'[r] = "none" /\ finishes'[r] = 1
        /\ \A q \in Run \ {r} : /\ status'[q] = status[q] /\ lease'[q] = lease[q]
                                /\ owner'[q] = owner[q] /\ finishes'[q] = finishes[q]
    BY <1>14, <2>1, <2>3, <1>1 DEF Finish, TypeOK
  <2> HIDE DEF r
  <2>5. LeaseKept' /\ ClosedByOne'
    BY <1>14, <2>2, <2>4, <1>1 DEF LeaseKept, ClosedByOne, HeldRuns
  <2>6. CountedOnce'
    BY <1>14, <2>2, <2>4, <1>1 DEF CountedOnce, Outcomes, Terminal
  <2>7. VerdictsCounted' /\ ResumesAfter'
    BY <2>1, <2>4, <1>1, <1>4 DEF VerdictsCounted, ResumesAfter
  <2> QED BY <2>5, <2>6, <2>7
<1>15. ASSUME NEW w \in Worker, CloseStalled(w) PROVE P'
  <2>1. pc[w] = "closing" /\ Finish(job[w], "failed")
    BY <1>15 DEF CloseStalled
  <2>2. pc'[w] = "releasing" /\ \A v \in Worker \ {w} : pc'[v] = pc[v] /\ job'[v] = job[v]
    BY <1>15, <1>1 DEF CloseStalled, Goto, TypeOK
  <2> QED BY <2>1, <2>2, <1>14 DEF Outcomes
<1>16. ASSUME NEW w \in Worker, NEW verdict \in Outcomes, FinishRun(w, verdict) PROVE P'
  <2>1. pc[w] = "executing" /\ Finish(job[w], verdict)
    BY <1>16 DEF FinishRun
  <2>2. /\ pc'[w] \in {"draining", "tick"}
        /\ \A v \in Worker \ {w} : pc'[v] = pc[v] /\ job'[v] = job[v]
    BY <1>16, <1>1 DEF FinishRun, Goto, TypeOK
  <2> QED BY <2>1, <2>2, <1>14
<1>17. ASSUME NEW w \in Worker, NEW r \in Run, ClaimSelect(w, r) PROVE P'
  <2>1. UNCHANGED rows
    BY <1>17 DEF ClaimSelect
  <2>2. pc' = [pc EXCEPT ![w] = "claiming"] /\ job' = [job EXCEPT ![w] = r]
    BY <1>17 DEF ClaimSelect, Goto
  <2>3. pc'[w] = "claiming" /\ job'[w] = r
    BY <2>2, <1>1 DEF TypeOK
  <2>4. \A v \in Worker \ {w} : pc'[v] = pc[v] /\ job'[v] = job[v]
    BY <2>2, <1>1 DEF TypeOK
  <2>5. finishes[r] = 0
    BY <1>17, <1>1 DEF ClaimSelect, Claimable, CountedOnce, Terminal
  <2>6. LeaseKept' /\ ClosedByOne'
    BY <2>1, <2>3, <2>4, <1>1 DEF LeaseKept, ClosedByOne, rows
  <2>7. CountedOnce' /\ VerdictsCounted' /\ ResumesAfter'
    BY <2>1, <2>3, <2>4, <2>5, <1>1 DEF CountedOnce, VerdictsCounted, ResumesAfter, rows
  <2> QED BY <2>6, <2>7
<1>18. ASSUME NEW w \in Worker, ClaimCommit(w) \/ StartRun(w) PROVE P'
  <2> DEFINE r == job[w]
  <2>1. pc[w] \in {"claiming", "starting"} /\ job' = job /\ finishes' = finishes
    BY <1>18 DEF ClaimCommit, StartRun
  <2>2. r \in Run /\ finishes[r] = 0
    BY <2>1, <1>1 DEF HeldRuns, CountedOnce
  <2>3. pc'[w] \in Working /\ \A v \in Worker \ {w} : pc'[v] = pc[v]
    BY <1>18, <1>1 DEF ClaimCommit, StartRun, Goto, TypeOK
  <2>4. status'[r] = "running" /\ \A q \in Run \ {r} : status'[q] = status[q]
    BY <1>18, <2>2, <1>1 DEF ClaimCommit, StartRun, TypeOK
  <2>5. owner'[r] = Identity[w] /\ lease'[r] = "live"
    BY <1>18, <2>2, <1>1 DEF ClaimCommit, StartRun, TypeOK, LeaseKept
  <2>6. \A q \in Run \ {r} : owner'[q] = owner[q] /\ lease'[q] = lease[q]
    BY <1>18, <2>2, <1>1 DEF ClaimCommit, StartRun, TypeOK
  <2>7. status[r] # "none"
    BY <2>1, <1>1 DEF HeldRuns
  <2>8. \A v \in Worker \ {w} : pc[v] \in InHand \cup {"closing"} => job[v] # r
    <3>1. CASE pc[w] = "claiming"
      BY <3>1, <1>1 DEF HeldRuns, OneWorkerPerRun
    <3>2. CASE pc[w] = "starting"
      BY <3>2, <1>1 DEF LeaseKept, ClosedByOne, OneWorkerPerRun
    <3> QED BY <2>1, <3>1, <3>2
  <2> HIDE DEF r
  <2>9. r = job[w]
    BY DEF r
  <2>10. LeaseKept'
    BY <2>1, <2>3, <2>5, <2>6, <2>8, <2>9, <1>1 DEF LeaseKept, HeldRuns
  <2>11. ClosedByOne'
    BY <2>1, <2>3, <2>6, <2>8, <1>1 DEF ClosedByOne, HeldRuns
  <2>12. CountedOnce'
    BY <2>1, <2>2, <2>3, <2>4, <2>9, <1>1 DEF CountedOnce
  <2>13. VerdictsCounted' /\ ResumesAfter'
    BY <2>1, <2>4, <2>7, <1>1 DEF VerdictsCounted, ResumesAfter, Outcomes
  <2> QED BY <2>10, <2>11, <2>12, <2>13
<1>19. ASSUME NEW w \in Worker, ExtendWrite(w) \/ Renew(w) PROVE P'
  <2> DEFINE r == job[w]
  <2>1. pc[w] \in Working /\ r \in Run
    BY <1>19, <1>1 DEF ExtendWrite, Renew, HeldRuns
  <2>2. lease[r] = "live" /\ lease' = [lease EXCEPT ![r] = "live"]
    BY <1>19, <2>1, <1>1 DEF ExtendWrite, Renew, LeaseKept
  <2>3. lease' = lease
    BY <2>1, <2>2, <1>1 DEF TypeOK
  <2>4. status' = status /\ owner' = owner /\ finishes' = finishes /\ job' = job
    BY <1>19 DEF ExtendWrite, Renew
  <2>5. /\ \A v \in Worker \ {w} : pc'[v] = pc[v]
        /\ pc'[w] \in {"executing", "extending"}
    BY <1>19, <1>1 DEF ExtendWrite, Renew, Goto, TypeOK
  <2> QED BY <2>1, <2>3, <2>4, <2>5, <1>5
\* A kept lease does not pass.
<1>20. ASSUME NEW r \in Run, LeaseRunsOut(r) PROVE P'
  <2>1. lease[r] = "live" /\ lease' = [lease EXCEPT ![r] = "past"]
    BY <1>20 DEF LeaseRunsOut
  <2>2. pc' = pc /\ job' = job /\ UNCHANGED <<status, owner, finishes>>
    BY <1>20 DEF LeaseRunsOut
  <2>3. \A w \in Worker : pc[w] \in Working \cup {"closing"} => job[w] # r
    BY <1>20, <2>1, <1>1 DEF LeaseRunsOut, KeptBy, Holds, LeaseKept, ClosedByOne
  <2>4. \A q \in Run \ {r} : lease'[q] = lease[q]
    BY <2>1, <1>1 DEF TypeOK
  <2>5. LeaseKept' /\ ClosedByOne'
    BY <2>2, <2>3, <2>4, <1>1 DEF LeaseKept, ClosedByOne, HeldRuns
  <2>6. CountedOnce' /\ VerdictsCounted' /\ ResumesAfter'
    BY <2>2, <1>1 DEF CountedOnce, VerdictsCounted, ResumesAfter
  <2> QED BY <2>5, <2>6
<1> QED
  BY <1>6, <1>7, <1>8, <1>10, <1>11, <1>12, <1>13, <1>15, <1>16, <1>17, <1>18, <1>19, <1>20
  DEF Next, Request, WorkerStep, Proceed, End

\* Nothing is claimed, counted or queued at the start.
LEMMA PromptInit == Init => PromptInv
<1>1. Init => SafeInv
  BY SafeInit
<1>2. Init => LeaseKept /\ ClosedByOne
  BY DEF Init, LeaseKept, ClosedByOne, Working
<1>3. Init => CountedOnce /\ VerdictsCounted /\ ResumesAfter
  BY QueueAssumption DEF Init, CountedOnce, VerdictsCounted, ResumesAfter, Outcomes
<1> QED BY <1>1, <1>2, <1>3 DEF PromptInv

\* While renewals arrive in time, the queue is always in a prompt state.
LEMMA Prompt == ASSUME RenewalsFail = FALSE PROVE Spec => []PromptInv
BY PromptInit, PromptStep, PTL DEF Spec

\* While renewals arrive in time, the worker's verdict and that of the sweep
\* (release_stalled_runs) never both land: a run is counted and announced once.
THEOREM VerdictCountedOnce == ASSUME RenewalsFail = FALSE PROVE Spec => []FinishedOnce
<1>1. PromptInv => FinishedOnce
  BY DEF PromptInv, SafeInv, TypeOK, CountedOnce, FinishedOnce
<1> QED BY <1>1, Prompt, PTL

\* While renewals arrive in time, a run that resumes another is worked at only
\* when no worker is at the other any more.
THEOREM ResumedRunIsOver == ASSUME RenewalsFail = FALSE PROVE Spec => []ResumeWaits
<1>1. PromptInv => ResumeWaits
  BY QueueAssumption
  DEF PromptInv, SafeInv, HeldRuns, CountedOnce, ResumesAfter, ResumeWaits, InHand, Working
<1> QED BY <1>1, Prompt, PTL

\* While renewals arrive in time and no worker dies between the two commits of a
\* release, every step leaves each running row a lease or a worker closing it.
LEMMA OrphanStep ==
    ASSUME RenewalsFail = FALSE, DiesClosing = FALSE, PromptInv, NoOrphans, [Next]_vars
    PROVE  NoOrphans'
<1> USE DEF InHand, Working
<1>1. TypeOK /\ HeldRuns /\ LeaseKept
  BY DEF PromptInv, SafeInv
\* No row loses its lease or starts running, and no worker stops closing.
<1>2. ASSUME \A r \in Run : status'[r] = "running" => status[r] = "running",
             \A r \in Run : lease'[r] = "none" => lease[r] = "none",
             \A w \in Worker : pc[w] = "closing" => pc'[w] = "closing" /\ job'[w] = job[w]
      PROVE  NoOrphans'
  BY <1>2 DEF NoOrphans
<1>3. CASE UNCHANGED vars
  BY <1>2, <1>3 DEF vars
<1>4. ASSUME NEW r \in Run, CancelRead(r) \/ LeaseRunsOut(r) PROVE NoOrphans'
  BY <1>2, <1>4, <1>1 DEF CancelRead, LeaseRunsOut, TypeOK
<1>5. ASSUME NEW r \in Run, Enqueue(r) \/ CancelWrite(r) PROVE NoOrphans'
  BY <1>2, <1>5, <1>1 DEF Enqueue, CancelWrite, TypeOK
<1>6. ASSUME NEW slots \in Backfills, QueueBackfill(slots) PROVE NoOrphans'
  BY <1>2, <1>6 DEF QueueBackfill
<1>7. ASSUME NEW w \in Worker,
             ReleaseScan(w) \/ ReleaseDone(w) \/ NothingToClaim(w) \/ AbandonRun(w)
               \/ Crash(w) \/ Restart(w) \/ ExtendRead(w)
      PROVE NoOrphans'
  <2>1. UNCHANGED rows /\ pc[w] # "closing"
    BY <1>7 DEF ReleaseScan, ReleaseDone, NothingToClaim, AbandonRun, Crash, Restart,
                ExtendRead
  <2>2. \A v \in Worker \ {w} : pc'[v] = pc[v] /\ job'[v] = job[v]
    BY <1>7, <1>1 DEF ReleaseScan, ReleaseDone, NothingToClaim, AbandonRun, Crash,
                      Restart, ExtendRead, Goto, TypeOK
  <2> QED BY <2>1, <2>2, <1>2 DEF rows
<1>8. ASSUME NEW w \in Worker, NEW r \in Run, ClaimSelect(w, r) PROVE NoOrphans'
  BY <1>2, <1>8, <1>1 DEF ClaimSelect, Goto, rows, TypeOK
<1>9. ASSUME NEW w \in Worker, ExtendWrite(w) \/ Renew(w) PROVE NoOrphans'
  <2>1. status' = status /\ job' = job
    BY <1>9 DEF ExtendWrite, Renew
  <2>2. \A r \in Run : lease'[r] = "none" => lease[r] = "none"
    BY <1>9, <1>1 DEF ExtendWrite, Renew, TypeOK
  <2>3. \A v \in Worker : pc[v] = "closing" => pc'[v] = "closing"
    BY <1>9, <1>1 DEF ExtendWrite, Renew, Goto, TypeOK
  <2> QED BY <2>1, <2>2, <2>3, <1>2
<1>10. ASSUME NEW w \in Worker, NEW r \in Run, ReleaseRow(w, r) PROVE NoOrphans'
  <2>1. CASE ~LooksStalled(r)
    BY <1>2, <1>10, <2>1 DEF ReleaseRow
  <2>2. CASE LooksStalled(r)
    <3>1. /\ status' = status
          /\ \A q \in Run \ {r} : lease'[q] = lease[q]
      BY <1>10, <2>2, <1>1 DEF ReleaseRow, TypeOK
    <3>2. pc[w] = "releasing" /\ pc'[w] = "closing" /\ job'[w] = r
      BY <1>10, <2>2, <1>1 DEF ReleaseRow, Goto, TypeOK
    <3>3. \A v \in Worker \ {w} : pc'[v] = pc[v] /\ job'[v] = job[v]
      BY <1>10, <2>2, <1>1 DEF ReleaseRow, Goto, TypeOK
    <3> QED BY <3>1, <3>2, <3>3 DEF NoOrphans
  <2> QED BY <2>1, <2>2
<1>11. ASSUME NEW w \in Worker, NEW verdict \in Outcomes, job[w] \in Run,
              Finish(job[w], verdict),
              \A v \in Worker \ {w} : pc'[v] = pc[v] /\ job'[v] = job[v]
       PROVE NoOrphans'
  <2>1. /\ status'[job[w]] # "running"
        /\ \A q \in Run \ {job[w]} : status'[q] = status[q] /\ lease'[q] = lease[q]
    BY <1>11, <1>1 DEF Finish, Outcomes, TypeOK
  <2> QED BY <1>11, <2>1 DEF NoOrphans
<1>12. ASSUME NEW w \in Worker, CloseStalled(w) PROVE NoOrphans'
  <2>1. job[w] \in Run /\ Finish(job[w], "failed")
    BY <1>12, <1>1 DEF CloseStalled, HeldRuns
  <2>2. \A v \in Worker \ {w} : pc'[v] = pc[v] /\ job'[v] = job[v]
    BY <1>12, <1>1 DEF CloseStalled, Goto, TypeOK
  <2> QED BY <2>1, <2>2, <1>11 DEF Outcomes
<1>13. ASSUME NEW w \in Worker, NEW verdict \in Outcomes, FinishRun(w, verdict)
       PROVE NoOrphans'
  <2>1. job[w] \in Run /\ Finish(job[w], verdict)
    BY <1>13, <1>1 DEF FinishRun, HeldRuns
  <2>2. \A v \in Worker \ {w} : pc'[v] = pc[v] /\ job'[v] = job[v]
    BY <1>13, <1>1 DEF FinishRun, Goto, TypeOK
  <2> QED BY <2>1, <2>2, <1>11
<1>14. ASSUME NEW w \in Worker, ClaimCommit(w) \/ StartRun(w) PROVE NoOrphans'
  <2>1. job[w] \in Run /\ job' = job /\ pc[w] # "closing"
    BY <1>14, <1>1 DEF ClaimCommit, StartRun, HeldRuns
  <2>2. lease'[job[w]] = "live"
    BY <1>14, <2>1, <1>1 DEF ClaimCommit, StartRun, TypeOK, LeaseKept
  <2>3. \A q \in Run \ {job[w]} : status'[q] = status[q] /\ lease'[q] = lease[q]
    BY <1>14, <2>1, <1>1 DEF ClaimCommit, StartRun, TypeOK
  <2>4. \A v \in Worker \ {w} : pc'[v] = pc[v]
    BY <1>14, <1>1 DEF ClaimCommit, StartRun, Goto, TypeOK
  <2> QED BY <2>1, <2>2, <2>3, <2>4 DEF NoOrphans
<1> QED
  BY <1>3, <1>4, <1>5, <1>6, <1>7, <1>8, <1>9, <1>10, <1>12, <1>13, <1>14
  DEF Next, Request, WorkerStep, Proceed, End

\* While renewals arrive in time and no worker dies between the two commits of a
\* release (the death the code does not survive), a running row has a lease the
\* sweep will see pass, or a worker about to record its verdict.
THEOREM NoRunIsOrphaned ==
    ASSUME RenewalsFail = FALSE, DiesClosing = FALSE
    PROVE  Spec => []NoOrphans
<1>1. Init => NoOrphans
  BY DEF Init, NoOrphans
<1>2. PromptInv /\ NoOrphans /\ [Next]_vars => NoOrphans'
  BY OrphanStep
<1> QED BY <1>1, <1>2, Prompt, PTL DEF Spec
=============================================================================
