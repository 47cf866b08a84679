------------------------------ MODULE RunLedger ------------------------------
(***************************************************************************)
(* What the run queue of service-workflows promises about a run, with no   *)
(* workers, leases or rows in sight: a run is submitted once, is taken by  *)
(* a worker at most once, and once settled it never goes back to work.     *)
(* ("A run whose worker dies is failed once its lease expires, not         *)
(* retried.")  What the recorded verdict says is not part of the promise.  *)
(***************************************************************************)
CONSTANT Run

VARIABLE state      \* the life of each run, in four phases

LedgerInit == state = [r \in Run |-> "absent"]

Move(r, from, to) ==
    /\ state[r] = from
    /\ state' = [state EXCEPT ![r] = to]

\* A backfill submits several runs in one transaction.
Submit(rs) ==
    /\ \A r \in rs : state[r] = "absent"
    /\ state' = [r \in Run |-> IF r \in rs THEN "waiting" ELSE state[r]]

Take(r) == Move(r, "waiting", "taken")

\* A queued run is cancelled, or a taken one ends or is given up as stalled.
Settle(r) == Move(r, "waiting", "settled") \/ Move(r, "taken", "settled")

LedgerNext ==
    \/ \E rs \in SUBSET Run : Submit(rs)
    \/ \E r \in Run : Take(r) \/ Settle(r)

LedgerSpec == LedgerInit /\ [][LedgerNext]_state

\* Every run that is waiting or taken is settled in the end.
EverySubmittedRunSettles ==
    \A r \in Run : state[r] \in {"waiting", "taken"} ~> state[r] = "settled"
=============================================================================
