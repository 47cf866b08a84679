------------------------ MODULE MCWorkflowExecution ------------------------
(***************************************************************************)
(* Instances of WorkflowExecution for TLC: small graphs of three tasks.    *)
(***************************************************************************)
EXTENDS WorkflowExecution

Link(from, to, condition) == [from |-> from, to |-> to, condition |-> condition]
Using(t, u) == [s \in Task |-> IF s = t THEN u ELSE 0]
Tries(t, n) == [s \in Task |-> IF s = t THEN n ELSE 0]

\* Task 1 is checked by 2; 3 joins both: it delivers what 1 made.
Join == [links |-> {Link(1, 2, "on_success"), Link(2, 3, "on_success"), Link(1, 3, "always")},
         uses |-> Using(3, 1), optional |-> {}, retries |-> Tries(2, 1)]

\* Task 3 imports, 1 checks what it made, 2 tells of the failure of the check.
Alarm == [links |-> {Link(3, 1, "on_success"), Link(1, 2, "on_failure")},
          uses |-> Using(1, 3), optional |-> {1}, retries |-> Tries(1, 1)]

\* Tasks 3 and 1 use what 2 made; 1 waits for 3 too, which may fail.
Fan == [links |-> {Link(2, 3, "on_success"), Link(2, 1, "on_success"), Link(3, 1, "always")},
        uses |-> [t \in Task |-> IF t = 2 THEN 0 ELSE 2], optional |-> {3}, retries |-> Tries(3, 1)]

McLinked == {Join, Alarm, Fan}

\* Fewer of them, for a chain of three runs, or for runs whose end is asked for.
McChained == {Join, Alarm}
McJoin == {Join}
=============================================================================
