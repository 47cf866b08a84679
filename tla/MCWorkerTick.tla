---------------------------- MODULE MCWorkerTick ----------------------------
(***************************************************************************)
(* What one worker process does in turn (scripts/workflow_worker.py): the  *)
(* queue of workflow runs, and the alerts' events and the webhooks' tries  *)
(* it sends besides.  The two share no state: the first state chooses      *)
(* which of them moves.                                                    *)
(***************************************************************************)
EXTENDS MCWorkflowQueue, AlertDelivery

CONSTANTS m1, m2

VARIABLE moves

tickVars == <<moves, vars, alertVars>>

TickInit == moves \in {"queue", "alerts"} /\ Init /\ AlertInit

OnlyQueue == UNCHANGED <<moves, alertVars>>
OnlyAlerts == UNCHANGED <<moves, vars>>

\* Captures are alike, and one at a time: the first is m1.
FirstIsFirst == capture'[m2].at = "waiting" \/ capture'[m1].at # "waiting"

TickNext ==
    \/ moves = "queue" /\ Next /\ OnlyQueue
    \/ moves = "alerts" /\ AlertNext /\ FirstIsFirst /\ OnlyAlerts

\* The fairness of each, where it is the one that moves.
TickSpec ==
    /\ TickInit /\ [][TickNext]_tickVars
    /\ \A w \in Worker :
         /\ WF_tickVars(moves = "queue" /\ Proceed(w) /\ OnlyQueue)
         /\ WF_tickVars(moves = "queue" /\ Restart(w) /\ OnlyQueue)
         /\ SF_tickVars(moves = "queue" /\ End(w) /\ OnlyQueue)
    /\ \A r \in Run : WF_tickVars(moves = "queue" /\ LeaseRunsOut(r) /\ OnlyQueue)
    /\ \A w \in Sender : WF_tickVars(moves = "alerts" /\ SenderStep(w) /\ OnlyAlerts)
    /\ \A c \in Capture : WF_tickVars(moves = "alerts" /\ BecomesDue(c) /\ OnlyAlerts)
=============================================================================
