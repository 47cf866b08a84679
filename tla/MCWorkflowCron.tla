--------------------------- MODULE MCWorkflowCron ---------------------------
(***************************************************************************)
(* Instances of WorkflowCron for TLC: one expression that stands for every *)
(* other instant and one that stands for every third.                      *)
(***************************************************************************)
EXTENDS WorkflowCron

CONSTANTS f1, f2, w1, w2, second, third

McSlotsOf == [e \in Expression |->
                IF e = second THEN {s \in 0 .. Horizon : s % 2 = 0}
                              ELSE {s \in 0 .. Horizon : s % 3 = 0}]
=============================================================================
