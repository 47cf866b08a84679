--------------------------- MODULE MCWorkflowQueue ---------------------------
(***************************************************************************)
(* Instances of WorkflowQueue for TLC: a run started by hand (r1), the run *)
(* that resumes it (r2), and a backfill of one or two slots (r3, r4).      *)
(***************************************************************************)
EXTENDS WorkflowQueue

CONSTANTS r1, r2, r3, r4, w1, w2, w3, p1, p2, o1, o2

OneProject == [r \in Run |-> p1]

McTrigger == [r \in Run |-> CASE r = r1 -> "manual"
                              [] r = r2 -> "resume"
                              [] OTHER -> "backfill"]
McResumeOf == [r \in Run |-> IF r = r2 /\ r1 \in Run THEN r1 ELSE NoRun]
McBackfills ==
    CASE {r3, r4} \subseteq Run -> {<<r3, r4>>}
      [] r3 \in Run /\ r4 \notin Run -> {<<r3>>}
      [] OTHER -> {}
OneAtOnce == [p \in Project |-> 1]

\* Two pods whose workers have the same process id.
SharedIdentity == [w \in Worker |-> o1]
OwnIdentity == [w \in Worker |-> IF w = w1 THEN o1 ELSE o2]
=============================================================================
