------------------------------ MODULE MCResults ------------------------------
(***************************************************************************)
(* What a run leaves, checked side by side for runs of a workflow and runs *)
(* of a recipe, which share no state: the first state chooses which of     *)
(* them move.                                                              *)
(***************************************************************************)
EXTENDS MCWorkflowExecution, IncrementalRuns, TLC

VARIABLE moves

\* What does not move is in one of its first states.
ResultsInit ==
    /\ Init /\ IncrementalInit
    /\ \/ moves = "workflow" /\ recipe = [kind |-> "sorts", steps |-> 0, mode |-> "append"]
       \/ moves = "recipe" /\ graph = Join

ResultsNext ==
    \/ moves = "workflow" /\ Next /\ UNCHANGED <<moves, incrementalVars>>
    \/ moves = "recipe" /\ IncrementalNext /\ UNCHANGED <<moves, vars>>

resultsVars == <<moves, vars, incrementalVars>>

ResultsSpec == ResultsInit /\ [][ResultsNext]_resultsVars

\* Only runs of the workflow, whose workers go on.
WorkflowInit == ResultsInit /\ moves = "workflow"

WorkflowSpec ==
    /\ WorkflowInit /\ [][ResultsNext]_resultsVars
    /\ \A r \in Run : WF_resultsVars(Execute(r) /\ UNCHANGED <<moves, incrementalVars>>)

\* Whoever runs the recipe is like any other.
AnyMaker == Permutations(Maker)

\* Types of both, with the pin an incremental run records naming a version that exists.
ResultsTypeOK ==
    /\ TypeOK
    /\ IncrementalTypeOK
=============================================================================
