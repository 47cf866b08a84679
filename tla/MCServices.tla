----------------------------- MODULE MCServices -----------------------------
(***************************************************************************)
(* Small protocols that share no state, checked side by side: the first    *)
(* state chooses one, and the others never move.                           *)
(***************************************************************************)
EXTENDS BackgroundRuns, Uploads, Writeback, Imports, Contracts, Incidents

VARIABLE protocol

serviceVars ==
    <<protocol, runVars, uploadVars, writebackVars, importVars, contractVars, incidentVars>>

Init ==
    /\ protocol \in {"runs", "uploads", "writeback", "imports", "contracts", "overdue",
                     "incidents"}
    /\ RunsInit /\ UploadsInit /\ WritebackInit /\ ImportsInit /\ ContractsInit /\ IncidentsInit
    /\ protocol # "imports" => job.mode = "incremental_append"

ButRuns == UNCHANGED <<protocol, uploadVars, writebackVars, importVars, contractVars, incidentVars>>
ButUploads == UNCHANGED <<protocol, runVars, writebackVars, importVars, contractVars, incidentVars>>
ButWriteback == UNCHANGED <<protocol, runVars, uploadVars, importVars, contractVars, incidentVars>>
ButImports == UNCHANGED <<protocol, runVars, uploadVars, writebackVars, contractVars, incidentVars>>
ButContracts == UNCHANGED <<protocol, runVars, uploadVars, writebackVars, importVars, incidentVars>>
ButIncidents == UNCHANGED <<protocol, runVars, uploadVars, writebackVars, importVars, contractVars>>

Next ==
    \/ protocol = "runs" /\ RunsNext /\ ButRuns
    \/ protocol = "uploads" /\ UploadsNext /\ ButUploads
    \/ protocol = "writeback" /\ WritebackNext /\ ButWriteback
    \/ protocol = "imports" /\ ImportsNext /\ ButImports
    \/ protocol = "contracts" /\ PromisesNext /\ ButContracts
    \/ protocol = "overdue" /\ OverdueNext /\ ButContracts
    \/ protocol = "incidents" /\ IncidentsNext /\ ButIncidents

\* The fairness of each protocol, where it is the one that moves.
Fairness ==
    /\ \A w \in Worker : WF_serviceVars(protocol = "runs" /\ WorkerStep(w) /\ ButRuns)
    /\ \A r \in Run : WF_serviceVars(protocol = "runs" /\ LeaseRunsOut(r) /\ ButRuns)
    /\ \A q \in Request :
         /\ WF_serviceVars(protocol = "uploads" /\ Serve(q) /\ ButUploads)
         /\ WF_serviceVars(protocol = "uploads" /\ ClientGoesOn(q) /\ ButUploads)
    /\ \A q \in Importer : WF_serviceVars(protocol = "imports" /\ ImportStep(q) /\ ButImports)
    /\ \A w \in Ticker : WF_serviceVars(protocol = "overdue" /\ TickStep(w) /\ ButContracts)
    /\ \A w \in Sweeper : WF_serviceVars(protocol = "incidents" /\ SweepStep(w) /\ ButIncidents)
    /\ \A o \in Operator :
         WF_serviceVars(protocol = "incidents" /\ ActCommits(o) /\ ButIncidents)

Spec == Init /\ [][Next]_serviceVars /\ Fairness

\* No step takes back what another protocol step settled: the verdict of a run, a cell somebody
\* else changed.
NothingIsUndone ==
    /\ RunVerdictStands
    /\ NothingWrittenOver

\* Whatever was begun comes to an end: files are decided, uploads end, rows arrive, late data
\* and trouble are shown while they last.
EverythingSettles ==
    /\ EveryFileIsDecided
    /\ UploadEnds
    /\ EveryRowArrives
    /\ OverdueSettles
    /\ TroubleIsShown
=============================================================================
