----------------------------- MODULE Incidents ------------------------------
(***************************************************************************)
(* The incidents of one problem of one project                             *)
(* (service_observability/incidents.py): sweeps open one while the problem *)
(* is there and resolve it when it has gone                                *)
(* (api_gateway/runtime_incidents.py), people acknowledge, resolve and     *)
(* reopen it.  Nobody locks a row, and everyone writes by its id.          *)
(***************************************************************************)
EXTENDS Naturals, Sequences, FiniteSets

CONSTANTS
    Sweeper,
    Operator,       \* the people who act on incidents
    MaxTurns,       \* bound on how often the problem comes or goes
    MaxActs         \* bound on what people do

ASSUME IncidentsAssumption == IsFiniteSet(Sweeper) /\ MaxTurns \in Nat /\ MaxActs \in Nat

VARIABLES
    problem,     \* it is there
    incidents,   \* the status of each, in the order they were opened
    sweeper,     \* [Sweeper -> [at, problem, active]]
    operator,    \* [Operator -> [at, act, of, seen]]
    reopened,    \* how often someone reopened an incident, or acted on one that changed meanwhile
    together,    \* the most sweeps that were under way at once so far
    turns, acts

incidentVars == <<problem, incidents, sweeper, operator, reopened, together, turns, acts>>

SweeperRests == [at |-> "idle", problem |-> FALSE, active |-> {}]
OperatorRests == [at |-> "idle", act |-> "none", of |-> 0, seen |-> "open"]
Status == {"open", "acknowledged", "resolved"}
Act == {"acknowledge", "resolve", "reopen"}

IncidentsTypeOK ==
    /\ problem \in BOOLEAN
    /\ incidents \in Seq(Status)
    /\ sweeper \in [Sweeper -> [at : {"idle", "looked"}, problem : BOOLEAN,
                                active : SUBSET DOMAIN incidents]]
    /\ operator \in [Operator -> [at : {"idle", "looked"}, act : Act \cup {"none"},
                                  of : DOMAIN incidents \cup {0}, seen : Status]]
    /\ reopened \in Nat /\ together \in Nat
    /\ turns \in 0..MaxTurns /\ acts \in 0..MaxActs

IncidentsInit ==
    /\ problem = FALSE
    /\ incidents = <<>>
    /\ sweeper = [w \in Sweeper |-> SweeperRests]
    /\ operator = [o \in Operator |-> OperatorRests]
    /\ reopened = 0 /\ together = 0
    /\ turns = 0 /\ acts = 0

Turn ==
    /\ turns < MaxTurns
    /\ turns' = turns + 1
    /\ problem' = ~problem
    /\ UNCHANGED <<incidents, sweeper, operator, reopened, together, acts>>

-----------------------------------------------------------------------------
\* ACTIVE_STATUSES
Active == {i \in DOMAIN incidents : incidents[i] \in {"open", "acknowledged"}}

UnderWay == {w \in Sweeper : sweeper[w].at = "looked"}

\* Nothing keeps two sweeps apart.
SweepLooks(w) ==
    /\ sweeper[w].at = "idle"
    /\ sweeper' = [sweeper EXCEPT ![w] = [at |-> "looked", problem |-> problem, active |-> Active]]
    /\ together' = IF Cardinality(UnderWay) < together THEN together ELSE Cardinality(UnderWay) + 1
    /\ UNCHANGED <<problem, incidents, operator, reopened, turns, acts>>

\* Mutant: a problem seen again is told again.
AlwaysOpens(seen) == Append(incidents, "open")

\* report: one that is there already is counted once more, which leaves its status.
Reported(seen) == IF seen.active = {} THEN Append(incidents, "open") ELSE incidents

\* auto_resolve, for every incident the sweep found.
Closed(seen) == [i \in DOMAIN incidents |-> IF i \in seen.active THEN "resolved" ELSE incidents[i]]

SweepCommits(w) ==
    /\ sweeper[w].at = "looked"
    /\ incidents' = IF sweeper[w].problem THEN Reported(sweeper[w]) ELSE Closed(sweeper[w])
    /\ sweeper' = [sweeper EXCEPT ![w] = SweeperRests]
    /\ UNCHANGED <<problem, operator, reopened, together, turns, acts>>

SweepStep(w) == SweepLooks(w) \/ SweepCommits(w)

-----------------------------------------------------------------------------
Permitted(act, status) ==
    CASE act = "acknowledge" -> status = "open"
      [] act = "resolve" -> status # "resolved"
      [] act = "reopen" -> status = "resolved"

Made(act) ==
    CASE act = "acknowledge" -> "acknowledged" [] act = "resolve" -> "resolved"
      [] act = "reopen" -> "open"

ActLooks(o, act, i) ==
    /\ operator[o].at = "idle" /\ acts < MaxActs
    /\ Permitted(act, incidents[i])
    /\ acts' = acts + 1
    /\ operator' = [operator EXCEPT ![o] =
                      [at |-> "looked", act |-> act, of |-> i, seen |-> incidents[i]]]
    /\ UNCHANGED <<problem, incidents, sweeper, reopened, together, turns>>

ActCommits(o) ==
    LET p == operator[o] IN
    /\ p.at = "looked"
    /\ incidents' = [incidents EXCEPT ![p.of] = Made(p.act)]
    /\ reopened' = reopened + (IF p.act = "reopen" \/ incidents[p.of] # p.seen THEN 1 ELSE 0)
    /\ operator' = [operator EXCEPT ![o] = OperatorRests]
    /\ UNCHANGED <<problem, sweeper, together, turns, acts>>

IncidentsNext ==
    \/ Turn
    \/ \E w \in Sweeper : SweepStep(w)
    \/ \E o \in Operator : ActCommits(o)
    \/ \E o \in Operator, act \in Act, i \in DOMAIN incidents : ActLooks(o, act, i)

\* The ticker sweeps for ever; a request that has begun is finished.
IncidentsFairness ==
    /\ \A w \in Sweeper : WF_incidentVars(SweepStep(w))
    /\ \A o \in Operator : WF_incidentVars(ActCommits(o))

IncidentsSpec == IncidentsInit /\ [][IncidentsNext]_incidentVars
FairIncidentsSpec == IncidentsSpec /\ IncidentsFairness

-----------------------------------------------------------------------------
\* "The same rule failing again lands on the same incident" (incidents.py:8): with
\* sweeps that come one after the other a problem has one active incident; it never
\* has more than sweeps were under way at once, each of which may open one unseen by
\* the others, and incidents that people brought back.
OneActive == Cardinality(Active) <= together + reopened

\* What incidents.py:7-8 says: the problem has one active incident while nobody
\* brings back another.
SameIncident == reopened = 0 => Cardinality(Active) <= 1

\* In the end the list says what is: a problem that stays has an incident and one
\* that has gone has none, whatever people and sweeps wrote over each other
\* (runtime_incidents.py:5-8).
TroubleIsShown == <>[](problem = (Active # {}))

\* What holds of incidents at every moment: a problem has one active incident, but
\* for what overlapping sweeps and people add (report).
IncidentSafety ==
    /\ IncidentsTypeOK
    /\ OneActive
=============================================================================
