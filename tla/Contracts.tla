----------------------------- MODULE Contracts ------------------------------
(***************************************************************************)
(* The contract on a dataset (service_quality/data_contracts.py): new data *)
(* is judged before it is stored, the outcome is recorded in the commit of *)
(* the version, and open problems say what is wrong now.                   *)
(*                                                                         *)
(* Data is the set of the promises it would break; a contract is the set   *)
(* of the promises it makes, so their meet is why data breaks a contract.  *)
(***************************************************************************)
EXTENDS Naturals, FiniteSets

CONSTANTS
    Promise,
    Feed,         \* recipes, imports and live sources that write the dataset
    Ticker,       \* workers that look for overdue data
    MaxTouches,     \* bound on edits of the contract
    MaxLandings,  \* bound on versions
    MaxFlips,     \* bound on how often new data becomes overdue or arrives
    Meanwhile     \* a person saves, checks or removes the contract while data is judged

ASSUME ContractAssumption ==
    /\ Feed \cap {"rollback", "erasure", "check"} = {} /\ IsFiniteSet(Ticker)
    /\ MaxTouches \in Nat /\ MaxLandings \in Nat /\ MaxFlips \in Nat

VARIABLES
    contract,   \* [there, terms, stops]
    head,       \* the current data
    open,       \* problems not resolved: [source, reasons, outcome]
    last,       \* [Feed -> reasons its last recorded data was stopped for]
    producer,   \* [Producer -> [at, data, verdict]]
    person,     \* [at, act, terms, stops, seen]
    touches, landings,
    stale, overdue, ticker, flips    \* the promise of new data, and the problems that it is late

landVars == <<head, open, last, producer, landings>>
lateVars == <<stale, overdue, ticker, flips>>
contractVars == <<contract, person, touches, landVars, lateVars>>

\* Besides the feeds: a rollback, and the erasure of a person's data.
Producer == Feed \cup {"rollback", "erasure"}
Source == Producer \cup {"check"}
Data == SUBSET Promise
Problem == [source : Source, reasons : Data \ {{}}, outcome : {"stopped", "let_through"}]
NoVerdict == [known |-> FALSE, reasons |-> {}, stops |-> FALSE]
ProducerRests == [at |-> "idle", data |-> {}, verdict |-> NoVerdict]
NoContract == [there |-> FALSE, terms |-> {}, stops |-> FALSE]
PersonRests == [at |-> "idle", act |-> "check", terms |-> {}, stops |-> FALSE, seen |-> {}]

ContractsTypeOK ==
    /\ contract \in [there : BOOLEAN, terms : Data, stops : BOOLEAN]
    /\ head \in Data
    /\ open \subseteq Problem
    /\ \A p, q \in open : p.source = q.source => p = q
    /\ last \in [Feed -> Data]
    /\ producer \in [Producer -> [at : {"idle", "landing"}, data : Data,
                        verdict : [known : BOOLEAN, reasons : Data, stops : BOOLEAN]]]
    /\ person \in [at : {"idle", "looking"}, act : {"save", "check"}, terms : Data,
                   stops : BOOLEAN, seen : Data]
    /\ touches \in 0..MaxTouches /\ landings \in 0..MaxLandings
    /\ stale \in BOOLEAN /\ flips \in 0..MaxFlips
    /\ overdue \in 0..Cardinality(Ticker)
    /\ ticker \in [Ticker -> [at : {"idle", "looked"}, stale : BOOLEAN, open : BOOLEAN]]

ContractsInit ==
    /\ contract = NoContract
    /\ head = {}
    /\ open = {}
    /\ last = [f \in Feed |-> {}]
    /\ producer = [p \in Producer |-> ProducerRests]
    /\ person = PersonRests
    /\ touches = 0 /\ landings = 0
    /\ stale = FALSE /\ overdue = 0 /\ flips = 0
    /\ ticker = [w \in Ticker |-> [at |-> "idle", stale |-> FALSE, open |-> FALSE]]

-----------------------------------------------------------------------------
(* Problems.                                                               *)

Reasons(terms, data) == terms \cap data

Same(p, source, reasons) == p.source = source /\ p.reasons = reasons

Superseded(p, source, outcome) ==
    p.source = source \/ (outcome = "let_through" /\ p.outcome = "let_through")

\* The open problems are gone through in no order.  One that says the same ends
\* it at once: those before it are superseded and those after it are not looked at.
Recorded(source, reasons, outcome) ==
    LET again == {p \in open : Same(p, source, reasons)}
        others == {p \in open \ again : Superseded(p, source, outcome)}
        new == [source |-> source, reasons |-> reasons, outcome |-> outcome] IN
    IF again = {} THEN {(open \ others) \cup {new}}
    ELSE {(open \ (again \cup passed)) \cup {new} : passed \in SUBSET others}

\* Mutant: data that keeps the contract resolves every problem.
AnswersAll(p, source) == TRUE

Answers(p, source) == p.source = source \/ p.outcome = "let_through" \/ p.source = "check"

Resolved(source) == {p \in open : ~Answers(p, source)}

-----------------------------------------------------------------------------
(* New data.                                                               *)

Verdict(p, data) ==
    IF ~contract.there THEN NoVerdict
    ELSE [known |-> TRUE, reasons |-> Reasons(contract.terms, data), stops |-> contract.stops]

\* check_new_data: whether the data is stopped here.
Stops(p, verdict) == verdict.stops /\ verdict.reasons # {} /\ p # "erasure"

CheckNewData(p, data) ==
    LET verdict == Verdict(p, data) IN
    /\ producer[p].at = "idle" /\ landings < MaxLandings
    /\ Meanwhile \/ person.at = "idle"
    /\ landings' = landings + 1
    /\ \/ /\ ~Stops(p, verdict)
          /\ producer' = [producer EXCEPT ![p] =
                            [at |-> "landing", data |-> data, verdict |-> verdict]]
          /\ UNCHANGED <<open, last>>
       \/ /\ Stops(p, verdict) /\ p \in Feed
          /\ open' \in Recorded(p, verdict.reasons, "stopped")
          /\ last' = [last EXCEPT ![p] = verdict.reasons]
          /\ UNCHANGED producer
    /\ UNCHANGED <<contract, person, touches, head, lateVars>>

\* The commit of the version, with record_landing in it: landings of one
\* dataset come one after the other, since two cannot have one version number.
Land(p) ==
    LET verdict == producer[p].verdict
        recorded == verdict.known /\ contract.there IN
    /\ producer[p].at = "landing"
    /\ Meanwhile \/ person.at = "idle"
    /\ head' = producer[p].data
    /\ open' \in IF ~recorded THEN {open}
                 ELSE IF verdict.reasons # {} THEN Recorded(p, verdict.reasons, "let_through")
                 ELSE {Resolved(p)}
    /\ last' = IF p \in Feed /\ recorded THEN [last EXCEPT ![p] = {}] ELSE last
    /\ producer' = [producer EXCEPT ![p] = ProducerRests]
    /\ UNCHANGED <<contract, person, touches, landings, lateVars>>

\* It fails, or its process dies, before that commit.
Fails(p) ==
    /\ producer[p].at = "landing"
    /\ producer' = [producer EXCEPT ![p] = ProducerRests]
    /\ UNCHANGED <<contract, person, touches, head, open, last, landings, lateVars>>

-----------------------------------------------------------------------------
(* A person writes, checks or removes the contract.                        *)

Alone == person.at = "idle" /\ (Meanwhile \/ \A p \in Producer : producer[p].at = "idle")

\* save_contract and check_contract_now read the current data ...
Look(act, terms, stops) ==
    /\ Alone /\ touches < MaxTouches
    /\ act = "check" => contract.there /\ terms = contract.terms /\ stops = contract.stops
    /\ touches' = touches + 1
    /\ person' = [at |-> "looking", act |-> act, terms |-> terms, stops |-> stops, seen |-> head]
    /\ UNCHANGED <<contract, landVars, lateVars>>

AfterCheck(reasons) ==
    IF reasons = {} THEN {Resolved("check")} ELSE Recorded("check", reasons, "let_through")

\* ... and commit what they make of it.
Settle ==
    /\ person.at = "looking"
    /\ contract' = IF person.act = "check" THEN contract
                   ELSE [there |-> TRUE, terms |-> person.terms, stops |-> person.stops]
    /\ open' \in AfterCheck(Reasons(person.terms, person.seen))
    /\ person' = PersonRests
    /\ UNCHANGED <<touches, head, last, producer, landings, lateVars>>

\* Its problems go with it, and a verdict reached under it will record nothing,
\* not even when a new contract has been saved.
RemoveContract ==
    /\ Alone /\ contract.there /\ touches < MaxTouches
    /\ touches' = touches + 1
    /\ contract' = NoContract
    /\ open' = {}
    /\ last' = [f \in Feed |-> {}]
    /\ producer' = [p \in Producer |-> [producer[p] EXCEPT !.verdict = NoVerdict]]
    /\ UNCHANGED <<person, head, landings, lateVars>>

-----------------------------------------------------------------------------
(* New data that is late: sync_overdue.                                    *)

\* The freshness sweep judges the promise anew.
Flip ==
    /\ flips < MaxFlips
    /\ flips' = flips + 1
    /\ stale' = ~stale
    /\ UNCHANGED <<contract, person, touches, landVars, overdue, ticker>>

TickLooks(w) ==
    /\ ticker[w].at = "idle"
    /\ stale # (overdue > 0)
    /\ ticker' = [ticker EXCEPT ![w] = [at |-> "looked", stale |-> stale, open |-> overdue > 0]]
    /\ UNCHANGED <<contract, person, touches, landVars, stale, overdue, flips>>

\* Two workers that close close the same one, the newest in their lists.
OverdueAfter(seen) ==
    CASE seen.stale /\ ~seen.open -> overdue + 1
      [] ~seen.stale /\ seen.open /\ overdue > 0 -> overdue - 1
      [] OTHER -> overdue

TickCommits(w) ==
    /\ ticker[w].at = "looked"
    /\ overdue' = OverdueAfter(ticker[w])
    /\ ticker' = [ticker EXCEPT ![w].at = "idle"]
    /\ UNCHANGED <<contract, person, touches, landVars, stale, flips>>

TickStep(w) == TickLooks(w) \/ TickCommits(w)

PromisesNext ==
    \/ \E p \in Producer : Land(p) \/ Fails(p) \/ \E data \in Data : CheckNewData(p, data)
    \/ \E act \in {"save", "check"}, terms \in Data, stops \in BOOLEAN : Look(act, terms, stops)
    \/ Settle \/ RemoveContract

OverdueNext == Flip \/ \E w \in Ticker : TickStep(w)

ContractsNext == PromisesNext \/ OverdueNext

\* The worker ticks for ever.
ContractsFairness == \A w \in Ticker : WF_contractVars(TickStep(w))

ContractsSpec == ContractsInit /\ [][ContractsNext]_contractVars
FairContractsSpec == ContractsSpec /\ ContractsFairness

-----------------------------------------------------------------------------
\* What the contract shows is what the current data is like: a problem that was
\* let through is open, with its reasons, if and only if the data breaks the
\* contract as it is now (record_landing: "data that keeps the contract resolves
\* the problems it answers").
HeadIsShown ==
    contract.there =>
        LET through == {p \in open : p.outcome = "let_through"}
            broken == Reasons(contract.terms, head) IN
        /\ (through # {}) = (broken # {})
        /\ broken # {} => \E p \in through : p.reasons = broken

\* A feed whose data was stopped shows why until its data is saved again,
\* whatever the other feeds, checks, rollbacks and edits do meanwhile.
StoppedIsShown ==
    \A f \in Feed :
        LET stopped == {p \in open : p.source = f /\ p.outcome = "stopped"} IN
        IF last[f] = {} THEN stopped = {}
        ELSE \E p \in stopped : stopped = {p} /\ p.reasons = last[f]

\* Under "stop" data that breaks the contract does not become current, but
\* for the erasure of a person's data (data_contracts.py:10-11).
BrokenStaysOut ==
    [][head' # head /\ contract.there /\ contract.stops /\ Reasons(contract.terms, head') # {}
         => producer["erasure"].at = "landing" /\ producer'["erasure"].at = "idle"]_contractVars

\* Late data is a problem while it is late, once it stays so or stays fresh,
\* though two workers open the problem twice or close one of two.
OverdueSettles == <>[](stale = (overdue > 0))

\* What holds of a contract at every moment: the problems that are open are those of the
\* current data and of the data that was stopped (data_contracts.py).
ContractSafety ==
    /\ ContractsTypeOK
    /\ HeadIsShown
    /\ StoppedIsShown
=============================================================================
