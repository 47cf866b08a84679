----------------------------- MODULE LiveSources -----------------------------
(***************************************************************************)
(* A live source that follows a table by change capture: the lease, the    *)
(* first copy, reading from a replication slot, and saving the log of      *)
(* every event and the table as it is now (service_extraction/streams.py). *)
(*                                                                         *)
(* One action is one committed transaction, one call to the source's       *)
(* database, or one read that a later step acts on.  Runners interleave    *)
(* with each other, with a person who presses "Save now" or "Start again", *)
(* and with the changes of the table; a runner can die anywhere.           *)
(* A change is known by its position in the change log, its row by a key   *)
(* and the position that wrote it; a stored event by the change it holds.  *)
(***************************************************************************)
EXTENDS Naturals, Sequences, SequencesExt, FiniteSets

CONSTANTS
    Key,           \* keys of the followed table
    Runner,
    Person,        \* requests of "Save now", which take no lease
    NoOne,
    MaxChanges,    \* bound on the changes of the table
    MaxFaults,     \* bound on deaths, failed saves and lost acknowledgements
    MaxRestarts,   \* bound on "Start again"
    DiesCopying,   \* a runner can die while it takes the first copy
    SlowPass       \* a pass can outlive its lease; "Start again" can fall into
                   \* its reading

Actor == Runner \cup Person

ASSUME LiveAssumption ==
    /\ Runner \cap Person = {}
    /\ NoOne \notin Actor
    /\ {MaxChanges, MaxFaults, MaxRestarts} \subseteq Nat
    /\ {DiesCopying, SlowPass} \subseteq BOOLEAN

VARIABLES
    changes,    \* the table's change log: [key, gone]
    slot,       \* how far the slot is confirmed
    start,      \* where the slot was made
    cursor,     \* the source has a saved position
    events,     \* stream_events, by seq: the change each one holds
    trimmed,    \* events up to this seq are deleted
    log,        \* the log dataset's current version: the changes in it
    logSaved,   \* log_saved_seq
    table,      \* LiveTable.state
    rows,       \* the table dataset's current version: [Key -> change or 0]
    applied,    \* applied_seq
    lease,      \* [owner, until : {"none", "live", "past"}]
    at,         \* [Actor -> where it is]
    hand,       \* [Actor -> what it has read: upto, from, log, rows]
    faults,
    restarts

external == <<changes, slot, start>>
source == <<cursor, events, trimmed>>
outputs == <<log, logSaved, table, rows, applied>>
vars == <<external, source, outputs, lease, at, hand, faults, restarts>>

Points == {"idle", "claimed", "copying", "copied", "linking", "storing",
           "acknowledging", "stored", "logging", "logged", "tabling", "applying",
           "tabled", "trimming", "releasing"}
Empty == [k \in Key |-> 0]
Nothing == [upto |-> 0, from |-> 0, log |-> <<>>, rows |-> Empty]

TypeOK ==
    /\ changes \in Seq([key : Key, gone : BOOLEAN])
    /\ slot \in 0..Len(changes)
    /\ start \in 0..slot
    /\ cursor \in BOOLEAN
    /\ events \in Seq(1..Len(changes))
    /\ trimmed \in 0..Len(events)
    /\ log \in Seq(1..Len(changes))
    /\ logSaved \in 0..Len(events)
    /\ table \in {"waiting", "snapshot", "following"}
    /\ rows \in [Key -> 0..Len(changes)]
    /\ applied \in 0..Len(events)
    /\ lease \in [owner : Runner \cup {NoOne}, until : {"none", "live", "past"}]
    /\ at \in [Actor -> Points]
    /\ \A a \in Actor : hand[a].upto \in Nat /\ hand[a].from \in Nat
    /\ faults \in 0..MaxFaults
    /\ restarts \in 0..MaxRestarts

Init ==
    /\ changes = <<>>
    /\ slot = 0
    /\ start = 0
    /\ cursor = FALSE
    /\ events = <<>>
    /\ trimmed = 0
    /\ log = <<>>
    /\ logSaved = 0
    /\ table = "waiting"
    /\ rows = Empty
    /\ applied = 0
    /\ lease = [owner |-> NoOne, until |-> "none"]
    /\ at = [a \in Actor |-> "idle"]
    /\ hand = [a \in Actor |-> Nothing]
    /\ faults = 0
    /\ restarts = 0

Goto(a, point) == at' = [at EXCEPT ![a] = point]
Drop(a) == hand' = [hand EXCEPT ![a] = Nothing]

-----------------------------------------------------------------------------
(* The table outside, and what its rows are after some of its changes.     *)

Change(k, gone) ==
    /\ Len(changes) < MaxChanges
    /\ changes' = Append(changes, [key |-> k, gone |-> gone])
    /\ UNCHANGED <<slot, start, source, outputs, lease, at, hand, faults, restarts>>

\* The rows after a sequence of changes: the last one to a key decides it.
After(before, done) == [k \in Key |->
    LET mine == {i \in DOMAIN done : changes[done[i]].key = k}
        last == done[CHOOSE i \in mine : \A j \in mine : j <= i] IN
    IF mine = {} THEN before[k] ELSE IF changes[last].gone THEN 0 ELSE last]

TableNow == After(Empty, [i \in 1..Len(changes) |-> i])

-----------------------------------------------------------------------------
(* A runner's pass: claim, first copy, read.                               *)

Claim(r) ==
    /\ at[r] = "idle"
    /\ lease.until # "live" \/ lease.owner = r
    /\ lease' = [owner |-> r, until |-> "live"]
    /\ Goto(r, "claimed")
    /\ UNCHANGED <<external, source, outputs, hand, faults, restarts>>

\* 120 seconds after the claim, whatever the runner is doing; a pass that
\* keeps to its budget is over by then.
LeaseRunsOut ==
    /\ lease.until = "live"
    /\ ~SlowPass => at[lease.owner] = "idle"
    /\ lease' = [lease EXCEPT !.until = "past"]
    /\ UNCHANGED <<external, source, outputs, at, hand, faults, restarts>>

\* The position is taken before any copy.
TakePosition(r) ==
    /\ at[r] = "claimed"
    /\ ~cursor
    /\ cursor' = TRUE
    /\ start' = Len(changes)
    /\ slot' = Len(changes)
    /\ UNCHANGED <<changes, events, trimmed, outputs, lease, at, hand, faults, restarts>>

\* Mutant: the table is copied before the position is taken.
BeginCopyFirst(r) ==
    /\ at[r] = "claimed"
    /\ table = "waiting"
    /\ table' = "snapshot"
    /\ hand' = [hand EXCEPT ![r].upto = Len(events)]
    /\ Goto(r, "copying")
    /\ UNCHANGED <<external, source, log, logSaved, rows, applied, lease, faults, restarts>>

BeginCopy(r) ==
    /\ at[r] = "claimed"
    /\ cursor
    /\ table = "waiting"
    /\ table' = "snapshot"
    /\ hand' = [hand EXCEPT ![r].upto = Len(events)]
    /\ Goto(r, "copying")
    /\ UNCHANGED <<external, source, log, logSaved, rows, applied, lease, faults, restarts>>

Copy(r) ==
    /\ at[r] = "copying"
    /\ hand' = [hand EXCEPT ![r].rows = TableNow]
    /\ Goto(r, "copied")
    /\ UNCHANGED <<external, source, outputs, lease, faults, restarts>>

PublishCopy(r) ==
    /\ at[r] = "copied"
    /\ rows' = hand[r].rows
    /\ Goto(r, "linking")
    /\ UNCHANGED <<external, source, log, logSaved, table, applied, lease, hand, faults, restarts>>

LinkCopy(r) ==
    /\ at[r] = "linking"
    /\ table' = "following"
    /\ applied' = hand[r].upto
    /\ Drop(r)
    /\ Goto(r, "claimed")
    /\ UNCHANGED <<external, source, log, logSaved, rows, lease, faults, restarts>>

\* Mutant: the table is not put back.
CopyFailsForGood(r) ==
    /\ at[r] \in {"copying", "copied", "linking"}
    /\ faults < MaxFaults
    /\ faults' = faults + 1
    /\ Drop(r)
    /\ Goto(r, "releasing")
    /\ UNCHANGED <<external, source, outputs, lease, restarts>>

\* An exception puts the table back to waiting and ends the pass.
CopyFails(r) ==
    /\ at[r] \in {"copying", "copied", "linking"}
    /\ faults < MaxFaults
    /\ faults' = faults + 1
    /\ table' = "waiting"
    /\ Drop(r)
    /\ Goto(r, "releasing")
    /\ UNCHANGED <<external, source, log, logSaved, rows, applied, lease, restarts>>

\* A batch from the slot on, as long as its limit allows.
Read(r) ==
    /\ at[r] = "claimed"
    /\ cursor
    /\ table # "waiting"
    /\ \E upto \in slot..Len(changes) :
         /\ slot < Len(changes) => slot < upto
         /\ hand' = [hand EXCEPT ![r].from = slot, ![r].upto = upto]
    /\ Goto(r, "storing")
    /\ UNCHANGED <<external, source, outputs, lease, faults, restarts>>

InOrder(positions) ==
    CHOOSE s \in [1..Cardinality(positions) -> positions] :
        /\ ToSet(s) = positions
        /\ \A i, j \in DOMAIN s : i < j => s[i] < s[j]

\* A change whose position is stored is left out.
Fresh(from, upto) ==
    LET kept == {events[i] : i \in (trimmed + 1)..Len(events)} IN
    InOrder(((from + 1)..upto) \ kept)

\* The events and the position in one commit.
Store(r) ==
    /\ at[r] = "storing"
    /\ events' = events \o Fresh(hand[r].from, hand[r].upto)
    /\ Goto(r, "acknowledging")
    /\ UNCHANGED <<external, cursor, trimmed, outputs, lease, hand, faults, restarts>>

Acknowledge(r) ==
    /\ at[r] = "acknowledging"
    /\ slot' = IF slot < hand[r].upto THEN hand[r].upto ELSE slot
    /\ Drop(r)
    /\ Goto(r, "stored")
    /\ UNCHANGED <<changes, start, source, outputs, lease, faults, restarts>>

\* Saved already; the source sends it again.
AcknowledgeFails(r) ==
    /\ at[r] = "acknowledging"
    /\ faults < MaxFaults
    /\ faults' = faults + 1
    /\ Drop(r)
    /\ Goto(r, "stored")
    /\ UNCHANGED <<external, source, outputs, lease, restarts>>

-----------------------------------------------------------------------------
(* Saving: save_source_now, by a runner when it is due or by a person.     *)

HasUnsaved == \/ logSaved < Len(events)
              \/ table = "following" /\ applied < Len(events)

SaveStart(a) ==
    /\ at[a] = IF a \in Person THEN "idle" ELSE "stored"
    /\ a \in Runner => HasUnsaved
    /\ hand' = [hand EXCEPT ![a] = [upto |-> Len(events), from |-> logSaved,
                                    log |-> log, rows |-> Empty]]
    /\ Goto(a, "logging")
    /\ UNCHANGED <<external, source, outputs, lease, faults, restarts>>

\* The save interval has not passed, or there is nothing to save.
NotDue(r) ==
    /\ at[r] = "stored"
    /\ Goto(r, "trimming")
    /\ UNCHANGED <<external, source, outputs, lease, hand, faults, restarts>>

NoNewEvents(a) ==
    /\ at[a] = "logging"
    /\ hand[a].upto <= hand[a].from
    /\ Goto(a, "tabling")
    /\ UNCHANGED <<external, source, outputs, lease, hand, faults, restarts>>

\* The new version is published in one commit ...
PublishLog(a) ==
    /\ at[a] = "logging"
    /\ hand[a].from < hand[a].upto
    /\ log' = hand[a].log \o SubSeq(events, hand[a].from + 1, hand[a].upto)
    /\ Goto(a, "logged")
    /\ UNCHANGED <<external, source, logSaved, table, rows, applied, lease, hand, faults, restarts>>

\* ... and counts as saved in the next.
MarkLog(a) ==
    /\ at[a] = "logged"
    /\ logSaved' = hand[a].upto
    /\ Goto(a, "tabling")
    /\ UNCHANGED <<external, source, log, table, rows, applied, lease, hand, faults, restarts>>

ReadTable(a) ==
    /\ at[a] = "tabling"
    /\ table = "following"
    /\ hand' = [hand EXCEPT ![a].from = applied, ![a].log = <<>>, ![a].rows = rows]
    /\ Goto(a, "applying")
    /\ UNCHANGED <<external, source, outputs, lease, faults, restarts>>

NotFollowing(a) ==
    /\ at[a] = "tabling"
    /\ table # "following"
    /\ Drop(a)
    /\ Goto(a, IF a \in Person THEN "idle" ELSE "trimming")
    /\ UNCHANGED <<external, source, outputs, lease, faults, restarts>>

ApplyTable(a) ==
    /\ at[a] = "applying"
    /\ hand[a].from < hand[a].upto
    /\ rows' = After(hand[a].rows, SubSeq(events, hand[a].from + 1, hand[a].upto))
    /\ Goto(a, "tabled")
    /\ UNCHANGED <<external, source, log, logSaved, table, applied, lease, hand, faults, restarts>>

\* Without a change to apply only the mark moves.
MarkTable(a) ==
    /\ at[a] = "tabled" \/ (at[a] = "applying" /\ hand[a].upto <= hand[a].from)
    /\ applied' = hand[a].upto
    /\ Drop(a)
    /\ Goto(a, IF a \in Person THEN "idle" ELSE "trimming")
    /\ UNCHANGED <<external, source, log, logSaved, table, rows, lease, faults, restarts>>

\* Mutant: only the log's mark counts.
TrimmableByLog == logSaved

\* What every output has.
Trimmable == IF table = "following" /\ applied < logSaved THEN applied ELSE logSaved

\* Events older than the hours they are kept go; by then the source has been
\* told of them.
Trim(r) ==
    /\ at[r] = "trimming"
    /\ \E upto \in trimmed..Trimmable :
         /\ \A i \in (trimmed + 1)..upto : events[i] <= slot
         /\ trimmed' = upto
    /\ Goto(r, "releasing")
    /\ UNCHANGED <<external, cursor, events, outputs, lease, hand, faults, restarts>>

Release(r) ==
    /\ at[r] = "releasing"
    /\ lease' = IF lease.owner = r THEN [owner |-> NoOne, until |-> "none"] ELSE lease
    /\ Goto(r, "idle")
    /\ UNCHANGED <<external, source, outputs, hand, faults, restarts>>

-----------------------------------------------------------------------------
(* Failures, and a person who starts the source again.                     *)

\* An exception outside the first copy ends the pass or the request.
Fail(a) ==
    /\ at[a] \in {"storing", "logging", "logged", "tabling", "applying", "tabled"}
    /\ faults < MaxFaults
    /\ faults' = faults + 1
    /\ Drop(a)
    /\ Goto(a, IF a \in Person THEN "idle" ELSE "releasing")
    /\ UNCHANGED <<external, source, outputs, lease, restarts>>

\* The runner dies and another process takes its place.
Die(r) ==
    /\ at[r] # "idle"
    /\ at[r] \in {"copying", "copied", "linking"} => DiesCopying
    /\ faults < MaxFaults
    /\ faults' = faults + 1
    /\ Drop(r)
    /\ Goto(r, "idle")
    /\ UNCHANGED <<external, source, outputs, lease, restarts>>

\* What a pass does once it has stored what it read.
Saving == {"stored", "logging", "logged", "tabling", "applying", "tabled", "trimming"}

\* The slot is dropped; the next pass makes one and copies the table again.
StartAgain ==
    /\ restarts < MaxRestarts
    /\ ~SlowPass => \A a \in Actor : at[a] \in {"idle", "releasing"} \cup Saving
    /\ restarts' = restarts + 1
    /\ cursor' = FALSE
    /\ table' = "waiting"
    /\ UNCHANGED <<external, events, trimmed, log, logSaved, rows, applied, lease, at, hand, faults>>

PassStep(r) ==
    \/ TakePosition(r) \/ BeginCopy(r) \/ Copy(r) \/ PublishCopy(r) \/ LinkCopy(r)
    \/ Read(r) \/ Store(r) \/ Acknowledge(r) \/ NotDue(r) \/ Trim(r) \/ Release(r)

SaveStep(a) ==
    \/ NoNewEvents(a) \/ PublishLog(a) \/ MarkLog(a)
    \/ ReadTable(a) \/ NotFollowing(a) \/ ApplyTable(a) \/ MarkTable(a)

Next ==
    \/ \E k \in Key, gone \in BOOLEAN : Change(k, gone)
    \/ \E r \in Runner : Claim(r) \/ PassStep(r) \/ CopyFails(r) \/ AcknowledgeFails(r) \/ Die(r)
    \/ \E a \in Actor : SaveStart(a) \/ SaveStep(a) \/ Fail(a)
    \/ LeaseRunsOut
    \/ StartAgain

Spec == Init /\ [][Next]_vars

\* A live runner takes what is due and finishes its pass, a lease runs out in
\* the end, and the save interval passes again and again.
FairSpec ==
    /\ Spec
    /\ WF_vars(LeaseRunsOut)
    /\ WF_vars(\E r \in Runner : Claim(r))
    /\ \A r \in Runner : WF_vars(PassStep(r) \/ SaveStep(r)) /\ SF_vars(SaveStart(r))

-----------------------------------------------------------------------------
\* Everything that changed since the position was taken is stored and applied.
CaughtUp ==
    /\ cursor
    /\ table = "following"
    /\ (start + 1)..Len(changes) \subseteq ToSet(events)
    /\ applied = Len(events)

\* A table that has caught up is the table outside, row by row, whatever was
\* copied while it changed, read again or applied again after a death.
MirrorIsRight == CaughtUp => rows = TableNow

\* Every event that counts as saved is in the log dataset: what is trimmed
\* can still be found there (streams.py:25).
LogMissesNothing == \A i \in 1..logSaved : events[i] \in ToSet(log)

\* A change the source sends again is stored once.
StoredOnce == \A i, j \in DOMAIN events : events[i] = events[j] => i = j

\* No event is deleted that an output still needs.
NothingNeededIsTrimmed ==
    /\ trimmed <= logSaved
    /\ table = "following" => trimmed <= applied

\* Once the table stops changing, the log has every event and the dataset is
\* the table, though runners die and acknowledgements are lost.
EndsUpRight == <>[](CaughtUp /\ rows = TableNow /\ ToSet(events) \subseteq ToSet(log))

\* The change log is whole: nothing missing, nothing twice, and no change dropped that the
\* table or the log still has to take in (store_changes, trim).
LogSafety ==
    /\ TypeOK
    /\ LogMissesNothing
    /\ StoredOnce
    /\ NothingNeededIsTrimmed
=============================================================================
