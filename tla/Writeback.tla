----------------------------- MODULE Writeback ------------------------------
(***************************************************************************)
(* Edits to a table of an outside database (service_writeback): a change   *)
(* set is staged, rehearsed and committed in one transaction there, and    *)
(* its own row says so afterwards, in another database.  Requests overlap  *)
(* and die, and others change the table.                                   *)
(*                                                                         *)
(* One change set of one column.  A row is <<key, number>>: the number     *)
(* tells apart rows of one key, where the key is not enforced.             *)
(***************************************************************************)
EXTENDS Naturals, FiniteSets

CONSTANTS
    Key,
    Empty,        \* keys no row has at first
    Repeated,     \* keys that two rows have, where a person named the key
    Caller,
    MaxEdits,     \* edits staged
    MaxUpsets,    \* bound on requests that die and changes of others
    EditedMeanwhile  \* edits are staged or dropped while a commit is going on

ASSUME WritebackAssumption == MaxUpsets \in Nat

VARIABLES
    table,     \* [Row -> the cell, or "gone"]
    status,    \* ChangeSet.status
    edits,     \* the edits of the change set
    asked,     \* [Caller -> [at, edits, allow]]
    ran,       \* edits whose statements were committed outside
    wrote,     \* [Edit -> times the edit changed a row, up to 2; not counted for
               \* one that leaves out what it replaces]
    upsets

writebackVars == <<table, status, edits, asked, ran, wrote, upsets>>

Row == Key \X (1..2)

\* previous is what the person saw in the cell; an edit may leave it out.
Edit ==
    [kind : {"set"}, key : Key, previous : {"old", "theirs", "unread"}]
        \cup [kind : {"insert", "delete"}, key : Key, previous : {"unread"}]

Unasked == [at |-> "idle", edits |-> {}, allow |-> FALSE]
CommittingAt == {"rehearsed", "recording"}

WritebackTypeOK ==
    /\ table \in [Row -> {"gone", "old", "theirs", "new", "later"}]
    /\ status \in {"draft", "committed", "discarded"}
    /\ edits \subseteq Edit
    /\ asked \in [Caller -> [at : CommittingAt \cup {"idle", "staging", "dropping", "discarding"},
                              edits : SUBSET Edit, allow : BOOLEAN]]
    /\ \A q \in Caller : asked[q].at \in CommittingAt => asked[q].edits # {}
    /\ ran \subseteq Edit
    /\ wrote \in [Edit -> 0..2]
    /\ upsets \in 0..MaxUpsets
    /\ \A e, f \in edits : e.kind = f.kind /\ e.key = f.key => e = f

WritebackInit ==
    /\ table = [r \in Row |-> IF r[1] \in Empty \/ (r[2] = 2 /\ r[1] \notin Repeated)
                             THEN "gone" ELSE "old"]
    /\ status = "draft"
    /\ edits = {}
    /\ asked = [q \in Caller |-> Unasked]
    /\ ran = {}
    /\ wrote = [e \in Edit |-> 0]
    /\ upsets = 0

AskedAt(q, point) == asked[q].at = point
Step(q, point) == asked' = [asked EXCEPT ![q].at = point]
Answered(q) == asked' = [asked EXCEPT ![q] = Unasked]

IsDraft == status = "draft"

-----------------------------------------------------------------------------
(* What the statements of a change set do to the table.                    *)

RowsOf(k, t) == {r \in Row : r[1] = k /\ t[r] # "gone"}

\* Mutant: the cell is not compared.
HitByKey(e, t) == RowsOf(e.key, t)

\* WHERE the key is this and the cell still holds what was seen.
Hit(e, t) == {r \in RowsOf(e.key, t) : e.previous \in {"unread", t[r]}}

OfKind(E, kind) == {e \in E : e.kind = kind}

\* An enforced key refuses a second row.
InsertFails(E, t) == \E e \in OfKind(E, "insert") : RowsOf(e.key, t) # {}

Inserted(E, t) ==
    [r \in Row |-> IF r[2] = 1 /\ \E e \in OfKind(E, "insert") : e.key = r[1] THEN "new" ELSE t[r]]

\* Updates of one shape are one statement: those that look at the cell, and
\* those that do not.
Batches(E) ==
    {{e \in OfKind(E, "set") : e.previous = "unread"},
     {e \in OfKind(E, "set") : e.previous # "unread"}}

Affected(G, t) == UNION {Hit(e, t) : e \in G}

Updated(E, t) ==
    [r \in Row |-> IF r \in Affected(OfKind(E, "set"), t) THEN "new" ELSE t[r]]

Deleted(E, t) ==
    [r \in Row |-> IF \E e \in OfKind(E, "delete") : e.key = r[1] THEN "gone" ELSE t[r]]

AfterAll(E, t) == Deleted(E, Updated(E, Inserted(E, t)))

\* Mutant: only a statement that hits nothing surprises.
OnlyMisses(E, t) == \E G \in Batches(E) : G # {} /\ Affected(G, Inserted(E, t)) = {}

\* A statement's count of rows is not the one expected.
Surprised(E, t) ==
    LET t1 == Inserted(E, t)  t2 == Updated(E, t1) IN
    \/ \E G \in Batches(E) : Cardinality(Affected(G, t1)) # Cardinality(G)
    \/ \E e \in OfKind(E, "delete") : Cardinality(RowsOf(e.key, t2)) # 1

Counted(e) == e.kind # "set" \/ e.previous # "unread"

\* The edits that change a row.
Effective(E, t) ==
    LET t1 == Inserted(E, t)  t2 == Updated(E, t1) IN
    {e \in E : \/ e.kind = "insert"
               \/ e.kind = "set" /\ Hit(e, t1) # {}
               \/ e.kind = "delete" /\ RowsOf(e.key, t2) # {}}

-----------------------------------------------------------------------------
(* Staging and discarding: the draft is looked at, then the row changes.   *)

CommitGoesOn == \E q \in Caller : asked[q].at \in CommittingAt
EditGoesOn == \E q \in Caller : asked[q].at \in {"staging", "dropping", "discarding"}

Change(q, point) ==
    /\ AskedAt(q, "idle")
    /\ IsDraft
    /\ CommitGoesOn => EditedMeanwhile
    /\ Step(q, point)
    /\ UNCHANGED <<table, status, edits, ran, wrote, upsets>>

\* What a person can have seen in a cell; of two edits to one cell the last is
\* written.  One row inserted or deleted twice in a change set is left out.
Seen(k) == {"unread"} \cup ({table[r] : r \in RowsOf(k, table)} \cap {"old", "theirs"})

EditsWith(e) == {f \in edits : f.kind # e.kind \/ f.key # e.key} \cup {e}

AddEdit(q) ==
    /\ AskedAt(q, "staging")
    /\ \E e \in Edit :
         /\ e.kind = "set" => e.previous \in Seen(e.key)
         /\ e.kind = "insert" => Repeated = {}
         /\ edits' = EditsWith(e)
    /\ Cardinality(edits') <= MaxEdits
    /\ Answered(q)
    /\ UNCHANGED <<table, status, ran, wrote, upsets>>

RemoveEdit(q) ==
    /\ AskedAt(q, "dropping")
    /\ \E e \in edits : edits' = edits \ {e}
    /\ Answered(q)
    /\ UNCHANGED <<table, status, ran, wrote, upsets>>

Discard(q) ==
    /\ AskedAt(q, "discarding")
    /\ status' = "discarded"
    /\ Answered(q)
    /\ UNCHANGED <<table, edits, ran, wrote, upsets>>

-----------------------------------------------------------------------------
(* Committing.                                                             *)

\* The edits are compiled and rehearsed: nothing of it stays, and a change that
\* fails then, or that nobody confirms, ends there.
Rehearse(q, allow) ==
    /\ AskedAt(q, "idle")
    /\ IsDraft
    /\ edits # {}
    /\ ~InsertFails(edits, table)
    /\ EditGoesOn => EditedMeanwhile
    /\ asked' = [asked EXCEPT ![q] = [at |-> "rehearsed", edits |-> edits, allow |-> allow]]
    /\ UNCHANGED <<table, status, edits, ran, wrote, upsets>>

Refused(q) ==
    \/ InsertFails(asked[q].edits, table)
    \/ Surprised(asked[q].edits, table) /\ ~asked[q].allow

StatusAfterRefusal == status

CommitRefused(q) ==
    /\ AskedAt(q, "rehearsed")
    /\ Refused(q)
    /\ status' = StatusAfterRefusal
    /\ Answered(q)
    /\ UNCHANGED <<table, edits, ran, wrote, upsets>>

RunCommit(q) ==
    LET E == asked[q].edits IN
    /\ AskedAt(q, "rehearsed")
    /\ ~Refused(q)
    /\ table' = AfterAll(E, table)
    /\ ran' = ran \cup E
    /\ wrote' = [e \in Edit |-> IF e \in Effective(E, table) /\ Counted(e) /\ wrote[e] < 2
                                THEN wrote[e] + 1 ELSE wrote[e]]
    /\ Step(q, "recording")
    /\ UNCHANGED <<status, edits, upsets>>

RecordCommit(q) ==
    /\ AskedAt(q, "recording")
    /\ status' = "committed"
    /\ Answered(q)
    /\ UNCHANGED <<table, edits, ran, wrote, upsets>>

RequestIsLost(q) ==
    /\ ~AskedAt(q, "idle")
    /\ upsets < MaxUpsets
    /\ upsets' = upsets + 1
    /\ Answered(q)
    /\ UNCHANGED <<table, status, edits, ran, wrote>>

\* Others never write a value back that was there before.
Elsewhere ==
    /\ upsets < MaxUpsets
    /\ upsets' = upsets + 1
    /\ \E r \in Row :
         \/ table[r] = "old" /\ table' = [table EXCEPT ![r] = "theirs"]
         \/ table[r] = "new" /\ table' = [table EXCEPT ![r] = "later"]
         \/ table[r] \in {"old", "theirs"} /\ table' = [table EXCEPT ![r] = "gone"]
    /\ UNCHANGED <<status, edits, asked, ran, wrote>>

WritebackNext ==
    \/ Elsewhere
    \/ \E q \in Caller :
         \/ \E point \in {"staging", "dropping", "discarding"} : Change(q, point)
         \/ AddEdit(q) \/ RemoveEdit(q) \/ Discard(q)
         \/ \E allow \in BOOLEAN : Rehearse(q, allow)
         \/ CommitRefused(q) \/ RunCommit(q) \/ RecordCommit(q)
         \/ RequestIsLost(q)

WritebackSpec == WritebackInit /\ [][WritebackNext]_writebackVars

-----------------------------------------------------------------------------
\* A commit that accepts no conflicts replaces, for each cell edit, one row that
\* holds what the person saw: counting the rows of a batch is enough where the
\* key is enforced (compiler.py:180-183).
NothingWrittenOver ==
    [][\A q \in Caller :
          LET t1 == Inserted(asked[q].edits, table) IN
          RunCommit(q) /\ ~asked[q].allow =>
            \A e \in OfKind(asked[q].edits, "set") :
                Cardinality({r \in RowsOf(e.key, t1) :
                                e.previous = "unread" \/ t1[r] = e.previous}) = 1]_writebackVars

\* A change set is marked committed only when all of it was committed outside,
\* whatever dies between the two databases and is sent again.
CommittedIsApplied == status = "committed" => edits \subseteq ran

\* Committing again, after a lost answer or beside another request, does not
\* repeat an edit that says what it replaces, nor an insert or a delete unless
\* the same set does both to one row.
AppliedOnce ==
    \A e \in Edit :
        e.kind = "set" \/ (\A f \in ran : f.key = e.key => f.kind \in {e.kind, "set"})
            => wrote[e] <= 1

\* What holds of a change set at every moment: what is marked committed was run outside, and
\* no update or insertion took effect twice (commit_change_set).
WritebackSafety ==
    /\ WritebackTypeOK
    /\ CommittedIsApplied
    /\ AppliedOnce
=============================================================================
