------------------------------- MODULE CoEdit -------------------------------
(***************************************************************************)
(* Editing a recipe together: the shared copy on the server                *)
(* (service_transformations/coedit.py), the Studios that change it         *)
(* (apps/web/src/features/studio/use-recipe-editing.ts) and the saves that *)
(* keep it or start it again.                                              *)
(*                                                                         *)
(* A copy is a map of last-writer-wins registers: the name, and the        *)
(* position, removal and settings of every step.  A change writes one      *)
(* value to some of them (an added step has several) under one stamp.      *)
(* What a setting says is a number: the edit or the save that wrote it.    *)
(* An undo is a change like another.  Step types never change and ids are  *)
(* unique, so neither is here.                                             *)
(***************************************************************************)
EXTENDS Integers, Sequences, SequencesExt, FiniteSets, FiniteSetsExt

CONSTANTS
    Studio,       \* 1..n: stamps of equal counters compare by client
    Register,
    Saver,        \* requests that save the recipe
    KeepBatches,  \* how many batches the server keeps
    MaxEdits,     \* bound on the changes
    MaxEvents,    \* bound on changes, restarts, saves and faults together
    MaxRestarts,  \* bound on discards and on changes outside the Studio
    MaxSaves,     \* bound on saves from a Studio
    MaxFaults,    \* bound on sends whose answer never comes
    Asks,         \* how many of its regular polls a Studio can have under way
    Mishaps       \* what may happen that the code does not provide for

ASSUME CoEditAssumption ==
    /\ Studio \subseteq Nat \ {0}
    /\ Register # {}
    /\ {KeepBatches, Asks} \subseteq Nat \ {0}
    /\ {MaxEdits, MaxEvents, MaxRestarts, MaxSaves, MaxFaults} \subseteq Nat
    /\ Mishaps \subseteq {"edits before the first reply",
                      "the whole copy comes while changes are unsent",
                      "an older reply comes after a newer one",
                      "a send fails after a fresh start",
                      "saves overlap"}

VARIABLES
    shared,    \* RecipeSharedCopy: [epoch, seq, doc]
    batches,   \* RecipeEditBatch: {[seq, ops]}
    recipe,    \* TransformationPipeline: [revision, saved]
    studio,    \* [Studio -> [doc, pending, epoch (0: not asked yet), seq, clock, revision]]
    out,       \* [Studio -> the send under way: at, ops, epoch]
    poll,      \* [Studio -> [0..Asks -> the poll under way]]; 0 is the one after a refusal
    save,      \* [Saver -> the save under way]
    made,      \* history: every change, and the epoch it was made in
    restarts,
    saves,
    faults

server == <<shared, batches>>
browser == <<studio, out, poll>>
vars == <<server, recipe, browser, save, made, restarts, saves, faults>>

Value == 0..(MaxEdits + MaxRestarts)
Cell == [v : Value, c : 0..MaxEdits, by : Studio \cup {0}]
Doc == [Register -> Cell]
Change == [on : SUBSET Register, v : Value, c : 1..MaxEdits, by : Studio]
Quiet == [at |-> "none"]
Unsent == [at |-> "none", ops |-> <<>>, epoch |-> 0]
Idle == [at |-> "idle"]

TypeOK ==
    /\ shared \in [epoch : 1..(MaxRestarts + MaxSaves + 1), seq : Nat, doc : Doc]
    /\ \A b \in batches : b.seq \in 1..shared.seq /\ b.ops \in Seq(Change)
    /\ recipe \in [revision : Nat \ {0}, saved : [Register -> Value]]
    /\ \A s \in Studio :
         /\ studio[s] \in [doc : Doc, pending : Seq(Change), epoch : Nat, seq : Nat,
                           clock : 0..MaxEdits, revision : Nat \ {0}]
         /\ out[s].at \in {"none", "sent", "refused", "asking"}
         /\ out[s].ops \in Seq(Change)
         /\ \A i \in 0..Asks : poll[s][i].at \in {"none", "copy", "ready"}
    /\ \A q \in Saver : save[q].at \in {"idle", "asked", "read"}
    /\ restarts \in 0..MaxRestarts
    /\ saves \in 0..MaxSaves
    /\ faults \in 0..MaxFaults

-----------------------------------------------------------------------------
(* The merge.                                                              *)

\* Stamps are compared as pairs.
Newer(candidate, current) ==
    \/ candidate.c > current.c
    \/ candidate.c = current.c /\ candidate.by > current.by

ApplyOp(doc, op) ==
    [r \in Register |-> IF r \in op.on /\ Newer(op, doc[r])
                        THEN [v |-> op.v, c |-> op.c, by |-> op.by] ELSE doc[r]]

\* One after the other.
ApplyOps(doc, ops) ==
    LET after[i \in 0..Len(ops)] == IF i = 0 THEN doc ELSE ApplyOp(after[i - 1], ops[i]) IN
    after[Len(ops)]

\* A copy of what is saved, stamped before any change.
Seed(saved) == [r \in Register |-> [v |-> saved[r], c |-> 0, by |-> 0]]

\* What a copy shows.
Materialise(doc) == [r \in Register |-> doc[r].v]

MaxCounter(doc) == Max({doc[r].c : r \in Register})
Latest(clock, counters) == Max({clock} \cup counters)

Blank == [r \in Register |-> 0]

MoreToCome == Cardinality(made) + restarts + saves + faults < MaxEvents

\* Every Studio's page has opened with the copy; where a person may edit
\* before the first poll, it has not yet asked.
EditsEarly == "edits before the first reply" \in Mishaps

Init ==
    /\ shared = [epoch |-> 1, seq |-> 0, doc |-> Seed(Blank)]
    /\ batches = {}
    /\ recipe = [revision |-> 1, saved |-> Blank]
    /\ studio = [s \in Studio |-> [doc |-> Seed(Blank), pending |-> <<>>, seq |-> 0,
                                   epoch |-> IF EditsEarly THEN 0 ELSE 1, clock |-> 0, revision |-> 1]]
    /\ out = [s \in Studio |-> Unsent]
    /\ poll = [s \in Studio |-> [i \in 0..Asks |-> Quiet]]
    /\ save = [q \in Saver |-> Idle]
    /\ made = {}
    /\ restarts = 0
    /\ saves = 0
    /\ faults = 0

-----------------------------------------------------------------------------
(* A Studio: an edit is applied at once and sent later.                    *)

\* The page opened in the first epoch.
Edit(s, on) ==
    LET op == [on |-> on, v |-> Cardinality(made) + 1, c |-> studio[s].clock + 1, by |-> s] IN
    /\ Cardinality(made) < MaxEdits /\ MoreToCome
    /\ studio' = [studio EXCEPT ![s].doc = ApplyOp(@, op), ![s].clock = @ + 1,
                                ![s].pending = Append(@, op)]
    /\ made' = made \cup {[op |-> op, epoch |-> Latest(1, {studio[s].epoch})]}
    /\ UNCHANGED <<server, recipe, out, poll, save, restarts, saves, faults>>

Send(s) ==
    /\ out[s].at = "none"
    /\ studio[s].pending # <<>>
    /\ studio[s].epoch # 0
    /\ out' = [out EXCEPT ![s] = [at |-> "sent", ops |-> studio[s].pending,
                                  epoch |-> studio[s].epoch]]
    /\ studio' = [studio EXCEPT ![s].pending = <<>>]
    /\ UNCHANGED <<server, recipe, poll, save, made, restarts, saves, faults>>

SameEpoch(s) == out[s].epoch = shared.epoch

\* Under the copy's lock; batches older than the ones kept go.
MergeAtServer(s) ==
    /\ out[s].at = "sent"
    /\ SameEpoch(s)
    /\ shared' = [shared EXCEPT !.doc = ApplyOps(@, out[s].ops), !.seq = @ + 1]
    /\ batches' = {b \in batches \cup {[seq |-> shared.seq + 1, ops |-> out[s].ops]} :
                     b.seq > shared.seq + 1 - KeepBatches}
    /\ out' = [out EXCEPT ![s] = Unsent]

Push(s) ==
    /\ MergeAtServer(s)
    /\ UNCHANGED <<recipe, studio, poll, save, made, restarts, saves, faults>>

Refuse(s) ==
    /\ out[s].at = "sent"
    /\ ~SameEpoch(s)
    /\ out' = [out EXCEPT ![s].at = "refused"]
    /\ UNCHANGED <<server, recipe, studio, poll, save, made, restarts, saves, faults>>

\* Mutant: what was not delivered is forgotten.
Forgotten(ops, pending) == pending

\* They go again with the next changes.
Resent(ops, pending) == ops \o pending

\* The request is lost.
NotDelivered(s) ==
    /\ out[s].at = "sent"
    /\ "a send fails after a fresh start" \in Mishaps \/ out[s].epoch = studio[s].epoch
    /\ faults < MaxFaults /\ MoreToCome
    /\ faults' = faults + 1
    /\ studio' = [studio EXCEPT ![s].pending = Resent(out[s].ops, @)]
    /\ out' = [out EXCEPT ![s] = Unsent]
    /\ UNCHANGED <<server, recipe, poll, save, made, restarts, saves>>

\* The changes are merged and the answer is lost.
NotAnswered(s) ==
    /\ faults < MaxFaults /\ MoreToCome
    /\ faults' = faults + 1
    /\ MergeAtServer(s)
    /\ studio' = [studio EXCEPT ![s].pending = Resent(out[s].ops, @)]
    /\ UNCHANGED <<recipe, poll, save, made, restarts, saves>>

-----------------------------------------------------------------------------
(* A poll: the server reads the copy, then the batches; the Studio adopts  *)
(* what it is told.                                                        *)

\* Mutant: the end of the poll after a refusal does not end the send.
StillSending(s, i) == out

\* A refused send ends when the poll it leads to does.
AfterPoll(s, i) == IF i = 0 THEN [out EXCEPT ![s] = Unsent] ELSE out

\* What the server reads of the copy; a poll from another epoch, and one that
\* names none, gets the whole of it.
Ask(s, i, named) ==
    /\ poll[s][i].at = "none"
    /\ poll' = [poll EXCEPT ![s][i] =
         [at |-> IF named = shared.epoch THEN "copy" ELSE "ready",
          full |-> named # shared.epoch,
          epoch |-> shared.epoch, seq |-> shared.seq, doc |-> shared.doc,
          ops |-> <<>>, after |-> studio[s].seq,
          revision |-> IF studio[s].revision = recipe.revision THEN 0 ELSE recipe.revision]]

AskRegularly(s, i) ==
    /\ i # 0
    /\ Ask(s, i, studio[s].epoch)
    /\ UNCHANGED <<server, recipe, studio, out, save, made, restarts, saves, faults>>

AskAfterRefusal(s) ==
    /\ out[s].at = "refused"
    /\ Ask(s, 0, 0)
    /\ out' = [out EXCEPT ![s] = [Unsent EXCEPT !.at = "asking"]]
    /\ UNCHANGED <<server, recipe, studio, save, made, restarts, saves, faults>>

\* Mutant: the oldest batch that is kept is not looked at.
NothingIsMissing(p) == FALSE

\* What it missed is no longer kept.
NotKept(p) == p.after < p.seq /\ \A b \in batches : b.seq > p.after + 1

\* The batches it missed, in order.
OpsAfter(seq) ==
    LET missed(n) == {b \in batches : b.seq = n /\ n > seq}
        upto[n \in 0..shared.seq] ==
            IF n = 0 THEN <<>>
            ELSE IF missed(n) = {} THEN upto[n - 1]
            ELSE upto[n - 1] \o (CHOOSE b \in missed(n) : TRUE).ops IN
    upto[shared.seq]

\* A reply with nothing new in it changes nothing and ends here.
Reply(p) ==
    IF NotKept(p) THEN [p EXCEPT !.at = "ready", !.full = TRUE, !.after = 0]
    ELSE IF p.after = p.seq /\ OpsAfter(p.after) = <<>> /\ p.revision = 0 THEN Quiet
    ELSE [p EXCEPT !.at = "ready", !.doc = Seed(Blank), !.after = 0, !.ops = OpsAfter(p.after)]

ReadBatches(s, i) ==
    /\ poll[s][i].at = "copy"
    /\ poll' = [poll EXCEPT ![s][i] = Reply(@)]
    /\ UNCHANGED <<server, recipe, studio, out, save, made, restarts, saves, faults>>

\* Mutant: a clock looks only at whole copies.
ObservedIn(p) == IF p.full THEN {MaxCounter(p.doc)} ELSE {}

\* The counters a reply shows.
Observed(p) == IF p.full THEN {MaxCounter(p.doc)} ELSE {p.ops[j].c : j \in DOMAIN p.ops}

\* The Studio has adopted a later state of the copy meanwhile.
Overtaken(s, i) ==
    \/ poll[s][i].epoch < studio[s].epoch
    \/ poll[s][i].epoch = studio[s].epoch /\ poll[s][i].seq < studio[s].seq

\* A whole copy of the epoch the Studio's unsent changes were made in.
WouldErase(s, i) ==
    /\ poll[s][i].full
    /\ poll[s][i].epoch = studio[s].epoch
    /\ studio[s].pending # <<>>

\* Its own unsent changes stay on top of the batches; a whole copy replaces
\* everything it has.
Adopt(s, i) ==
    LET p == poll[s][i]
        mine == studio[s] IN
    /\ p.at = "ready"
    /\ "an older reply comes after a newer one" \in Mishaps \/ ~Overtaken(s, i)
    /\ "the whole copy comes while changes are unsent" \in Mishaps \/ ~WouldErase(s, i)
    /\ studio' = [studio EXCEPT ![s] =
         [doc |-> IF p.full THEN p.doc ELSE ApplyOps(ApplyOps(mine.doc, p.ops), mine.pending),
          pending |-> IF p.full THEN <<>> ELSE mine.pending,
          epoch |-> p.epoch,
          seq |-> p.seq,
          clock |-> Latest(mine.clock, Observed(p)),
          revision |-> IF p.revision # 0 THEN p.revision ELSE mine.revision]]
    /\ poll' = [poll EXCEPT ![s][i] = Quiet]
    /\ out' = AfterPoll(s, i)
    /\ UNCHANGED <<server, recipe, save, made, restarts, saves, faults>>

\* The poll fails.  Where the mishaps do not happen, a reply that would be one
\* never comes.
PollFails(s, i) ==
    /\ poll[s][i].at # "none"
    /\ \/ Overtaken(s, i) \/ WouldErase(s, i)
       \/ faults < MaxFaults /\ MoreToCome
    /\ faults' = IF Overtaken(s, i) \/ WouldErase(s, i) THEN faults ELSE faults + 1
    /\ poll' = [poll EXCEPT ![s][i] = Quiet]
    /\ out' = AfterPoll(s, i)
    /\ UNCHANGED <<server, recipe, studio, save, made, restarts, saves>>

-----------------------------------------------------------------------------
(* Saves, changes outside the Studio, and discards.                        *)

Alone == "saves overlap" \in Mishaps \/ \A q \in Saver : save[q].at # "read"

SaveAsk(q, s) ==
    /\ save[q].at = "idle"
    /\ saves < MaxSaves /\ MoreToCome
    /\ studio[s].epoch # 0
    /\ saves' = saves + 1
    /\ save' = [save EXCEPT ![q] =
         [at |-> "asked", by |-> s, new |-> Materialise(studio[s].doc),
          from |-> studio[s].epoch, expected |-> studio[s].revision]]
    /\ UNCHANGED <<server, recipe, browser, made, restarts, faults>>

CheckSave(q) == save[q].expected \in {0, recipe.revision}

SaveRefused(q) ==
    /\ save[q].at = "asked"
    /\ ~CheckSave(q)
    /\ save' = [save EXCEPT ![q] = Idle]
    /\ UNCHANGED <<server, recipe, browser, made, restarts, saves, faults>>

\* The revision and the epoch are read without a lock.
Reading(by, new, from, expected) ==
    [at |-> "read", by |-> by, new |-> new, expected |-> expected, seq |-> shared.seq,
     epoch |-> shared.epoch, keeps |-> from = shared.epoch, revision |-> recipe.revision]

SaveRead(q) ==
    /\ save[q].at = "asked"
    /\ CheckSave(q)
    /\ Alone
    /\ save' = [save EXCEPT ![q] = Reading(@.by, @.new, @.from, @.expected)]
    /\ UNCHANGED <<server, recipe, browser, made, restarts, saves, faults>>

\* A restored version, a merged branch or the API: it expects no revision and
\* comes from no epoch.
ChangeOutside(q, r) ==
    /\ save[q].at = "idle"
    /\ Alone
    /\ restarts < MaxRestarts /\ MoreToCome
    /\ restarts' = restarts + 1
    /\ save' = [save EXCEPT ![q] =
         Reading(0, [recipe.saved EXCEPT ![r] = MaxEdits + restarts + 1], 0, 0)]
    /\ UNCHANGED <<server, recipe, browser, made, saves, faults>>

\* The Studio's own save keeps the copy; another starts it again.
CopyAfter(q) ==
    IF save[q].keeps THEN shared
    ELSE [shared EXCEPT !.epoch = save[q].epoch + 1, !.doc = Seed(save[q].new)]

\* A batch that came after the deletion stays.
BatchesAfter(q) == IF save[q].keeps THEN batches ELSE {b \in batches : b.seq > save[q].seq}

SaveWrite(q) ==
    LET changed == save[q].new # recipe.saved IN
    /\ save[q].at = "read"
    /\ recipe' = IF changed THEN [revision |-> save[q].revision + 1, saved |-> save[q].new]
                 ELSE recipe
    /\ shared' = IF changed THEN CopyAfter(q) ELSE shared
    /\ batches' = IF changed THEN BatchesAfter(q) ELSE batches
    /\ studio' = IF save[q].by = 0 THEN studio
                 ELSE [studio EXCEPT ![save[q].by].revision = recipe'.revision]
    /\ save' = [save EXCEPT ![q] = Idle]
    /\ UNCHANGED <<out, poll, made, restarts, saves, faults>>

\* Under the copy's lock, for everyone.
DiscardUnsaved ==
    /\ restarts < MaxRestarts /\ MoreToCome
    /\ Alone
    /\ restarts' = restarts + 1
    /\ shared' = [shared EXCEPT !.epoch = @ + 1, !.doc = Seed(recipe.saved)]
    /\ batches' = {}
    /\ UNCHANGED <<recipe, browser, save, made, saves, faults>>

PollStep(s, i) == AskRegularly(s, i) \/ ReadBatches(s, i) \/ Adopt(s, i) \/ PollFails(s, i)
SendStep(s) == Send(s) \/ Push(s) \/ Refuse(s) \/ AskAfterRefusal(s)
SaveStep(q) == SaveRefused(q) \/ SaveRead(q) \/ SaveWrite(q)

Next ==
    \/ \E s \in Studio, i \in 0..Asks : PollStep(s, i)
    \/ \E s \in Studio : SendStep(s) \/ NotDelivered(s) \/ NotAnswered(s)
    \/ \E s \in Studio, on \in (SUBSET Register) \ {{}} : Edit(s, on)
    \/ \E q \in Saver : SaveStep(q)
    \/ \E q \in Saver, s \in Studio : SaveAsk(q, s)
    \/ \E q \in Saver, r \in Register : ChangeOutside(q, r)
    \/ DiscardUnsaved

Spec == Init /\ [][Next]_vars

\* A Studio in view polls and sends on timers; a request ends.
FairSpec ==
    /\ Spec
    /\ \A s \in Studio : WF_vars(SendStep(s)) /\ \A i \in 0..Asks : WF_vars(PollStep(s, i))
    /\ \A q \in Saver : WF_vars(SaveStep(q))

-----------------------------------------------------------------------------
\* A Studio that has asked since the last change, with nothing on its way.
UpToDate(s) ==
    /\ studio[s].epoch = shared.epoch
    /\ studio[s].seq = shared.seq
    /\ studio[s].pending = <<>>
    /\ out[s].at = "none"

\* A Studio that is up to date shows the shared copy, whatever the order in
\* which changes, replies, losses and fresh starts came (coedit.py:3-5).
EveryoneAgrees == \A s \in Studio : UpToDate(s) => studio[s].doc = shared.doc

\* A change made in the epoch of the copy is on its way, or it is merged or
\* replaced by a later one: nobody's work is written over (coedit.py:5).
NobodysWorkIsLost ==
    \A m \in made : m.epoch = shared.epoch =>
        \/ m.op \in ToSet(studio[m.op.by].pending) \cup ToSet(out[m.op.by].ops)
        \/ \A r \in m.op.on : ~Newer(m.op, shared.doc[r])

\* Where nobody changed it in this epoch, the copy says what is saved.
CopyStartsFromTheRecipe ==
    \A r \in Register : (\A m \in made : m.epoch = shared.epoch => r \notin m.op.on) =>
        shared.doc[r].v = recipe.saved[r]

\* "A save that names the revision it started from is refused when someone saved since,
\* rather than written over their changes" (service.py:176-177): a save replaces the
\* revision it expected and no other, and every save is a revision of its own.
NoSaveOverAnother ==
    [][recipe' # recipe =>
         /\ recipe'.revision > recipe.revision
         /\ \A q \in Saver : save'[q] # save[q] => save[q].expected \in {0, recipe.revision}]_vars

\* An edit shows at once where it is made: its stamp is past everything the
\* Studio has seen, whichever way that came.
EditsShowAtOnce ==
    [][\A m \in made' \ made : \A r \in m.op.on : studio'[m.op.by].doc[r].v = m.op.v]_vars

\* Once the edits and the restarts are over, everyone ends up with the copy.
EveryoneCatchesUp == <>[](\A s \in Studio : UpToDate(s) /\ studio[s].doc = shared.doc)

\* There is one shared copy: every Studio that has everything shows the same recipe, and a
\* fresh copy is the saved recipe (push_changes, start_again).
CopySafety ==
    /\ TypeOK
    /\ EveryoneAgrees
    /\ CopyStartsFromTheRecipe
=============================================================================
