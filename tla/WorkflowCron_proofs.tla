------------------------ MODULE WorkflowCron_proofs -------------------------
(***************************************************************************)
(* What a single worker's ticks keep, for every number of workflows,       *)
(* edits and deaths, every horizon and every calendar: CronSafety.         *)
(*                                                                         *)
(* A slot is queued from a row the tick has loaded, and the row is moved   *)
(* on before that.  So the invariant follows what may still be queued: a   *)
(* slot the row shows or has ahead of it, a slot the tick has loaded, and  *)
(* a slot the rows still to be read may come to show was never queued, or  *)
(* fewer times than schedules were edited.                                 *)
(***************************************************************************)
EXTENDS WorkflowCron, FiniteSetTheorems, SequenceTheorems, WellFoundedInduction, TLAPS

-----------------------------------------------------------------------------
(* The calendar.                                                           *)

\* A set of instants has an earliest one.
LEMMA EarliestInstant ==
    ASSUME NEW S \in SUBSET Nat, S # {}
    PROVE  \E s \in S : \A q \in S : s <= q
<1> DEFINE R == OpToRel(<, Nat)
<1>1. IsWellFoundedOn(R, Nat)
  BY NatLessThanWellFounded
<1>2. \A x, y \in Nat : y < x => <<y, x>> \in R
  BY DEF OpToRel
<1> HIDE DEF R
<1>3. PICK s \in S : \A q \in S : ~ (<<q, s>> \in R)
  BY <1>1, WFMin
<1>4. \A q \in S : ~ (q < s)
  BY <1>2, <1>3
<1> QED BY <1>4

\* compute_next_run_after_utc: an instant strictly after t, or one the clock
\* does not reach.
LEMMA SlotAfterIsLater ==
    ASSUME NEW e \in Expression, NEW t \in Nat
    PROVE  /\ SlotAfter(e, t) \in Slot
           /\ SlotAfter(e, t) <= Horizon => SlotAfter(e, t) > t
<1> DEFINE Later == {s \in SlotsOf[e] : s > t}
<1>1. SlotsOf[e] \subseteq Slot /\ Beyond \in Slot /\ SlotsOf[e] \subseteq Nat
  BY CalendarAssumption DEF Slot, Beyond
<1>2. CASE Later = {}
  <2>1. SlotAfter(e, t) = Beyond
    BY <1>2 DEF SlotAfter
  <2> QED BY <1>1, <2>1, CalendarAssumption DEF Beyond
<1>3. CASE Later # {}
  <2>1. PICK s \in Later : \A q \in Later : s <= q
    BY <1>1, <1>3, EarliestInstant
  <2>2. \E x \in SlotsOf[e] : x > t /\ \A q \in SlotsOf[e] : q > t => x <= q
    BY <2>1
  <2> QED BY <1>1, <2>1, <2>2 DEF SlotAfter
<1> QED BY <1>2, <1>3

\* What the constants say of the instants.
LEMMA Instants ==
    /\ Horizon \in Nat /\ NoSlot \notin Nat
    /\ Slot \subseteq Nat /\ 0 .. Horizon \subseteq Slot
    /\ Slot = 0 .. Horizon + 1 /\ NoSlot \notin Slot
BY CalendarAssumption DEF Slot, Beyond

\* apply_schedule: an edited row is a row, and shows an instant still to come.
LEMMA AppliedIsAhead ==
    ASSUME NEW r \in Row, NEW t \in Nat
    PROVE  /\ Applied(r, t) \in Row
           /\ Applied(r, t).next # NoSlot /\ Applied(r, t).next <= Horizon
              => Applied(r, t).next > t
<1>1. /\ SlotAfter(r.expression, t) \in Slot
      /\ SlotAfter(r.expression, t) <= Horizon => SlotAfter(r.expression, t) > t
  BY SlotAfterIsLater DEF Row
<1> QED BY <1>1 DEF Applied, Row

\* advance_after_fire: the row moves on, past what it showed or past the
\* instant of the tick.
LEMMA FollowingIsAhead ==
    ASSUME NEW r \in Row, NEW t \in Nat
    PROVE  /\ Following(r, t) \in Slot \cup {NoSlot}
           /\ Following(r, t) # NoSlot /\ Following(r, t) <= Horizon
              => Following(r, t) > (IF r.next = NoSlot THEN t ELSE r.next)
<1> DEFINE anchor == IF r.next = NoSlot THEN t ELSE r.next
           from == IF anchor > t THEN anchor ELSE t
<1>1. anchor \in Nat /\ from \in Nat /\ from >= anchor
  BY Instants DEF Row
<1>2. r.expression \in Expression
  BY DEF Row
<1> HIDE DEF anchor, from
<1>3. SlotAfter(r.expression, from) \in Slot
      /\ (SlotAfter(r.expression, from) <= Horizon => SlotAfter(r.expression, from) > from)
  BY <1>1, <1>2, SlotAfterIsLater
<1>4. SlotAfter(r.expression, from) \in Nat
  BY <1>3, Instants
<1>5. SlotAfter(r.expression, from) <= Horizon => SlotAfter(r.expression, from) > anchor
  BY <1>1, <1>3, <1>4
<1>6. Following(r, t) = NoSlot \/ Following(r, t) = SlotAfter(r.expression, from)
  BY DEF Following, anchor, from
<1> QED BY <1>3, <1>5, <1>6 DEF anchor

-----------------------------------------------------------------------------
(* The inductive invariant.                                                *)

\* Queueing the slot once more leaves the promise intact.
MayQueue(f, s) == fired[f][s] = 0 \/ fired[f][s] < edits

\* One more edit is needed before it may be queued once more.
Kept(f, s) == fired[f][s] = 0 \/ fired[f][s] <= edits

\* An edit of a schedule may bring back any slot still to come.
AheadIsKept == \A f \in Workflow, s \in 0 .. Horizon : s > now => Kept(f, s)

\* The slots a row shows or has ahead of it.
ShownMayQueue ==
    \A f \in Workflow, s \in 0 .. Horizon :
        row[f].next # NoSlot /\ row[f].next <= s => MayQueue(f, s)

\* A workflow the tick has yet to read again: as the due query found it, or
\* edited since.
StillDue(w, f) ==
    \/ /\ row[f].next # NoSlot /\ row[f].next <= moment[w]
       /\ \A s \in 0 .. Horizon : s > moment[w] => Kept(f, s)
    \/ /\ edits > 0
       /\ \A s \in 0 .. Horizon : s > moment[w] => MayQueue(f, s)

\* What the tick has loaded of workflow f: the slots it may still queue or
\* move the row to, and that the row has been moved past the slot, unless an
\* edit has moved it since.
LoadedRow(w, f) ==
    /\ seen[w] \in Row
    /\ \A s \in 0 .. Horizon :
         s >= (IF seen[w].next = NoSlot THEN moment[w] + 1 ELSE seen[w].next) => MayQueue(f, s)
    /\ edits = 0 => seen[w].next # NoSlot /\ seen[w].next <= now

MovedPast(w, f) ==
    seen[w].next \in 0 .. Horizon /\ row[f].next # NoSlot /\ row[f].next <= seen[w].next
        => fired[f][seen[w].next] + 1 < edits

\* A tick in hand.
TickGoesOn(w) ==
    /\ todo[w] # <<>>
    /\ moment[w] <= now
    /\ \A i, j \in DOMAIN todo[w] : todo[w][i] = todo[w][j] => i = j
    /\ \A i \in DOMAIN todo[w] : i > 1 \/ pc[w] = "loading" => StillDue(w, todo[w][i])
    /\ pc[w] # "loading" => LoadedRow(w, todo[w][1])
    /\ pc[w] = "queueing" => MovedPast(w, todo[w][1])

CronInv ==
    /\ CronSafety
    /\ AheadIsKept
    /\ ShownMayQueue
    /\ \A w \in Worker : pc[w] # "idle" => TickGoesOn(w)

-----------------------------------------------------------------------------
(* The type invariant.                                                     *)

\* The due workflows in their order: each once.
LEMMA OrderOfDue ==
    ASSUME NEW due \in SUBSET Workflow, due # {},
           NEW order \in [1 .. Cardinality(due) -> due]
    PROVE  /\ order \in Seq(Workflow) /\ order # <<>> /\ 1 \in DOMAIN order
           /\ DOMAIN order = 1 .. Len(order)
<1>1. IsFiniteSet(due)
  BY CronAssumption, FS_Subset
<1>2. Cardinality(due) \in Nat /\ Cardinality(due) # 0
  BY <1>1, FS_CardinalityType, FS_EmptySet
<1> QED BY <1>2

\* A tick's list when its first workflow is done.
LEMMA OneFewer ==
    ASSUME NEW s \in Seq(Workflow), Len(s) > 1
    PROVE  /\ Tail(s) \in Seq(Workflow) /\ Tail(s) # <<>>
           /\ DOMAIN Tail(s) = 1 .. Len(s) - 1
           /\ \A i \in DOMAIN Tail(s) :
                i + 1 \in DOMAIN s /\ i + 1 > 1 /\ Tail(s)[i] = s[i + 1]
<1>1. Len(s) \in Nat /\ DOMAIN s = 1 .. Len(s) /\ s # <<>>
  OBVIOUS
<1>2. /\ Tail(s) \in Seq(Workflow) /\ Len(Tail(s)) = Len(s) - 1
      /\ \A i \in 1 .. Len(Tail(s)) : Tail(s)[i] = s[i + 1]
  BY <1>1, HeadTailProperties
<1>3. DOMAIN Tail(s) = 1 .. Len(Tail(s)) /\ Tail(s) # <<>>
  <2>1. DOMAIN Tail(s) = 1 .. Len(Tail(s))
    BY <1>2, LenProperties
  <2>2. Len(Tail(s)) # 0
    BY <1>1, <1>2
  <2> QED BY <2>1, <2>2, EmptySeq
<1>4. DOMAIN Tail(s) = 1 .. Len(s) - 1
  BY <1>2, <1>3
<1> QED BY <1>1, <1>2, <1>3, <1>4

-----------------------------------------------------------------------------
(* Every step keeps the invariant.                                         *)

\* Time passes: what is still to come only gets less.
LEMMA ClockKeeps == ASSUME CronInv, Clock PROVE CronInv'
<1>1. now' = now + 1 /\ now \in Nat /\ now' \in 0 .. Horizon
  BY CalendarAssumption DEF CronInv, CronSafety, TypeOK, Clock
<1>2. /\ row' = row /\ fired' = fired /\ pc' = pc /\ moment' = moment
      /\ todo' = todo /\ seen' = seen /\ edits' = edits /\ crashes' = crashes
  BY DEF Clock
<1>3. \A n \in Nat : (n > now' => n > now) /\ (n <= now => n <= now')
  BY <1>1
<1>4. Slot \subseteq Nat /\ 0 .. Horizon \subseteq Nat /\ NoSlot \notin Nat
  BY Instants
<1>5. CronSafety'
  <2>1. TypeOK'
    BY <1>1, <1>2 DEF CronInv, CronSafety, TypeOK
  <2>2. RepeatsNeedEdits'
    BY <1>2 DEF CronInv, CronSafety, RepeatsNeedEdits
  <2>3. NotBeforeItsTime'
    BY <1>2, <1>3, <1>4 DEF CronInv, CronSafety, NotBeforeItsTime
  <2> QED BY <2>1, <2>2, <2>3 DEF CronSafety
<1>6. AheadIsKept'
  BY <1>2, <1>3, <1>4 DEF CronInv, AheadIsKept, Kept
<1>7. ShownMayQueue'
  BY <1>2 DEF CronInv, ShownMayQueue, MayQueue
<1>8. ASSUME NEW w \in Worker, pc'[w] # "idle" PROVE TickGoesOn(w)'
  <2>1. TickGoesOn(w)
    BY <1>2, <1>8 DEF CronInv
  <2>2. moment[w] \in Nat
    BY <1>4 DEF CronInv, CronSafety, TypeOK
  <2>3. \A f \in Workflow : StillDue(w, f) => StillDue(w, f)'
    BY <1>2 DEF StillDue, Kept, MayQueue
  <2>4. \A f \in Workflow : LoadedRow(w, f) => LoadedRow(w, f)'
    BY <1>2, <1>3, <1>4, Instants DEF LoadedRow, MayQueue, Row
  <2>5. \A f \in Workflow : MovedPast(w, f) => MovedPast(w, f)'
    BY <1>2 DEF MovedPast
  <2>6. \A i \in DOMAIN todo[w] : todo[w][i] \in Workflow
    BY DEF CronInv, CronSafety, TypeOK
  <2>7. 1 \in DOMAIN todo[w]
    BY <2>1 DEF CronInv, CronSafety, TypeOK, TickGoesOn
  <2> QED BY <1>1, <1>2, <1>3, <2>1, <2>2, <2>3, <2>4, <2>5, <2>6, <2>7 DEF TickGoesOn
<1> QED BY <1>5, <1>6, <1>7, <1>8 DEF CronInv

\* A person edits a schedule: its row shows an instant to come, which may be
\* queued once more for this edit.
LEMMA EditKeeps ==
    ASSUME CronInv, NEW f \in Workflow, NEW enabled \in BOOLEAN,
           NEW trigger \in {"cron", "manual"}, NEW e \in Expression,
           Edit(f, enabled, trigger, e)
    PROVE  CronInv'
<1> DEFINE r == [row[f] EXCEPT !.enabled = enabled, !.trigger = trigger, !.expression = e]
           a == Applied(r, now)
<1>0. TypeOK /\ now \in Nat /\ edits \in Nat
  BY CalendarAssumption DEF CronInv, CronSafety, TypeOK
<1>1. /\ now' = now /\ fired' = fired /\ pc' = pc /\ moment' = moment
      /\ todo' = todo /\ seen' = seen /\ crashes' = crashes /\ edits' = edits + 1
      /\ row' = [row EXCEPT ![f] = a]
  BY DEF Edit
<1>2. a \in Row /\ (a.next # NoSlot /\ a.next <= Horizon => a.next > now)
  <2>1. row[f] \in Row
    BY <1>0 DEF TypeOK
  <2>2. r \in Row
    BY <2>1 DEF Row
  <2> QED BY <1>0, <2>2, AppliedIsAhead
<1> HIDE DEF a
<1>3. row'[f] = a /\ \A g \in Workflow \ {f} : row'[g] = row[g]
  BY <1>0, <1>1 DEF TypeOK
<1>4. Slot \subseteq Nat /\ 0 .. Horizon \subseteq Slot /\ NoSlot \notin Nat
  BY Instants
<1>5. \A g \in Workflow, s \in 0 .. Horizon :
        /\ fired[g][s] \in Nat
        /\ Kept(g, s) => Kept(g, s)' /\ MayQueue(g, s)'
        /\ MayQueue(g, s) => MayQueue(g, s)' /\ Kept(g, s)
        /\ MayQueue(g, s) => fired[g][s] + 1 < edits' \/ edits = 0
  <2> TAKE g \in Workflow, s \in 0 .. Horizon
  <2>1. fired[g][s] \in Nat
    <3>1. fired \in [Workflow -> [Slot -> Nat]] /\ s \in Slot
      BY <1>0, <1>4 DEF TypeOK
    <3> QED BY <3>1
  <2>2. fired'[g][s] = fired[g][s] /\ edits' = edits + 1
    BY <1>1
  <2> QED BY <1>0, <2>1, <2>2 DEF Kept, MayQueue
<1>6. CronSafety'
  <2>1. row' \in [Workflow -> Row] /\ edits' \in Nat
    BY <1>0, <1>1, <1>2 DEF TypeOK
  <2>2. TypeOK'
    BY <1>0, <1>1, <2>1 DEF TypeOK
  <2>3. RepeatsNeedEdits'
    BY <1>0, <1>1, <1>5 DEF CronInv, CronSafety, RepeatsNeedEdits
  <2>4. NotBeforeItsTime'
    BY <1>0, <1>1 DEF NotBeforeItsTime
  <2> QED BY <2>2, <2>3, <2>4 DEF CronSafety
<1>7. AheadIsKept'
  BY <1>1, <1>5 DEF CronInv, AheadIsKept
<1>8. ShownMayQueue'
  <2> SUFFICES ASSUME NEW g \in Workflow, NEW s \in 0 .. Horizon,
                      row'[g].next # NoSlot, row'[g].next <= s
               PROVE  MayQueue(g, s)'
    BY DEF ShownMayQueue
  <2>1. CASE g # f
    BY <1>3, <1>5, <2>1 DEF CronInv, ShownMayQueue
  <2>2. CASE g = f
    <3>1. a.next \in Nat
      BY <1>2, <1>3, <1>4, <2>2 DEF Row
    <3>2. s > now
      BY <1>0, <1>2, <1>3, <1>4, <2>2, <3>1, Instants
    <3> QED BY <1>5, <3>2 DEF CronInv, AheadIsKept
  <2> QED BY <2>1, <2>2
<1>9. ASSUME NEW w \in Worker, pc'[w] # "idle" PROVE TickGoesOn(w)'
  <2>1. TickGoesOn(w)
    BY <1>1, <1>9 DEF CronInv
  <2>2. moment[w] \in Nat /\ todo[w] \in Seq(Workflow)
    BY <1>0, <1>4, Instants DEF TypeOK
  <2>3. ASSUME NEW g \in Workflow, StillDue(w, g) PROVE StillDue(w, g)'
    <3>1. CASE g # f
      BY <1>0, <1>1, <1>3, <1>5, <2>3, <3>1 DEF StillDue
    <3>2. CASE g = f
      BY <1>0, <1>1, <1>5, <2>3, <3>2 DEF StillDue
    <3> QED BY <3>1, <3>2
  <2>4. ASSUME NEW g \in Workflow, LoadedRow(w, g) PROVE LoadedRow(w, g)'
    BY <1>0, <1>1, <1>5, <2>4 DEF LoadedRow
  <2>5. ASSUME NEW g \in Workflow, LoadedRow(w, g), pc[w] = "queueing" => MovedPast(w, g)
        PROVE  (pc[w] = "queueing" => MovedPast(w, g))'
    <3> SUFFICES ASSUME pc[w] = "queueing", seen[w].next \in 0 .. Horizon,
                        row'[g].next # NoSlot, row'[g].next <= seen[w].next
                 PROVE  fired[g][seen[w].next] + 1 < edits'
      BY <1>1 DEF MovedPast
    <3>1. CASE g # f
      <4>1. fired[g][seen[w].next] + 1 < edits
        BY <1>3, <2>5, <3>1 DEF MovedPast
      <4> QED BY <1>0, <1>1, <1>5, <4>1
    <3>2. CASE g = f
      <4> DEFINE q == seen[w].next
      <4>1. MayQueue(g, q)
        BY <1>4, <2>5 DEF LoadedRow
      <4>2. a.next \in Nat
        BY <1>2, <1>3, <1>4, <3>2 DEF Row
      <4>3. q > now
        BY <1>0, <1>2, <1>3, <1>4, <3>2, <4>2, Instants
      <4>4. edits # 0
        BY <1>0, <1>4, <2>5, <4>3 DEF LoadedRow
      <4> QED BY <1>5, <4>1, <4>4
    <3> QED BY <3>1, <3>2
  <2>6. \A i \in DOMAIN todo[w] : todo[w][i] \in Workflow
    BY <2>2
  <2>7. 1 \in DOMAIN todo[w]
    BY <2>1, <2>2 DEF TickGoesOn
  <2>8. \A i \in DOMAIN todo[w] : (i > 1 \/ pc[w] = "loading") => StillDue(w, todo[w][i])'
    BY <1>1, <2>1, <2>3, <2>6 DEF TickGoesOn
  <2>9. /\ pc[w] # "loading" => LoadedRow(w, todo[w][1])'
        /\ pc[w] = "queueing" => MovedPast(w, todo[w][1])'
    BY <2>1, <2>4, <2>5, <2>6, <2>7, <1>1 DEF TickGoesOn
  <2> QED BY <1>1, <2>1, <2>8, <2>9 DEF TickGoesOn
<1> QED BY <1>6, <1>7, <1>8, <1>9 DEF CronInv

\* The due query: every workflow of the tick is due now.
LEMMA TickKeeps == ASSUME CronInv, NEW w \in Worker, Tick(w) PROVE CronInv'
<1> DEFINE due == {f \in Workflow : Due(f, now)}
<1>0. TypeOK /\ now \in Nat /\ edits \in Nat
  BY CalendarAssumption DEF CronInv, CronSafety, TypeOK
<1>1. PICK order \in [1 .. Cardinality(due) -> due] :
        /\ InOrder(order)
        /\ todo' = [todo EXCEPT ![w] = order]
        /\ seen' = [seen EXCEPT ![w] = row[order[1]]]
  BY DEF Tick
<1>2. /\ pc' = [pc EXCEPT ![w] = "advancing"] /\ moment' = [moment EXCEPT ![w] = now]
      /\ now' = now /\ row' = row /\ fired' = fired /\ edits' = edits /\ crashes' = crashes
      /\ due # {}
  BY DEF Tick
<1>3. \A i \in DOMAIN order : order[i] \in Workflow /\ Due(order[i], now)
  BY <1>1
<1> HIDE DEF due
<1>4. order \in Seq(Workflow) /\ order # <<>> /\ 1 \in DOMAIN order
  BY <1>1, <1>2, OrderOfDue DEF due
<1>5. Slot \subseteq Nat /\ 0 .. Horizon \subseteq Slot /\ NoSlot \notin Nat
  BY Instants
<1>6. CronSafety' /\ AheadIsKept' /\ ShownMayQueue'
  <2>1. row[order[1]] \in Row
    BY <1>0, <1>3, <1>4 DEF TypeOK
  <2>2. TypeOK'
    BY <1>0, <1>1, <1>2, <1>4, <2>1 DEF TypeOK
  <2>3. RepeatsNeedEdits' /\ NotBeforeItsTime'
    BY <1>2 DEF CronInv, CronSafety, RepeatsNeedEdits, NotBeforeItsTime
  <2>4. AheadIsKept' /\ ShownMayQueue'
    BY <1>2 DEF CronInv, AheadIsKept, ShownMayQueue, Kept, MayQueue
  <2> QED BY <2>2, <2>3, <2>4 DEF CronSafety
<1>7. ASSUME NEW v \in Worker, pc'[v] # "idle" PROVE TickGoesOn(v)'
  <2>1. CASE v # w
    <3>1. pc'[v] = pc[v] /\ todo'[v] = todo[v] /\ seen'[v] = seen[v] /\ moment'[v] = moment[v]
      BY <1>0, <1>1, <1>2, <2>1 DEF TypeOK
    <3>2. TickGoesOn(v)
      BY <1>7, <3>1 DEF CronInv
    <3> QED BY <1>2, <3>1, <3>2
            DEF TickGoesOn, StillDue, LoadedRow, MovedPast, Kept, MayQueue
  <2>2. CASE v = w
    <3>1. pc'[w] = "advancing" /\ todo'[w] = order /\ seen'[w] = row[order[1]] /\ moment'[w] = now
      BY <1>0, <1>1, <1>2 DEF TypeOK
    <3>2. \A i, j \in DOMAIN order : order[i] = order[j] => i = j
      BY <1>1 DEF InOrder
    <3>3. ASSUME NEW i \in DOMAIN order PROVE StillDue(w, order[i])'
      <4>1. row[order[i]].next # NoSlot /\ row[order[i]].next <= now
        BY <1>3 DEF Due
      <4> QED BY <1>2, <1>3, <3>1, <4>1 DEF StillDue, CronInv, AheadIsKept, Kept
    <3>4. LoadedRow(w, order[1])'
      <4> DEFINE f == order[1]
      <4>1. f \in Workflow /\ row[f] \in Row /\ row[f].next # NoSlot /\ row[f].next <= now
        BY <1>0, <1>3, <1>4 DEF TypeOK, Due
      <4> HIDE DEF f
      <4>2. \A s \in 0 .. Horizon : s >= row[f].next => MayQueue(f, s)
        <5>1. row[f].next \in Nat
          BY <1>5, <4>1 DEF Row
        <5> QED BY <1>5, <4>1, <5>1 DEF CronInv, ShownMayQueue
      <4>3. seen'[w] = row[f]
        BY <3>1 DEF f
      <4> QED BY <1>2, <4>1, <4>2, <4>3 DEF LoadedRow, MayQueue, f
    <3> QED BY <1>0, <1>2, <1>4, <2>2, <3>1, <3>2, <3>3, <3>4 DEF TickGoesOn
  <2> QED BY <2>1, <2>2
<1> QED BY <1>6, <1>7 DEF CronInv

\* A later workflow of the tick is read again: it is due as it was, or edited.
LEMMA LoadKeeps == ASSUME CronInv, NEW w \in Worker, Load(w) PROVE CronInv'
<1>0. TypeOK /\ now \in Nat /\ edits \in Nat
  BY CalendarAssumption DEF CronInv, CronSafety, TypeOK
<1>1. /\ pc[w] = "loading" /\ seen' = [seen EXCEPT ![w] = row[Head(todo[w])]]
      /\ pc' = [pc EXCEPT ![w] = "advancing"]
      /\ now' = now /\ row' = row /\ fired' = fired /\ moment' = moment
      /\ todo' = todo /\ edits' = edits /\ crashes' = crashes
  BY DEF Load
<1>2. TickGoesOn(w)
  BY <1>1 DEF CronInv
<1>3. PICK f \in Workflow : f = todo[w][1] /\ f = Head(todo[w]) /\ 1 \in DOMAIN todo[w]
  BY <1>0, <1>2 DEF TypeOK, TickGoesOn
<1>4. StillDue(w, f) /\ row[f] \in Row /\ moment[w] \in Nat /\ moment[w] <= now
  BY <1>0, <1>1, <1>2, <1>3, Instants DEF TickGoesOn, TypeOK
<1>5. Slot \subseteq Nat /\ 0 .. Horizon \subseteq Slot /\ NoSlot \notin Nat
  BY Instants
<1>6. CronSafety' /\ AheadIsKept' /\ ShownMayQueue'
  <2>2. TypeOK'
    BY <1>0, <1>1, <1>3, <1>4 DEF TypeOK
  <2>3. RepeatsNeedEdits' /\ NotBeforeItsTime'
    BY <1>1 DEF CronInv, CronSafety, RepeatsNeedEdits, NotBeforeItsTime
  <2>4. AheadIsKept' /\ ShownMayQueue'
    BY <1>1 DEF CronInv, AheadIsKept, ShownMayQueue, Kept, MayQueue
  <2> QED BY <2>2, <2>3, <2>4 DEF CronSafety
<1>7. ASSUME NEW v \in Worker, pc'[v] # "idle" PROVE TickGoesOn(v)'
  <2>1. CASE v # w
    <3>1. pc'[v] = pc[v] /\ seen'[v] = seen[v]
      BY <1>0, <1>1, <2>1 DEF TypeOK
    <3>2. TickGoesOn(v)
      BY <1>7, <3>1 DEF CronInv
    <3> QED BY <1>1, <3>1, <3>2
            DEF TickGoesOn, StillDue, LoadedRow, MovedPast, Kept, MayQueue
  <2>2. CASE v = w
    <3>1. pc'[w] = "advancing" /\ seen'[w] = row[f]
      BY <1>0, <1>1, <1>3 DEF TypeOK
    <3>2. LoadedRow(w, f)'
      <4>1. CASE row[f].next = NoSlot
        <5>1. edits > 0 /\ \A s \in 0 .. Horizon : s > moment[w] => MayQueue(f, s)
          BY <1>4, <4>1 DEF StillDue
        <5> QED BY <1>0, <1>1, <1>4, <1>5, <3>1, <4>1, <5>1 DEF LoadedRow, MayQueue
      <4>2. CASE row[f].next # NoSlot
        <5>1. row[f].next \in Nat
          BY <1>4, <1>5, <4>2 DEF Row
        <5>2. \A s \in 0 .. Horizon : s >= row[f].next => MayQueue(f, s)
          BY <1>5, <4>2, <5>1 DEF CronInv, ShownMayQueue
        <5>3. edits = 0 => row[f].next <= now
          BY <1>0, <1>4, <5>1 DEF StillDue
        <5> QED BY <1>1, <1>4, <3>1, <4>2, <5>2, <5>3 DEF LoadedRow, MayQueue
      <4> QED BY <4>1, <4>2
    <3>3. \A i \in DOMAIN todo[w] : i > 1 => StillDue(w, todo[w][i])'
      BY <1>1, <1>2 DEF TickGoesOn, StillDue, Kept, MayQueue
    <3> QED BY <1>1, <1>2, <1>3, <2>2, <3>1, <3>2, <3>3 DEF TickGoesOn
  <2> QED BY <2>1, <2>2
<1> QED BY <1>6, <1>7 DEF CronInv

\* next_run_at moves on from what was loaded: past the slot, so what the row
\* shows next may be queued as the slots after the loaded one may.
LEMMA AdvanceKeeps ==
    ASSUME \A v, w \in Worker : v = w, CronInv, NEW w \in Worker, Advance(w)
    PROVE  CronInv'
<1>0. TypeOK /\ now \in Nat /\ edits \in Nat
  BY CalendarAssumption DEF CronInv, CronSafety, TypeOK
<1>1. /\ pc[w] = "advancing" /\ pc' = [pc EXCEPT ![w] = "queueing"]
      /\ row' = [row EXCEPT ![Head(todo[w])].next = Following(seen[w], moment[w])]
      /\ now' = now /\ fired' = fired /\ moment' = moment
      /\ todo' = todo /\ seen' = seen /\ edits' = edits /\ crashes' = crashes
  BY DEF Advance
<1>2. TickGoesOn(w)
  BY <1>1 DEF CronInv
<1>3. PICK f \in Workflow : f = todo[w][1] /\ f = Head(todo[w]) /\ 1 \in DOMAIN todo[w]
  BY <1>0, <1>2 DEF TypeOK, TickGoesOn
<1>4. LoadedRow(w, f) /\ seen[w] \in Row /\ moment[w] \in Nat
  BY <1>0, <1>1, <1>2, <1>3, Instants DEF TickGoesOn, LoadedRow, TypeOK
<1>5. Slot \subseteq Nat /\ 0 .. Horizon \subseteq Slot /\ NoSlot \notin Nat
  BY Instants
<1>6. PICK n \in Slot \cup {NoSlot} :
        /\ n = Following(seen[w], moment[w])
        /\ n # NoSlot /\ n <= Horizon
           => n > (IF seen[w].next = NoSlot THEN moment[w] ELSE seen[w].next)
  BY <1>4, FollowingIsAhead
<1>7. /\ row'[f].next = n /\ \A g \in Workflow \ {f} : row'[g] = row[g]
      /\ row' \in [Workflow -> Row]
  <2>1. row \in [Workflow -> Row] /\ row[f] \in Row
    BY <1>0 DEF TypeOK
  <2>2. row' = [row EXCEPT ![f] = [row[f] EXCEPT !.next = n]]
    BY <1>1, <1>3, <1>6
  <2>3. [row[f] EXCEPT !.next = n] \in Row /\ [row[f] EXCEPT !.next = n].next = n
    BY <1>6, <2>1 DEF Row
  <2> HIDE DEF Row
  <2> QED BY <2>1, <2>2, <2>3
<1>8. CronSafety' /\ AheadIsKept'
  <2>1. TypeOK'
    BY <1>0, <1>1, <1>7 DEF TypeOK
  <2>2. RepeatsNeedEdits' /\ NotBeforeItsTime'
    BY <1>1 DEF CronInv, CronSafety, RepeatsNeedEdits, NotBeforeItsTime
  <2>3. AheadIsKept'
    BY <1>1 DEF CronInv, AheadIsKept, Kept
  <2> QED BY <2>1, <2>2, <2>3 DEF CronSafety
<1>9. ShownMayQueue'
  <2> SUFFICES ASSUME NEW g \in Workflow, NEW s \in 0 .. Horizon,
                      row'[g].next # NoSlot, row'[g].next <= s
               PROVE  MayQueue(g, s)
    BY <1>1 DEF ShownMayQueue, MayQueue
  <2>1. CASE g # f
    BY <1>7, <2>1 DEF CronInv, ShownMayQueue
  <2>2. CASE g = f
    <3>1. n \in Nat /\ n <= s /\ n <= Horizon
      BY <1>5, <1>6, <1>7, <2>2, Instants
    <3>2. s >= (IF seen[w].next = NoSlot THEN moment[w] + 1 ELSE seen[w].next)
      <4>1. CASE seen[w].next = NoSlot
        BY <1>4, <1>6, <1>7, <2>2, <3>1, <4>1
      <4>2. CASE seen[w].next # NoSlot
        <5>1. seen[w].next \in Nat
          BY <1>4, <1>5, <4>2 DEF Row
        <5> QED BY <1>6, <1>7, <2>2, <3>1, <4>2, <5>1
      <4> QED BY <4>1, <4>2
    <3> QED BY <1>4, <2>2, <3>2 DEF LoadedRow
  <2> QED BY <2>1, <2>2
<1>10. TickGoesOn(w)'
  <2>1. pc'[w] = "queueing"
    BY <1>0, <1>1 DEF TypeOK
  <2>2. LoadedRow(w, f)'
    BY <1>1, <1>4 DEF LoadedRow, MayQueue
  <2>3. MovedPast(w, f)'
    <3> SUFFICES ASSUME seen[w].next \in 0 .. Horizon, n # NoSlot, n <= seen[w].next
                 PROVE  FALSE
      BY <1>1, <1>7 DEF MovedPast
    <3> QED BY <1>5, <1>6, Instants
  <2>4. \A i \in DOMAIN todo[w] : i > 1 => StillDue(w, todo[w][i])'
    <3> SUFFICES ASSUME NEW i \in DOMAIN todo[w], i > 1 PROVE StillDue(w, todo[w][i])'
      OBVIOUS
    <3>1. PICK g \in Workflow : g = todo[w][i]
      BY <1>0 DEF TypeOK
    <3>2. g # f
      BY <1>2, <1>3, <3>1 DEF TickGoesOn
    <3>3. StillDue(w, g) /\ row'[g] = row[g]
      BY <1>2, <1>7, <3>1, <3>2 DEF TickGoesOn
    <3> QED BY <1>1, <3>1, <3>3 DEF StillDue, Kept, MayQueue
  <2> QED BY <1>1, <1>2, <1>3, <2>1, <2>2, <2>3, <2>4 DEF TickGoesOn
<1>11. \A v \in Worker : pc'[v] # "idle" => TickGoesOn(v)'
  <2> TAKE v \in Worker
  <2>1. v = w
    OBVIOUS
  <2> QED BY <1>10, <2>1
<1> QED BY <1>8, <1>9, <1>11 DEF CronInv

\* The run is queued for the slot that was loaded.
LEMMA QueueKeeps ==
    ASSUME \A v, w \in Worker : v = w, CronInv, NEW w \in Worker, Queue(w)
    PROVE  CronInv'
<1>0. TypeOK /\ now \in Nat /\ edits \in Nat
  BY CalendarAssumption DEF CronInv, CronSafety, TypeOK
<1>1. /\ pc[w] = "queueing"
      /\ pc' = [pc EXCEPT ![w] = IF Len(todo[w]) > 1 THEN "loading" ELSE "idle"]
      /\ todo' = [todo EXCEPT ![w] = Tail(@)] /\ seen' = [seen EXCEPT ![w] = NoSlot]
      /\ now' = now /\ row' = row /\ moment' = moment
      /\ edits' = edits /\ crashes' = crashes
  BY DEF Queue
<1>2. TickGoesOn(w)
  BY <1>1 DEF CronInv
<1>3. PICK f \in Workflow : f = todo[w][1] /\ f = Head(todo[w]) /\ 1 \in DOMAIN todo[w]
  BY <1>0, <1>2 DEF TypeOK, TickGoesOn
<1>4. /\ LoadedRow(w, f) /\ MovedPast(w, f)
      /\ seen[w] \in Row /\ moment[w] \in Nat
  BY <1>0, <1>1, <1>2, <1>3, Instants DEF TickGoesOn, LoadedRow, TypeOK
<1>5. Slot \subseteq Nat /\ 0 .. Horizon \subseteq Slot /\ NoSlot \notin Nat
  BY Instants
<1>6. PICK q : q = seen[w].next /\ (q # NoSlot => q \in Slot /\ q \in Nat)
  BY <1>4, <1>5 DEF Row
<1>7. fired' = IF row[f].enabled /\ q # NoSlot THEN [fired EXCEPT ![f][q] = @ + 1] ELSE fired
  BY <1>3, <1>6 DEF Queue
<1>8. fired \in [Workflow -> [Slot -> Nat]] /\ fired' \in [Workflow -> [Slot -> Nat]]
  BY <1>0, <1>6, <1>7 DEF TypeOK
<1>9. ASSUME NEW g \in Workflow, NEW s \in Slot
      PROVE  /\ fired[g][s] \in Nat
             /\ \/ fired'[g][s] = fired[g][s]
                \/ g = f /\ s = q /\ q # NoSlot /\ fired'[g][s] = fired[g][s] + 1
  BY <1>6, <1>7, <1>8
<1>10. ASSUME NEW s \in 0 .. Horizon, s = q
       PROVE  /\ MayQueue(f, s)
              /\ s > now => edits > 0
              /\ row[f].next # NoSlot /\ row[f].next <= s => fired[f][s] + 1 < edits
  <2>1. q # NoSlot /\ s >= q
    BY <1>5, <1>10
  <2>2. MayQueue(f, s)
    BY <1>4, <1>6, <2>1 DEF LoadedRow
  <2>3. s > now => edits > 0
    BY <1>0, <1>4, <1>5, <1>6, <1>10 DEF LoadedRow
  <2>4. row[f].next # NoSlot /\ row[f].next <= s => fired[f][s] + 1 < edits
    BY <1>4, <1>6, <1>10 DEF MovedPast
  <2> QED BY <2>2, <2>3, <2>4
<1>11. CronSafety'
  <2>1. TypeOK'
    <3>1. todo' \in [Worker -> Seq(Workflow)]
      BY <1>0, <1>1, <1>2 DEF TypeOK, TickGoesOn
    <3>2. /\ pc' \in [Worker -> {"idle", "loading", "advancing", "queueing"}]
          /\ seen' \in [Worker -> Row \cup {NoSlot}]
      BY <1>0, <1>1 DEF TypeOK
    <3> QED BY <1>0, <1>1, <1>8, <3>1, <3>2 DEF TypeOK
  <2>2. RepeatsNeedEdits'
    <3> SUFFICES ASSUME NEW g \in Workflow, NEW s \in 0 .. Horizon
                 PROVE  fired'[g][s] <= 1 \/ fired'[g][s] <= edits
      BY <1>1 DEF RepeatsNeedEdits
    <3>1. CASE fired'[g][s] = fired[g][s]
      BY <3>1 DEF CronInv, CronSafety, RepeatsNeedEdits
    <3>2. CASE g = f /\ s = q /\ fired'[g][s] = fired[g][s] + 1
      BY <1>0, <1>5, <1>9, <1>10, <3>2 DEF MayQueue
    <3> QED BY <1>5, <1>9, <3>1, <3>2
  <2>3. NotBeforeItsTime'
    <3> SUFFICES ASSUME edits = 0, NEW g \in Workflow, NEW s \in Slot, fired'[g][s] > 0
                 PROVE  s <= now
      BY <1>1 DEF NotBeforeItsTime
    <3>1. CASE fired'[g][s] = fired[g][s]
      BY <3>1 DEF CronInv, CronSafety, NotBeforeItsTime
    <3>2. CASE s = q
      BY <1>4, <1>6, <3>2 DEF LoadedRow
    <3> QED BY <1>9, <3>1, <3>2
  <2> QED BY <2>1, <2>2, <2>3 DEF CronSafety
<1>12. AheadIsKept'
  <2> SUFFICES ASSUME NEW g \in Workflow, NEW s \in 0 .. Horizon, s > now
               PROVE  fired'[g][s] = 0 \/ fired'[g][s] <= edits
    BY <1>1 DEF AheadIsKept, Kept
  <2>1. CASE fired'[g][s] = fired[g][s]
    BY <2>1 DEF CronInv, AheadIsKept, Kept
  <2>2. CASE g = f /\ s = q /\ fired'[g][s] = fired[g][s] + 1
    BY <1>0, <1>5, <1>9, <1>10, <2>2 DEF MayQueue
  <2> QED BY <1>5, <1>9, <2>1, <2>2
<1>13. ShownMayQueue'
  <2> SUFFICES ASSUME NEW g \in Workflow, NEW s \in 0 .. Horizon,
                      row[g].next # NoSlot, row[g].next <= s
               PROVE  fired'[g][s] = 0 \/ fired'[g][s] < edits
    BY <1>1 DEF ShownMayQueue, MayQueue
  <2>1. CASE fired'[g][s] = fired[g][s]
    BY <2>1 DEF CronInv, ShownMayQueue, MayQueue
  <2>2. CASE g = f /\ s = q /\ fired'[g][s] = fired[g][s] + 1
    BY <1>0, <1>5, <1>9, <1>10, <2>2
  <2> QED BY <1>5, <1>9, <2>1, <2>2
<1>14. ASSUME pc'[w] # "idle" PROVE TickGoesOn(w)'
  <2>1. pc'[w] = "loading" /\ Len(todo[w]) > 1 /\ todo[w] \in Seq(Workflow)
    BY <1>0, <1>1, <1>14 DEF TypeOK
  <2>2. PICK rest : rest = Tail(todo[w]) /\ rest = todo'[w]
    BY <1>0, <1>1 DEF TypeOK
  <2>3. /\ rest # <<>> /\ DOMAIN rest \subseteq Nat
        /\ \A i \in DOMAIN rest : i + 1 \in DOMAIN todo[w] /\ i + 1 > 1 /\ rest[i] = todo[w][i + 1]
    BY <2>1, <2>2, OneFewer
  <2>4. ASSUME NEW i \in DOMAIN rest PROVE StillDue(w, rest[i])'
    <3>1. PICK j \in DOMAIN todo[w] : j = i + 1 /\ j > 1 /\ rest[i] = todo[w][j]
      BY <2>3
    <3>2. PICK g \in Workflow : g = todo[w][j]
      BY <2>1
    <3>3. g # f /\ StillDue(w, g)
      BY <1>2, <1>3, <3>1, <3>2 DEF TickGoesOn
    <3>4. \A s \in 0 .. Horizon : fired'[g][s] = fired[g][s]
      BY <1>5, <1>9, <3>3
    <3>5. StillDue(w, g)'
      BY <1>1, <3>3, <3>4 DEF StillDue, Kept, MayQueue
    <3> QED BY <3>1, <3>2, <3>5
  <2>5. ASSUME NEW i \in DOMAIN rest, NEW j \in DOMAIN rest, rest[i] = rest[j]
        PROVE  i = j
    <3>1. i + 1 = j + 1
      BY <1>2, <2>3, <2>5 DEF TickGoesOn
    <3> QED BY <2>3, <3>1
  <2> QED BY <1>1, <1>2, <2>1, <2>2, <2>3, <2>4, <2>5 DEF TickGoesOn
<1>15. \A v \in Worker : pc'[v] # "idle" => TickGoesOn(v)'
  <2> TAKE v \in Worker
  <2>1. v = w
    OBVIOUS
  <2> QED BY <1>14, <2>1
<1> QED BY <1>11, <1>12, <1>13, <1>15 DEF CronInv

\* A death drops the tick and nothing else.
LEMMA CrashKeeps == ASSUME CronInv, NEW w \in Worker, Crash(w) PROVE CronInv'
<1>0. TypeOK
  BY DEF CronInv, CronSafety
<1>1. /\ pc' = [pc EXCEPT ![w] = "idle"] /\ todo' = [todo EXCEPT ![w] = <<>>]
      /\ seen' = [seen EXCEPT ![w] = NoSlot] /\ crashes' = crashes + 1
      /\ now' = now /\ row' = row /\ fired' = fired /\ moment' = moment /\ edits' = edits
  BY DEF Crash
<1>2. CronSafety' /\ AheadIsKept' /\ ShownMayQueue'
  <2>1. TypeOK'
    BY <1>0, <1>1 DEF TypeOK
  <2> QED BY <1>1, <2>1 DEF CronInv, CronSafety, RepeatsNeedEdits, NotBeforeItsTime,
                           AheadIsKept, ShownMayQueue, Kept, MayQueue
<1>3. ASSUME NEW v \in Worker, pc'[v] # "idle" PROVE TickGoesOn(v)'
  <2>1. v # w /\ pc'[v] = pc[v] /\ todo'[v] = todo[v] /\ seen'[v] = seen[v]
    BY <1>0, <1>1, <1>3 DEF TypeOK
  <2>2. TickGoesOn(v)
    BY <1>3, <2>1 DEF CronInv
  <2> QED BY <1>1, <2>1, <2>2 DEF TickGoesOn, StillDue, LoadedRow, MovedPast, Kept, MayQueue
<1> QED BY <1>2, <1>3 DEF CronInv

\* At the start nothing is queued and no tick is in hand.
LEMMA CronStart == ASSUME Init PROVE CronInv
<1>1. TypeOK
  <2>1. ASSUME NEW e \in Expression
        PROVE  Applied([enabled |-> TRUE, trigger |-> "cron", expression |-> e,
                        next |-> NoSlot], 0) \in Row
    <3>1. [enabled |-> TRUE, trigger |-> "cron", expression |-> e, next |-> NoSlot] \in Row
      BY DEF Row
    <3> QED BY <3>1, AppliedIsAhead
  <2>2. row \in [Workflow -> Row]
    BY <2>1 DEF Init
  <2>3. now \in 0 .. Horizon /\ 0 \in 0 .. Horizon
    BY CalendarAssumption DEF Init
  <2> QED BY <2>2, <2>3 DEF Init, TypeOK
<1>2. \A f \in Workflow, s \in Slot : fired[f][s] = 0
  BY DEF Init
<1>3. RepeatsNeedEdits /\ NotBeforeItsTime /\ AheadIsKept /\ ShownMayQueue
  BY <1>2, Instants DEF RepeatsNeedEdits, NotBeforeItsTime, AheadIsKept, ShownMayQueue,
                       Kept, MayQueue
<1>4. \A w \in Worker : pc[w] = "idle"
  BY DEF Init
<1> QED BY <1>1, <1>3, <1>4 DEF CronInv, CronSafety

\* Every step of the workers, the people and the clock keeps the invariant.
LEMMA CronStep ==
    ASSUME \A v, w \in Worker : v = w, CronInv, [Next]_vars
    PROVE  CronInv'
<1>1. CASE UNCHANGED vars
  BY <1>1 DEF vars, CronInv, CronSafety, TypeOK, RepeatsNeedEdits, NotBeforeItsTime,
              AheadIsKept, ShownMayQueue, Kept, MayQueue, TickGoesOn, StillDue,
              LoadedRow, MovedPast
<1>2. CASE Clock
  BY <1>2, ClockKeeps
<1>3. ASSUME NEW f \in Workflow, NEW enabled \in BOOLEAN, NEW trigger \in {"cron", "manual"},
             NEW e \in Expression, Edit(f, enabled, trigger, e)
      PROVE  CronInv'
  BY <1>3, EditKeeps
<1>4. ASSUME NEW w \in Worker, WorkerStep(w) \/ Crash(w) PROVE CronInv'
  BY <1>4, TickKeeps, LoadKeeps, AdvanceKeeps, QueueKeeps, CrashKeeps DEF WorkerStep
<1> QED BY <1>1, <1>2, <1>3, <1>4 DEF Next

\* While one worker queues, a slot of a workflow gets one cron run, or no more
\* than schedules were edited, and none before its time while nobody edits:
\* whatever dies, however late the ticks are (enqueue_due_workflows,
\* advance_after_fire, apply_schedule).
THEOREM CronRunsAreSafe ==
    ASSUME \A v, w \in Worker : v = w
    PROVE  Spec => []CronSafety
<1>1. Init => CronInv
  BY CronStart
<1>2. CronInv /\ [Next]_vars => CronInv'
  BY CronStep
<1>3. CronInv => CronSafety
  BY DEF CronInv
<1> QED BY <1>1, <1>2, <1>3, PTL DEF Spec
=============================================================================
