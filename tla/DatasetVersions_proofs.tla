------------------------ MODULE DatasetVersions_proofs ------------------------
(***************************************************************************)
(* Theorems about DatasetVersions for any datasets, requests, readers and  *)
(* passes: what is pinned is kept, what is listed has its bytes, an early  *)
(* reader finishes, and a tombstone is final.                              *)
(***************************************************************************)
EXTENDS DatasetVersions, TLAPS

Live == {v \in Version : state[v] \in {"active", "pending_delete"}}

\* No pass that begins by a moment prunes the version, unless it is marked again.
SafeUntil(v, moment) ==
    \/ state[v] = "active"
    \/ state[v] = "pending_delete" /\ deleteAfter[v] > moment

\* Version numbers above the head are free.
Numbered == \A v \in Version : state[v] # "absent" => v[2] <= head[v[1]]

\* A request knows the versions it asks for, and has not seen one that is
\* missing; what it has seen, it has seen of the next it will lock.
Asking ==
    \A h \in Holder :
        /\ job[h].phase # "pinning" => job[h].seen = "none"
        /\ job[h].phase \notin {"idle", "over"} => job[h].of \in Version
        /\ \A i \in DOMAIN job[h].todo : state[job[h].todo[i]] # "absent"
        /\ job[h].seen # "none" => job[h].todo # None /\ job[h].seen # "absent"

\* What a request read as alive is alive until it locks it, and what it has
\* locked until it commits; a lock has one holder.
LocksHold ==
    /\ \A h \in Holder :
         /\ job[h].seen \notin {"none", "pruned"} => Head(job[h].todo) \in Live
         /\ job[h].locked \subseteq Live
         /\ job[h].rescued \subseteq job[h].locked
    /\ \A g, h \in Holder : job[g].locked \cap job[h].locked # {} => g = h

PinsHold == \A h \in Holder : pins[h] \subseteq Live

\* A pass on its way to its mark is younger than the grace period by more than
\* a reader's patience; one that prunes lists old marks; one that removes lists
\* tombstones.
PassesInTime ==
    \A s \in Sweeper :
        /\ sweep[s].phase = "marking" =>
             /\ sweep[s].moment <= now
             /\ now <= sweep[s].moment + Patience
             /\ \A v \in sweep[s].todo : SafeUntil(v, sweep[s].moment + Patience)
        /\ sweep[s].phase = "pruning" =>
             \A v \in sweep[s].todo : state[v] = "pending_delete" => deleteAfter[v] <= now
        /\ sweep[s].phase \in {"removing", "recording"} =>
             \A v \in sweep[s].todo : state[v] = "pruned"
        /\ sweep[s].phase = "recording" => sweep[s].at \in Version

\* An early reader ends before the version it reads is due.
ReadersInTime ==
    \A u \in Viewer :
        view[u].was = "active" =>
            /\ view[u].of \in Version
            /\ view[u].since <= now
            /\ now <= view[u].since + Patience
            /\ SafeUntil(view[u].of, view[u].since + Patience)

VersionInv ==
    /\ TypeOK
    /\ Numbered
    /\ Asking
    /\ LocksHold
    /\ PinsHold
    /\ LiveVersionsHaveBytes
    /\ PassesInTime
    /\ ReadersInTime

(***************************************************************************)
(* The type invariant.                                                     *)
(***************************************************************************)

\* No version is the empty tuple that stands for none.
LEMMA VersionFacts ==
    /\ Last \in Nat /\ Grace \in Nat /\ Patience \in Nat /\ 2 * Patience < Grace
    /\ \A v \in Version : v[1] \in Dataset /\ v[2] \in 1..Last /\ v = <<v[1], v[2]>>
    /\ None \notin Version
    /\ Over.phase = "over" /\ Over.seen = "none" /\ Over.todo = None
    /\ Over.locked = {} /\ Over.rescued = {}
BY VersionsAssumption DEF Version, None, Over, Idle

\* The next number of a dataset that has room is a version of it.
LEMMA Numbers ==
    ASSUME TypeOK, NEW d \in Dataset, NEW n \in Nat, head[d] < n, n <= Last
    PROVE  <<d, n>> \in Version /\ n \in 1..Last
BY VersionFacts DEF TypeOK, Version

\* Every step of a request keeps the state well typed.
LEMMA HolderTyping ==
    ASSUME TypeOK, Asking, NEW h \in Holder, HolderStep(h)
    PROVE  TypeOK'
<1> DEFINE Job == [phase : {"idle", "pinning", "reading", "publishing",
                            "committing", "over"},
                   kind : {"none", "rollback", "replay"}, of : Version \cup {None},
                   todo : Seq(Version), seen : {"none"} \cup States,
                   locked : SUBSET Version, rescued : SUBSET Version,
                   number : 0..Last]
<1>1. job \in [Holder -> Job] /\ job[h] \in Job
  BY DEF TypeOK
<1>2. Over \in Job
  <2>1. Over = [phase |-> "over", kind |-> "none", of |-> None, todo |-> None,
                seen |-> "none", locked |-> {}, rescued |-> {}, number |-> 0]
    BY DEF Over, Idle
  <2>2. 0 \in 0..Last /\ None \in Seq(Version)
    BY VersionFacts DEF None
  <2> QED BY <2>1, <2>2
<1>3. ASSUME job' \in [Holder -> Job], UNCHANGED <<now, rows, bytes, view, sweep, faults>>
      PROVE  TypeOK'
  BY <1>3 DEF TypeOK, rows
<1>4. ASSUME NEW request \in Asked, Ask(h, request) PROVE TypeOK'
  <2>1. /\ request.kind \in {"rollback", "replay"}
        /\ request.inputs \in Seq(Version)
        /\ Head(request.inputs) \in Version
    BY VersionsAssumption DEF None
  <2>2. job' \in [Holder -> Job]
    BY <1>1, <1>4, <2>1 DEF Ask
  <2> QED BY <1>3, <1>4, <2>2 DEF Ask
<1>5. CASE Look(h)
  <2>1. Head(job[h].todo) \in Version
    BY <1>1, <1>5 DEF Look, None
  <2>2. state[Head(job[h].todo)] \in States
    BY <2>1 DEF TypeOK
  <2>3. PICK was \in States : \/ job' = [job EXCEPT ![h] = Over]
                             \/ job' = [job EXCEPT ![h].seen = was]
    BY <1>5, <2>2 DEF Look
  <2>4. [job[h] EXCEPT !.seen = was] \in Job
    BY <1>1
  <2>5. job' \in [Holder -> Job]
    BY <1>1, <1>2, <2>3, <2>4
  <2> QED BY <1>3, <1>5, <2>5 DEF Look
<1>6. CASE Lock(h)
  <2>1. Head(job[h].todo) \in Version /\ Tail(job[h].todo) \in Seq(Version)
    BY <1>1, <1>6 DEF Lock, None, Asking
  <2> DEFINE v == Head(job[h].todo)
             rescued == IF job[h].seen = "pending_delete"
                        THEN job[h].rescued \cup {v} ELSE job[h].rescued
             next == [job[h] EXCEPT !.todo = Tail(job[h].todo), !.seen = "none",
                                    !.locked = job[h].locked \cup {v},
                                    !.rescued = rescued]
  <2>2. job' = [job EXCEPT ![h] = Over] \/ job' = [job EXCEPT ![h] = next]
    BY <1>6 DEF Lock
  <2>3. job[h].locked \cup {v} \in SUBSET Version /\ rescued \in SUBSET Version
    BY <1>1, <2>1
  <2> HIDE DEF v, rescued
  <2>4. next \in Job
    BY <1>1, <2>1, <2>3
  <2> HIDE DEF next
  <2>5. job' \in [Holder -> Job]
    BY <1>1, <1>2, <2>2, <2>4
  <2> QED BY <1>3, <1>6, <2>5 DEF Lock
<1>7. CASE CommitPins(h)
  <2>1. job' \in [Holder -> Job]
    BY <1>1, <1>7 DEF CommitPins
  <2>2. pins' \in [Holder -> SUBSET Version]
    BY <1>1, <1>7 DEF CommitPins, TypeOK
  <2>3. state' \in [Version -> States] /\ deleteAfter' \in [Version -> Nat]
    BY <1>7 DEF CommitPins, TypeOK, States
  <2> QED BY <1>7, <2>1, <2>2, <2>3 DEF CommitPins, TypeOK
<1>8. CASE ReadTarget(h)
  <2>1. job' \in [Holder -> Job]
    BY <1>1, <1>8 DEF ReadTarget
  <2> QED BY <1>3, <1>8, <2>1 DEF ReadTarget
<1>9. CASE ReleasePins(h)
  <2>1. job' \in [Holder -> Job]
    BY <1>1, <1>2, <1>9 DEF ReleasePins
  <2>2. pins' \in [Holder -> SUBSET Version]
    BY <1>9 DEF ReleasePins, TypeOK
  <2> QED BY <1>9, <2>1, <2>2 DEF ReleasePins, TypeOK
<1>10. CASE ChooseNumber(h)
  <2>1. job[h].of \in Version
    BY <1>10 DEF ChooseNumber, Asking
  <2>2. NextNumber(job[h].of[1]) \in 0..Last
    BY <1>10, <2>1, VersionFacts DEF ChooseNumber, NextNumber, TypeOK
  <2>3. job' \in [Holder -> Job]
    BY <1>1, <1>10, <2>2 DEF ChooseNumber
  <2> QED BY <1>3, <1>10, <2>3 DEF ChooseNumber
<1>11. CASE PublishCopy(h)
  <2>1. job' \in [Holder -> Job]
    BY <1>1, <1>2, <1>11 DEF PublishCopy
  <2>2. CASE head[job[h].of[1]] < job[h].number
    <3> DEFINE d == job[h].of[1]
               n == job[h].number
    <3>1. d \in Dataset /\ n \in Nat /\ n <= Last
      <4>1. job[h].of \in Version
        BY <1>11 DEF PublishCopy, Asking
      <4>2. job[h].number \in 0..Last
        BY <1>1
      <4> QED BY <4>1, <4>2, VersionFacts
    <3>2. <<d, n>> \in Version /\ n \in 1..Last
      BY <2>2, <3>1, Numbers
    <3>3. /\ head' = [head EXCEPT ![d] = n]
          /\ state' = [state EXCEPT ![<<d, n>>] = "active"]
          /\ bytes' = bytes \cup {<<d, n>>}
          /\ pins' = [pins EXCEPT ![h] = {}]
      BY <1>11, <2>2 DEF PublishCopy
    <3> HIDE DEF d, n
    <3>4. head' \in [Dataset -> 1..Last] /\ state' \in [Version -> States]
      BY <3>2, <3>3 DEF TypeOK, States
    <3>5. bytes' \subseteq Version /\ pins' \in [Holder -> SUBSET Version]
      BY <3>2, <3>3 DEF TypeOK
    <3> QED BY <1>11, <2>1, <3>4, <3>5 DEF PublishCopy, TypeOK
  <2>3. CASE ~(head[job[h].of[1]] < job[h].number)
    BY <1>3, <1>11, <2>1, <2>3 DEF PublishCopy, rows
  <2> QED BY <2>2, <2>3
<1>12. CASE Die(h)
  <2>1. job' \in [Holder -> Job]
    BY <1>1, <1>2, <1>12 DEF Die
  <2> QED BY <1>3, <1>12, <2>1 DEF Die
<1> QED
  BY <1>4, <1>5, <1>6, <1>7, <1>8, <1>9, <1>10, <1>11, <1>12 DEF HolderStep

\* Every step of a pass, and every fault it meets, keeps the state well typed.
LEMMA SweeperTyping ==
    ASSUME TypeOK, PassesInTime, NEW s \in Sweeper,
           SweepStep(s) \/ SweepDies(s) \/ \E v \in Version : RemoveFails(s, v)
    PROVE  TypeOK'
<1> DEFINE Pass == [phase : {"idle", "marking", "pruning", "removing", "recording"},
                    moment : Nat, todo : SUBSET Version, at : Version \cup {None}]
<1>1. sweep \in [Sweeper -> Pass] /\ sweep[s] \in Pass
  BY DEF TypeOK
<1>2. Resting \in Pass
  BY DEF Resting
<1>3. ASSUME sweep' \in [Sweeper -> Pass], UNCHANGED <<now, rows, bytes, job, view>>,
             faults' \in 0..MaxFaults
      PROVE  TypeOK'
  BY <1>3 DEF TypeOK, rows
<1>4. CASE SweepStart(s)
  <2>1. Eligible \in SUBSET Version /\ now \in Nat
    BY DEF Eligible, TypeOK
  <2>2. sweep' \in [Sweeper -> Pass]
    BY <1>1, <1>4, <2>1 DEF SweepStart
  <2> QED BY <1>3, <1>4, <2>2 DEF SweepStart, TypeOK
<1>5. CASE Mark(s)
  <2>1. DueAt(sweep[s].moment) \in SUBSET Version
    BY DEF DueAt
  <2>2. sweep' \in [Sweeper -> Pass]
    BY <1>1, <1>5, <2>1 DEF Mark
  <2>3. Due(sweep[s].moment) \in Nat
    BY <1>1, VersionFacts DEF Due
  <2>4. state' \in [Version -> States]
    BY <1>5 DEF Mark, TypeOK, States
  <2>5. deleteAfter' = [v \in Version |-> IF v \in sweep[s].todo
                                         THEN Due(sweep[s].moment) ELSE deleteAfter[v]]
    BY <1>5 DEF Mark
  <2>6. deleteAfter' \in [Version -> Nat]
    BY <2>3, <2>5 DEF TypeOK
  <2> QED BY <1>5, <2>2, <2>4, <2>6 DEF Mark, TypeOK
<1>6. CASE ListPruned(s)
  <2>1. Orphans \in SUBSET Version
    BY DEF Orphans
  <2>2. sweep' \in [Sweeper -> Pass]
    BY <1>1, <1>6, <2>1 DEF ListPruned
  <2> QED BY <1>3, <1>6, <2>2 DEF ListPruned, TypeOK
<1>7. ASSUME NEW v \in Version, PruneOne(s, v) PROVE TypeOK'
  <2>1. sweep' \in [Sweeper -> Pass]
    BY <1>1, <1>7 DEF PruneOne
  <2>2. \/ state' = state
        \/ state' = [state EXCEPT ![v] = "active"]
        \/ state' = [state EXCEPT ![v] = "pruned"]
    BY <1>7 DEF PruneOne
  <2>3. state' \in [Version -> States]
    BY <2>2 DEF TypeOK, States
  <2>4. deleteAfter' = deleteAfter \/ deleteAfter' = [deleteAfter EXCEPT ![v] = 0]
    BY <1>7 DEF PruneOne
  <2>5. deleteAfter' \in [Version -> Nat]
    BY <2>4 DEF TypeOK
  <2> QED BY <1>7, <2>1, <2>3, <2>5 DEF PruneOne, TypeOK
<1>8. ASSUME NEW v \in Version, RemoveBytes(s, v) PROVE TypeOK'
  <2>1. sweep' \in [Sweeper -> Pass]
    BY <1>1, <1>8 DEF RemoveBytes
  <2>2. bytes' \subseteq Version
    BY <1>8 DEF RemoveBytes, TypeOK
  <2> QED BY <1>8, <2>1, <2>2 DEF RemoveBytes, TypeOK, rows
<1>9. CASE RecordRemoved(s)
  <2>1. sweep' \in [Sweeper -> Pass]
    BY <1>1, <1>9 DEF RecordRemoved
  <2>2. removed' \subseteq Version
    BY <1>9 DEF RecordRemoved, TypeOK, PassesInTime
  <2> QED BY <1>9, <2>1, <2>2 DEF RecordRemoved, TypeOK
<1>10. CASE SweepDone(s)
  <2>1. sweep' \in [Sweeper -> Pass]
    BY <1>1, <1>2, <1>10 DEF SweepDone
  <2> QED BY <1>3, <1>10, <2>1 DEF SweepDone, TypeOK
<1>11. CASE SweepDies(s)
  <2>1. sweep' \in [Sweeper -> Pass]
    BY <1>1, <1>2, <1>11 DEF SweepDies
  <2>2. faults' \in 0..MaxFaults
    BY <1>11, VersionsAssumption DEF SweepDies, TypeOK
  <2> QED BY <1>3, <1>11, <2>1, <2>2 DEF SweepDies
<1>12. ASSUME NEW v \in Version, RemoveFails(s, v) PROVE TypeOK'
  <2>1. sweep' \in [Sweeper -> Pass]
    BY <1>1, <1>12 DEF RemoveFails
  <2>2. faults' \in 0..MaxFaults
    BY <1>12, VersionsAssumption DEF RemoveFails, TypeOK
  <2> QED BY <1>3, <1>12, <2>1, <2>2 DEF RemoveFails
<1> QED
  BY <1>4, <1>5, <1>6, <1>7, <1>8, <1>9, <1>10, <1>11, <1>12 DEF SweepStep

\* Every step keeps the state well typed.
LEMMA Typing ==
    ASSUME TypeOK, Asking, PassesInTime, [Next]_vars
    PROVE  TypeOK'
<1>1. CASE UNCHANGED vars
  BY <1>1 DEF TypeOK, vars, rows
<1>2. ASSUME NEW h \in Holder, HolderStep(h) PROVE TypeOK'
  BY <1>2, HolderTyping
<1>3. ASSUME NEW d \in Dataset, Publish(d) PROVE TypeOK'
  <2>1. NextNumber(d) \in Nat /\ NextNumber(d) <= Last /\ head[d] < NextNumber(d)
    BY <1>3, VersionFacts DEF Publish, NextNumber, TypeOK
  <2>2. <<d, NextNumber(d)>> \in Version /\ NextNumber(d) \in 1..Last
    BY <2>1, Numbers
  <2>3. head' \in [Dataset -> 1..Last] /\ state' \in [Version -> States]
    BY <1>3, <2>2 DEF Publish, TypeOK, States
  <2>4. bytes' \subseteq Version
    BY <1>3, <2>2 DEF Publish, TypeOK
  <2> QED BY <1>3, <2>3, <2>4 DEF Publish, TypeOK
<1>4. ASSUME NEW u \in Viewer, NEW v \in Version, Open(u, v) PROVE TypeOK'
  <2>1. [of |-> v, since |-> now, was |-> state[v]]
          \in [of : Version \cup {None}, since : Nat, was : States]
    BY DEF TypeOK
  <2> QED BY <1>4, <2>1 DEF Open, TypeOK, rows
<1>5. ASSUME NEW u \in Viewer, Close(u) PROVE TypeOK'
  <2>1. NoView \in [of : Version \cup {None}, since : Nat, was : States]
    BY DEF NoView, States
  <2> QED BY <1>5, <2>1 DEF Close, TypeOK, rows
<1>6. ASSUME NEW s \in Sweeper,
             SweepStep(s) \/ SweepDies(s) \/ \E v \in Version : RemoveFails(s, v)
      PROVE  TypeOK'
  BY <1>6, SweeperTyping
<1>7. CASE Tick
  <2>1. now' \in 0..Horizon
    BY <1>7, VersionsAssumption DEF Tick, TypeOK
  <2> QED BY <1>7, <2>1 DEF Tick, TypeOK, rows
<1> QED
  BY <1>1, <1>2, <1>3, <1>4, <1>5, <1>6, <1>7 DEF Next

(***************************************************************************)
(* Every step keeps VersionInv.                                            *)
(*                                                                         *)
(* Three kinds of step touch a version's state: one that only brings a     *)
(* version (a copy, a publication) or brings one back (a rescue), a mark,  *)
(* and a prune.  Gentle says what the first kind leaves alone.             *)
(***************************************************************************)

Gentle ==
    \A v \in Version :
        /\ state[v] # "absent" => state'[v] # "absent"
        /\ state[v] = "active" => state'[v] = "active"
        /\ v \in Live => v \in Live'
        /\ state[v] = "pruned" => state'[v] = "pruned"
        /\ state'[v] = "pending_delete" =>
             state[v] = "pending_delete" /\ deleteAfter'[v] = deleteAfter[v]

\* A step that touches no row is gentle.
LEMMA StillIsGentle == ASSUME UNCHANGED <<state, deleteAfter>> PROVE Gentle
BY DEF Gentle, Live

\* A version that a gentle step leaves unmarked is due no earlier than before.
LEMMA GentleIsSafe ==
    ASSUME Gentle, TypeOK', NEW v \in Version, NEW t, SafeUntil(v, t)
    PROVE  SafeUntil(v, t)'
BY DEF Gentle, SafeUntil, Live

\* What gentle steps keep of those who do not move in them.
LEMMA GentleKeeps ==
    ASSUME TypeOK, TypeOK', Gentle, now' = now
    PROVE  /\ Asking /\ job' = job => Asking'
           /\ LocksHold /\ job' = job => LocksHold'
           /\ PinsHold /\ pins' = pins => PinsHold'
           /\ PassesInTime /\ sweep' = sweep => PassesInTime'
           /\ ReadersInTime /\ view' = view => ReadersInTime'
<1>1. ASSUME Asking, job' = job PROVE Asking'
  <2>1. \A h \in Holder : \A i \in DOMAIN job[h].todo : job[h].todo[i] \in Version
    BY DEF TypeOK
  <2> QED BY <1>1, <2>1 DEF Asking, Gentle
<1>2. ASSUME LocksHold, job' = job PROVE LocksHold'
  <2>1. Live \subseteq Live'
    BY DEF Gentle, Live
  <2> QED BY <1>2, <2>1 DEF LocksHold
<1>3. ASSUME PinsHold, pins' = pins PROVE PinsHold'
  <2>1. Live \subseteq Live'
    BY DEF Gentle, Live
  <2> QED BY <1>3, <2>1 DEF PinsHold
<1>4. ASSUME PassesInTime, sweep' = sweep PROVE PassesInTime'
  <2>1. \A s \in Sweeper : sweep[s].todo \subseteq Version
    BY DEF TypeOK
  <2>2. \A s \in Sweeper : sweep[s].phase = "marking" =>
          \A v \in sweep[s].todo : SafeUntil(v, sweep[s].moment + Patience)'
    BY <1>4, <2>1, GentleIsSafe DEF PassesInTime
  <2> QED BY <1>4, <2>1, <2>2 DEF PassesInTime, Gentle
<1>5. ASSUME ReadersInTime, view' = view PROVE ReadersInTime'
  <2>1. \A u \in Viewer : view[u].was = "active" =>
          SafeUntil(view[u].of, view[u].since + Patience)'
    BY <1>5, GentleIsSafe DEF ReadersInTime
  <2> QED BY <1>5, <2>1 DEF ReadersInTime
<1> QED BY <1>1, <1>2, <1>3, <1>4, <1>5

\* One request moves: what it must show to keep the locks and the questions.
LEMMA OneRequest ==
    ASSUME Asking, LocksHold, TypeOK, Gentle, NEW h \in Holder,
           \A g \in Holder \ {h} : job'[g] = job[g],
           job'[h].phase \notin {"idle", "over"} => job'[h].of \in Version,
           job'[h].phase # "pinning" => job'[h].seen = "none",
           \A i \in DOMAIN job'[h].todo : state'[job'[h].todo[i]] # "absent",
           job'[h].seen # "none" => job'[h].todo # None /\ job'[h].seen # "absent",
           job'[h].seen \notin {"none", "pruned"} => Head(job'[h].todo) \in Live',
           job'[h].locked \subseteq Live',
           job'[h].rescued \subseteq job'[h].locked,
           \A g \in Holder \ {h} : job'[h].locked \cap job[g].locked = {}
    PROVE  Asking' /\ LocksHold'
<1>1. \A g \in Holder : \A i \in DOMAIN job[g].todo : job[g].todo[i] \in Version
  BY DEF TypeOK
<1>2. Live \subseteq Live'
  BY DEF Gentle, Live
<1>3. Asking'
  BY <1>1 DEF Asking, Gentle
<1>4. LocksHold'
  BY <1>2 DEF LocksHold
<1> QED BY <1>3, <1>4

\* A request moves, and with it only rows that a gentle step may touch.
LEMMA HolderStepKeeps ==
    ASSUME VersionInv, TypeOK', NEW h \in Holder, HolderStep(h)
    PROVE  VersionInv'
<1>1. /\ TypeOK /\ Numbered /\ Asking /\ LocksHold /\ PinsHold
      /\ LiveVersionsHaveBytes /\ PassesInTime /\ ReadersInTime
  BY DEF VersionInv
<1>2. job[h].locked \subseteq Version /\ job[h].todo \in Seq(Version)
  BY <1>1 DEF TypeOK
\* What only moves the request.
<1>3. ASSUME Asking' /\ LocksHold', UNCHANGED <<now, rows, bytes, view, sweep>>
      PROVE  VersionInv'
  <2>1. Gentle
    BY <1>3, StillIsGentle DEF rows
  <2>2. Numbered' /\ LiveVersionsHaveBytes'
    BY <1>1, <1>3 DEF rows, Numbered, LiveVersionsHaveBytes
  <2> QED BY <1>1, <1>3, <2>1, <2>2, GentleKeeps DEF rows, VersionInv
\* The request is over, whatever it held.
<1>4. ASSUME Gentle, job' = [job EXCEPT ![h] = Over] PROVE Asking' /\ LocksHold'
  <2>1. job'[h] = Over /\ \A g \in Holder \ {h} : job'[g] = job[g]
    BY <1>1, <1>4 DEF TypeOK
  <2> QED BY <1>1, <1>4, <2>1, OneRequest, VersionFacts DEF None
<1>5. ASSUME NEW request \in Asked, Ask(h, request) PROVE VersionInv'
  <2>1. /\ \A g \in Holder \ {h} : job'[g] = job[g]
        /\ job'[h].of = Head(request.inputs) /\ job'[h].todo = request.inputs
        /\ job'[h].seen = job[h].seen /\ job'[h].phase = "pinning"
        /\ job'[h].locked = job[h].locked /\ job'[h].rescued = job[h].rescued
    BY <1>1, <1>5 DEF Ask, TypeOK
  <2>2. job[h].seen = "none"
    BY <1>1, <1>5 DEF Ask, Asking
  <2>3. Head(request.inputs) \in Version /\ state' = state /\ Gentle
    BY <1>5, VersionsAssumption, StillIsGentle DEF Ask, rows, None
  <2>4. \A i \in DOMAIN request.inputs : state[request.inputs[i]] # "absent"
    BY <1>5 DEF Ask
  <2>5. \A g \in Holder \ {h} : job'[h].locked \cap job[g].locked = {}
    BY <1>1, <2>1 DEF LocksHold
  <2>6. job'[h].locked \subseteq Live' /\ job'[h].rescued \subseteq job'[h].locked
    BY <1>1, <2>1, <2>3 DEF LocksHold, Live
  <2>7. Asking' /\ LocksHold'
    BY <1>1, <2>1, <2>2, <2>3, <2>4, <2>5, <2>6, OneRequest
  <2> QED BY <1>3, <1>5, <2>7 DEF Ask
<1>6. CASE Look(h)
  <2> DEFINE v == Head(job[h].todo)
  <2>1. Gentle /\ state' = state
    BY <1>6, StillIsGentle DEF Look, rows
  <2>2. v \in Version /\ state[v] # "absent"
    BY <1>1, <1>2, <1>6 DEF Look, None, Asking
  <2>3. CASE job' = [job EXCEPT ![h] = Over]
    BY <1>3, <1>4, <1>6, <2>1, <2>3 DEF Look
  <2>4. CASE job' = [job EXCEPT ![h].seen = state[v]]
    <3>1. /\ \A g \in Holder \ {h} : job'[g] = job[g]
          /\ job'[h].of = job[h].of /\ job'[h].todo = job[h].todo
          /\ job'[h].seen = state[v] /\ job'[h].phase = job[h].phase
          /\ job'[h].locked = job[h].locked /\ job'[h].rescued = job[h].rescued
      BY <1>1, <2>4 DEF TypeOK
    <3>2. /\ job[h].phase = "pinning" /\ job[h].todo # None
      BY <1>6 DEF Look
    <3>3. state[v] \notin {"none", "pruned"} => v \in Live'
      BY <1>1, <2>1, <2>2 DEF Live, TypeOK, States
    <3>4. \A g \in Holder \ {h} : job'[h].locked \cap job[g].locked = {}
      BY <1>1, <3>1 DEF LocksHold
    <3>5. job'[h].locked \subseteq Live' /\ job'[h].rescued \subseteq job'[h].locked
      BY <1>1, <2>1, <3>1 DEF LocksHold, Live
    <3>6. \A i \in DOMAIN job'[h].todo : state'[job'[h].todo[i]] # "absent"
      BY <1>1, <2>1, <3>1 DEF Asking
    <3>7. job[h].of \in Version
      BY <1>1, <3>2 DEF Asking
    <3> HIDE DEF v
    <3>8. Head(job'[h].todo) = v
      BY <3>1 DEF v
    <3>9. Asking' /\ LocksHold'
      BY <1>1, <2>1, <2>2, <3>1, <3>2, <3>3, <3>4, <3>5, <3>6, <3>7, <3>8, OneRequest
    <3> QED BY <1>3, <1>6, <3>9 DEF Look
  <2> QED BY <1>6, <2>3, <2>4 DEF Look
<1>7. CASE Lock(h)
  <2> DEFINE v == Head(job[h].todo)
             rescued == IF job[h].seen = "pending_delete"
                        THEN job[h].rescued \cup {v} ELSE job[h].rescued
             next == [job[h] EXCEPT !.todo = Tail(job[h].todo), !.seen = "none",
                                    !.locked = job[h].locked \cup {v},
                                    !.rescued = rescued]
  <2>1. Gentle /\ state' = state
    BY <1>7, StillIsGentle DEF Lock, rows
  <2>2. CASE job[h].seen = "pruned"
    <3>1. job' = [job EXCEPT ![h] = Over]
      BY <1>7, <2>2 DEF Lock
    <3> QED BY <1>3, <1>4, <1>7, <2>1, <3>1 DEF Lock
  <2>3. CASE job[h].seen # "pruned"
    <3>1. job' = [job EXCEPT ![h] = next]
      BY <1>7, <2>3 DEF Lock
    <3>2. /\ next.of = job[h].of /\ next.phase = job[h].phase /\ next.seen = "none"
          /\ next.todo = Tail(job[h].todo) /\ next.locked = job[h].locked \cup {v}
          /\ next.rescued \subseteq job[h].rescued \cup {v}
      BY <1>1 DEF TypeOK
    <3>3. v \in Live /\ job[h].locked \subseteq Live /\ job[h].rescued \subseteq job[h].locked
      BY <1>1, <1>7, <2>3 DEF Lock, LocksHold
    <3>4. \A i \in DOMAIN Tail(job[h].todo) : state[Tail(job[h].todo)[i]] # "absent"
      BY <1>1, <1>2, <1>7 DEF Asking, Lock
    <3>5. \A g \in Holder \ {h} : v \notin job[g].locked /\ job[h].locked \cap job[g].locked = {}
      BY <1>1, <1>7 DEF Lock, LocksHold
    <3>6. job[h].phase = "pinning" /\ job[h].of \in Version
      BY <1>1, <1>7 DEF Lock, Asking
    <3>7. Live' = Live
      BY <2>1 DEF Live
    <3> HIDE DEF v, next
    <3>8. job'[h] = next /\ \A g \in Holder \ {h} : job'[g] = job[g]
      BY <1>1, <3>1 DEF TypeOK
    <3>9. next.locked \subseteq Live' /\ next.rescued \subseteq next.locked
      BY <3>2, <3>3, <3>7
    <3>10. \A g \in Holder \ {h} : next.locked \cap job[g].locked = {}
      BY <3>2, <3>5
    <3>11. \A i \in DOMAIN next.todo : state'[next.todo[i]] # "absent"
      BY <2>1, <3>2, <3>4
    <3>12. Asking' /\ LocksHold'
      BY <1>1, <2>1, <3>2, <3>6, <3>8, <3>9, <3>10, <3>11, OneRequest
    <3> QED BY <1>3, <1>7, <3>12 DEF Lock
  <2> QED BY <2>2, <2>3
<1>8. CASE CommitPins(h)
  <2>1. job[h].rescued \subseteq job[h].locked /\ job[h].locked \subseteq Live
    BY <1>1 DEF LocksHold
  <2>2. /\ state' = [v \in Version |-> IF v \in job[h].rescued THEN "active" ELSE state[v]]
        /\ deleteAfter' = [v \in Version |-> IF v \in job[h].rescued THEN 0
                                             ELSE deleteAfter[v]]
        /\ now' = now /\ head' = head /\ bytes' = bytes
        /\ UNCHANGED <<sweep, view>>
    BY <1>8 DEF CommitPins
  <2>3. Gentle
    BY <2>1, <2>2 DEF Gentle, Live
  <2>4. Live \subseteq Live'
    BY <2>3 DEF Gentle, Live
  <2>5. /\ \A g \in Holder \ {h} : job'[g] = job[g] /\ pins'[g] = pins[g]
        /\ job'[h].of = job[h].of /\ job'[h].todo = job[h].todo
        /\ job'[h].seen = job[h].seen /\ job'[h].phase = "reading"
        /\ job'[h].locked = {} /\ job'[h].rescued = {} /\ pins'[h] = job[h].locked
    BY <1>1, <1>8 DEF CommitPins, TypeOK
  <2>6. job[h].todo = None /\ job[h].seen = "none" /\ job[h].of \in Version
    BY <1>1, <1>8 DEF CommitPins, Asking
  <2>7. Asking' /\ LocksHold'
    BY <1>1, <2>3, <2>5, <2>6, OneRequest DEF None
  <2>8. PinsHold'
    BY <1>1, <2>1, <2>4, <2>5 DEF PinsHold
  <2>9. Numbered' /\ LiveVersionsHaveBytes'
    BY <1>1, <2>1, <2>2 DEF Numbered, LiveVersionsHaveBytes, Live
  <2> QED BY <1>1, <2>2, <2>3, <2>7, <2>8, <2>9, GentleKeeps DEF VersionInv
<1>9. CASE ReadTarget(h) \/ ChooseNumber(h)
  <2>1. Gentle /\ state' = state
    BY <1>9, StillIsGentle DEF ReadTarget, ChooseNumber, rows
  <2>2. /\ \A g \in Holder \ {h} : job'[g] = job[g]
        /\ job'[h].of = job[h].of /\ job'[h].todo = job[h].todo
        /\ job'[h].seen = job[h].seen /\ job'[h].phase \in {"publishing", "committing"}
        /\ job'[h].locked = job[h].locked /\ job'[h].rescued = job[h].rescued
    BY <1>1, <1>9 DEF ReadTarget, ChooseNumber, TypeOK
  <2>3. job[h].seen = "none" /\ job[h].of \in Version
    BY <1>1, <1>9 DEF ReadTarget, ChooseNumber, Asking
  <2>4. \A i \in DOMAIN job'[h].todo : state'[job'[h].todo[i]] # "absent"
    BY <1>1, <2>1, <2>2 DEF Asking
  <2>5. \A g \in Holder \ {h} : job'[h].locked \cap job[g].locked = {}
    BY <1>1, <2>2 DEF LocksHold
  <2>6. job'[h].locked \subseteq Live' /\ job'[h].rescued \subseteq job'[h].locked
    BY <1>1, <2>1, <2>2 DEF LocksHold, Live
  <2>7. Asking' /\ LocksHold'
    BY <1>1, <2>1, <2>2, <2>3, <2>4, <2>5, <2>6, OneRequest
  <2> QED BY <1>3, <1>9, <2>7 DEF ReadTarget, ChooseNumber
<1>10. CASE ReleasePins(h)
  <2>1. Gentle /\ state' = state /\ now' = now /\ UNCHANGED <<head, bytes, sweep, view>>
    BY <1>10, StillIsGentle DEF ReleasePins
  <2>2. PinsHold'
    BY <1>1, <1>10, <2>1 DEF ReleasePins, PinsHold, Live, TypeOK
  <2>3. Asking' /\ LocksHold'
    BY <1>4, <1>10, <2>1 DEF ReleasePins
  <2>4. Numbered' /\ LiveVersionsHaveBytes'
    BY <1>1, <2>1 DEF Numbered, LiveVersionsHaveBytes
  <2> QED BY <1>1, <2>1, <2>2, <2>3, <2>4, GentleKeeps DEF VersionInv
<1>11. CASE PublishCopy(h)
  <2> DEFINE d == job[h].of[1]
             n == job[h].number
  <2>1. job' = [job EXCEPT ![h] = Over]
    BY <1>11 DEF PublishCopy
  <2>2. CASE head[d] < n
    <3>1. d \in Dataset /\ n \in Nat /\ n <= Last
      <4>1. job[h].of \in Version
        BY <1>1, <1>11 DEF PublishCopy, Asking
      <4>2. job[h].number \in 0..Last
        BY <1>1 DEF TypeOK
      <4> QED BY <4>1, <4>2, VersionFacts
    <3>2. <<d, n>> \in Version
      BY <1>1, <2>2, <3>1, Numbers
    <3>3. /\ head' = [head EXCEPT ![d] = n]
          /\ state' = [state EXCEPT ![<<d, n>>] = "active"]
          /\ bytes' = bytes \cup {<<d, n>>}
          /\ pins' = [pins EXCEPT ![h] = {}]
          /\ now' = now /\ UNCHANGED <<deleteAfter, sweep, view>>
      BY <1>11, <2>2 DEF PublishCopy
    <3> HIDE DEF d, n
    <3>4. state[<<d, n>>] = "absent"
      BY <1>1, <2>2, <3>1, <3>2 DEF Numbered, TypeOK
    <3>5. Gentle
      BY <1>1, <3>2, <3>3, <3>4 DEF Gentle, Live, TypeOK
    <3>6. PinsHold'
      BY <1>1, <3>3, <3>5 DEF PinsHold, Gentle, TypeOK
    <3>7. Numbered'
      BY <1>1, <2>2, <3>1, <3>2, <3>3, VersionFacts DEF Numbered, TypeOK
    <3>8. LiveVersionsHaveBytes'
      BY <1>1, <3>2, <3>3 DEF LiveVersionsHaveBytes, TypeOK
    <3>9. Asking' /\ LocksHold'
      BY <1>4, <2>1, <3>5
    <3> QED BY <1>1, <3>3, <3>5, <3>6, <3>7, <3>8, <3>9, GentleKeeps DEF VersionInv
  <2>3. CASE ~(head[d] < n)
    <3>1. UNCHANGED <<now, rows, bytes, view, sweep>>
      BY <1>11, <2>3 DEF PublishCopy, rows
    <3>2. Gentle
      BY <3>1, StillIsGentle DEF rows
    <3> QED BY <1>3, <1>4, <2>1, <3>1, <3>2
  <2> QED BY <2>2, <2>3
<1>12. CASE Die(h)
  <2>1. Gentle
    BY <1>12, StillIsGentle DEF Die, rows
  <2> QED BY <1>3, <1>4, <1>12, <2>1 DEF Die
<1> QED
  BY <1>5, <1>6, <1>7, <1>8, <1>9, <1>10, <1>11, <1>12 DEF HolderStep

\* A pass moves, or a fault ends it.  No prune comes between what a request
\* read and its lock, and no version is marked again under a pass that lists it.
LEMMA SweeperStepKeeps ==
    ASSUME Overtaken = FALSE, Remarked = FALSE, VersionInv, TypeOK', NEW s \in Sweeper,
           SweepStep(s) \/ SweepDies(s) \/ \E v \in Version : RemoveFails(s, v)
    PROVE  VersionInv'
<1>1. /\ TypeOK /\ Numbered /\ Asking /\ LocksHold /\ PinsHold
      /\ LiveVersionsHaveBytes /\ PassesInTime /\ ReadersInTime
  BY DEF VersionInv
<1>2. now \in Nat /\ Patience \in Nat /\ Grace \in Nat /\ 2 * Patience < Grace
  BY <1>1, VersionFacts DEF TypeOK
<1>3. \A t \in Sweeper : sweep[t].moment \in Nat /\ sweep[t].todo \subseteq Version
  BY <1>1 DEF TypeOK
\* What only moves the pass.
<1>4. ASSUME PassesInTime', UNCHANGED <<now, head, state, deleteAfter, pins, bytes, job, view>>
      PROVE  VersionInv'
  <2>1. Gentle
    BY <1>4, StillIsGentle
  <2>2. Numbered' /\ LiveVersionsHaveBytes'
    BY <1>1, <1>4 DEF Numbered, LiveVersionsHaveBytes
  <2> QED BY <1>1, <1>4, <2>1, <2>2, GentleKeeps DEF VersionInv
\* Its place is as PassesInTime wants it, and the others stand still.
<1>5. ASSUME UNCHANGED <<now, state, deleteAfter>>,
             \A t \in Sweeper \ {s} : sweep'[t] = sweep[t],
             \/ sweep'[s].phase = "idle"
             \/ /\ sweep'[s].phase \in {"removing", "recording"}
                /\ sweep'[s].phase = "recording" => sweep'[s].at \in Version
                /\ \A v \in sweep'[s].todo : state[v] = "pruned"
             \/ /\ sweep'[s].phase = "marking" /\ sweep'[s].moment = now
                /\ \A v \in sweep'[s].todo : state[v] = "active"
      PROVE  PassesInTime'
  BY <1>1, <1>2, <1>5 DEF PassesInTime, SafeUntil
<1>6. CASE SweepStart(s)
  <2>1. /\ sweep'[s].phase = "marking" /\ sweep'[s].moment = now
        /\ sweep'[s].todo = Eligible
        /\ \A t \in Sweeper \ {s} : sweep'[t] = sweep[t]
    BY <1>1, <1>6 DEF SweepStart, TypeOK
  <2>2. UNCHANGED <<now, head, state, deleteAfter, pins, bytes, job, view>>
    BY <1>6 DEF SweepStart, rows
  <2> QED BY <1>4, <1>5, <2>1, <2>2 DEF Eligible
<1>7. CASE Mark(s)
  <2> DEFINE marks == sweep[s].todo
             moment == sweep[s].moment
  <2>1. /\ sweep[s].phase = "marking" /\ UNCHANGED <<now, head, pins, bytes, job, view>>
        /\ \A v \in Version : state'[v] = IF v \in marks THEN "pending_delete" ELSE state[v]
        /\ \A v \in Version : deleteAfter'[v] = IF v \in marks THEN moment + Grace
                                                ELSE deleteAfter[v]
    BY <1>7 DEF Mark, Due
  <2>2. /\ sweep'[s].phase = "pruning"
        /\ \A v \in sweep'[s].todo : deleteAfter'[v] <= moment
        /\ \A t \in Sweeper \ {s} : sweep'[t] = sweep[t]
    BY <1>1, <1>7 DEF Mark, DueAt, TypeOK
  <2>3. moment \in Nat /\ moment <= now /\ now <= moment + Patience /\ marks \subseteq Version
    BY <1>1, <1>3, <2>1 DEF PassesInTime
  <2>4. \A v \in marks : state[v] \in {"active", "pending_delete"}
    BY <1>1, <2>1 DEF PassesInTime, SafeUntil
  <2>5. \A t \in Sweeper \ {s} : sweep[t].phase = "pruning" => sweep[t].todo \cap marks = {}
    BY <1>7 DEF Mark
  <2> HIDE DEF marks, moment
  <2>6. Live' = Live /\ \A v \in Version : state[v] # "absent" <=> state'[v] # "absent"
    BY <1>1, <2>1, <2>3, <2>4 DEF Live, TypeOK, States
  <2>7. \A v \in Version : state[v] = "pruned" => state'[v] = "pruned"
    BY <2>1, <2>4
  \* A mark made now is due later than any patience that began by now.
  <2>8. ASSUME NEW v \in Version, NEW t \in Nat, t <= now, SafeUntil(v, t + Patience)
        PROVE  SafeUntil(v, t + Patience)'
    <3>1. moment + Grace > t + Patience
      BY <1>2, <2>3, <2>8
    <3> QED BY <2>1, <2>8, <3>1 DEF SafeUntil
  <2>9. PassesInTime'
    <3>1. ASSUME NEW t \in Sweeper, t # s
          PROVE  /\ sweep[t].phase = "marking" =>
                      \A v \in sweep[t].todo : SafeUntil(v, sweep[t].moment + Patience)'
                 /\ sweep[t].phase = "pruning" =>
                      \A v \in sweep[t].todo :
                        state'[v] = "pending_delete" => deleteAfter'[v] <= now
                 /\ sweep[t].phase \in {"removing", "recording"} =>
                      \A v \in sweep[t].todo : state'[v] = "pruned"
      <4>1. CASE sweep[t].phase = "marking"
        BY <1>1, <1>3, <2>2, <2>8, <3>1, <4>1 DEF PassesInTime
      <4>2. CASE sweep[t].phase = "pruning"
        BY <1>1, <1>3, <2>1, <2>5, <3>1, <4>2 DEF PassesInTime
      <4>3. CASE sweep[t].phase \in {"removing", "recording"}
        BY <1>1, <1>3, <2>7, <4>3 DEF PassesInTime
      <4> QED BY <4>1, <4>2, <4>3
    <3>2. \A v \in sweep'[s].todo : deleteAfter'[v] <= now
      <4>1. sweep'[s].todo \subseteq Version /\ deleteAfter' \in [Version -> Nat]
        BY DEF TypeOK
      <4> QED BY <1>2, <2>2, <2>3, <4>1
    <3> QED BY <1>1, <2>1, <2>2, <3>1, <3>2 DEF PassesInTime
  <2>10. ReadersInTime'
    <3>1. \A u \in Viewer : view[u].since \in Nat
      BY <1>1 DEF TypeOK
    <3>2. \A u \in Viewer : view[u].was = "active" =>
            SafeUntil(view[u].of, view[u].since + Patience)'
      BY <1>1, <2>1, <2>8, <3>1 DEF ReadersInTime
    <3> QED BY <1>1, <2>1, <3>2 DEF ReadersInTime
  <2>11. Asking'
    <3>1. \A h \in Holder : \A i \in DOMAIN job[h].todo : job[h].todo[i] \in Version
      BY <1>1 DEF TypeOK
    <3> QED BY <1>1, <2>1, <2>6, <3>1 DEF Asking
  <2>12. LocksHold' /\ PinsHold'
    BY <1>1, <2>1, <2>6 DEF LocksHold, PinsHold
  <2>13. Numbered' /\ LiveVersionsHaveBytes'
    BY <1>1, <2>1, <2>3, <2>4, <2>6 DEF Numbered, LiveVersionsHaveBytes
  <2> QED BY <2>9, <2>10, <2>11, <2>12, <2>13 DEF VersionInv
<1>8. CASE ListPruned(s)
  <2>1. /\ sweep'[s].phase = "removing" /\ sweep'[s].todo = Orphans
        /\ \A t \in Sweeper \ {s} : sweep'[t] = sweep[t]
    BY <1>1, <1>8 DEF ListPruned, TypeOK
  <2>2. UNCHANGED <<now, head, state, deleteAfter, pins, bytes, job, view>>
    BY <1>8 DEF ListPruned, rows
  <2> QED BY <1>4, <1>5, <2>1, <2>2 DEF Orphans
<1>9. ASSUME NEW v \in Version, PruneOne(s, v) PROVE VersionInv'
  <2>1. /\ sweep[s].phase = "pruning" /\ v \in sweep[s].todo /\ ~Locked(v)
        /\ \A h \in Holder : job[h].seen # "none" => Head(job[h].todo) # v
        /\ UNCHANGED <<now, head, pins, bytes, job, view>>
    BY <1>9 DEF PruneOne
  <2>2. /\ sweep'[s].phase = "pruning" /\ sweep'[s].todo = sweep[s].todo \ {v}
        /\ \A t \in Sweeper \ {s} : sweep'[t] = sweep[t]
    BY <1>1, <1>9 DEF PruneOne, TypeOK
  <2>3. \A t \in Sweeper :
          /\ sweep'[t].phase = sweep[t].phase /\ sweep'[t].todo \subseteq sweep[t].todo
          /\ sweep[t].phase \in {"marking", "recording"} => sweep'[t] = sweep[t]
    BY <2>1, <2>2
  <2>4. CASE state[v] # "pending_delete" \/ Held(v)
    <3>1. \/ UNCHANGED <<state, deleteAfter>>
          \/ /\ state[v] = "pending_delete" /\ state' = [state EXCEPT ![v] = "active"]
             /\ deleteAfter' = [deleteAfter EXCEPT ![v] = 0]
      BY <1>9, <2>4 DEF PruneOne
    <3>2. Gentle
      BY <1>1, <3>1 DEF Gentle, Live, TypeOK
    <3>3. \A w \in Version : \/ state'[w] = state[w]
                             \/ state[w] = "pending_delete" /\ state'[w] = "active"
      BY <1>1, <3>1 DEF TypeOK
    <3>4. Numbered' /\ LiveVersionsHaveBytes'
      BY <1>1, <2>1, <3>3 DEF Numbered, LiveVersionsHaveBytes
    <3>5. \A t \in Sweeper : sweep[t].phase = "marking" =>
            \A w \in sweep[t].todo : SafeUntil(w, sweep[t].moment + Patience)'
      BY <1>1, <1>3, <2>3, <3>2, GentleIsSafe DEF PassesInTime
    <3>6. PassesInTime'
      BY <1>1, <1>3, <2>1, <2>3, <3>2, <3>5 DEF PassesInTime, Gentle
    <3> QED BY <1>1, <2>1, <3>2, <3>4, <3>6, GentleKeeps DEF VersionInv
  <2>5. CASE state[v] = "pending_delete" /\ ~Held(v)
    <3>1. /\ state' = [state EXCEPT ![v] = "pruned"]
          /\ deleteAfter' = [deleteAfter EXCEPT ![v] = 0]
      BY <1>9, <2>5 DEF PruneOne
    <3>2. /\ state'[v] = "pruned" /\ deleteAfter[v] <= now
          /\ \A w \in Version \ {v} : state'[w] = state[w] /\ deleteAfter'[w] = deleteAfter[w]
      BY <1>1, <2>1, <2>5, <3>1 DEF TypeOK, PassesInTime
    <3>3. Live' = Live \ {v}
      BY <3>2 DEF Live
    \* A version that is safe until later than now is not the one pruned.
    <3>4. ASSUME NEW w \in Version, NEW t \in Nat, now <= t, SafeUntil(w, t)
          PROVE  SafeUntil(w, t)'
      <4>1. w # v
        BY <1>1, <1>2, <2>5, <3>2, <3>4 DEF SafeUntil, TypeOK
      <4> QED BY <3>2, <3>4, <4>1 DEF SafeUntil
    <3>5. PassesInTime'
      <4>1. \A t \in Sweeper : sweep[t].phase = "marking" =>
              \A w \in sweep[t].todo : SafeUntil(w, sweep[t].moment + Patience)'
        <5>1. \A t \in Sweeper : sweep[t].moment + Patience \in Nat
          BY <1>2, <1>3
        <5> QED BY <1>1, <1>3, <2>3, <3>4, <5>1 DEF PassesInTime
      <4>2. \A w \in Version : /\ state'[w] = "pending_delete" =>
                                    /\ state[w] = "pending_delete"
                                    /\ deleteAfter'[w] = deleteAfter[w]
                               /\ state[w] = "pruned" => state'[w] = "pruned"
        BY <3>2
      <4> QED BY <1>1, <1>3, <2>1, <2>3, <4>1, <4>2 DEF PassesInTime
    <3>6. ReadersInTime'
      <4>1. \A u \in Viewer : view[u].since + Patience \in Nat
        BY <1>1, <1>2 DEF TypeOK
      <4>2. \A u \in Viewer : view[u].was = "active" =>
              SafeUntil(view[u].of, view[u].since + Patience)'
        BY <1>1, <2>1, <3>4, <4>1 DEF ReadersInTime
      <4> QED BY <1>1, <2>1, <4>2 DEF ReadersInTime
    <3>7. LocksHold'
      BY <1>1, <2>1, <3>3 DEF LocksHold, Locked
    <3>8. PinsHold'
      BY <1>1, <2>1, <2>5, <3>3 DEF PinsHold, Held, Pinned
    <3>9. Asking'
      <4>1. \A h \in Holder : \A i \in DOMAIN job[h].todo : job[h].todo[i] \in Version
        BY <1>1 DEF TypeOK
      <4>2. \A w \in Version : state[w] # "absent" => state'[w] # "absent"
        BY <3>2
      <4> QED BY <1>1, <2>1, <4>1, <4>2 DEF Asking
    <3>10. Numbered' /\ LiveVersionsHaveBytes'
      BY <1>1, <2>1, <2>5, <3>2 DEF Numbered, LiveVersionsHaveBytes
    <3> QED BY <3>5, <3>6, <3>7, <3>8, <3>9, <3>10 DEF VersionInv
  <2> QED BY <2>4, <2>5
<1>10. ASSUME NEW v \in Version, RemoveBytes(s, v) PROVE VersionInv'
  <2>1. /\ sweep'[s].phase = "recording" /\ sweep'[s].todo = sweep[s].todo \ {v}
        /\ sweep'[s].at = v
        /\ \A t \in Sweeper \ {s} : sweep'[t] = sweep[t]
    BY <1>1, <1>10 DEF RemoveBytes, TypeOK
  <2>2. /\ UNCHANGED <<now, head, state, deleteAfter, pins, job, view>>
        /\ bytes' = bytes \ {v}
    BY <1>10 DEF RemoveBytes, rows
  <2>3. \A w \in sweep[s].todo : state[w] = "pruned"
    BY <1>1, <1>10 DEF RemoveBytes, PassesInTime
  <2>4. PassesInTime'
    BY <1>5, <2>1, <2>2, <2>3
  <2>5. Numbered' /\ LiveVersionsHaveBytes'
    BY <1>1, <1>10, <2>2, <2>3 DEF Numbered, LiveVersionsHaveBytes, RemoveBytes
  <2>6. Gentle
    BY <2>2, StillIsGentle
  <2> QED BY <1>1, <2>2, <2>4, <2>5, <2>6, GentleKeeps DEF VersionInv
<1>11. CASE RecordRemoved(s) \/ \E v \in Version : RemoveFails(s, v)
  <2>0. \/ sweep' = [sweep EXCEPT ![s].phase = "removing", ![s].at = None]
        \/ \E v \in Version : sweep' = [sweep EXCEPT ![s].todo = @ \ {v}]
    BY <1>11 DEF RecordRemoved, RemoveFails
  <2>1. /\ sweep'[s].phase = "removing" /\ sweep'[s].todo \subseteq sweep[s].todo
        /\ sweep[s].phase \in {"removing", "recording"}
        /\ \A t \in Sweeper \ {s} : sweep'[t] = sweep[t]
    BY <1>1, <1>11, <2>0 DEF RecordRemoved, RemoveFails, TypeOK
  <2>2. UNCHANGED <<now, head, state, deleteAfter, pins, bytes, job, view>>
    BY <1>11 DEF RecordRemoved, RemoveFails, rows
  <2>3. \A w \in sweep'[s].todo : state[w] = "pruned"
    BY <1>1, <2>1 DEF PassesInTime
  <2> QED BY <1>4, <1>5, <2>1, <2>2, <2>3
<1>12. CASE SweepDone(s) \/ SweepDies(s)
  <2>1. sweep'[s].phase = "idle" /\ \A t \in Sweeper \ {s} : sweep'[t] = sweep[t]
    BY <1>1, <1>12 DEF SweepDone, SweepDies, TypeOK, Resting
  <2>2. UNCHANGED <<now, head, state, deleteAfter, pins, bytes, job, view>>
    BY <1>12 DEF SweepDone, SweepDies, rows
  <2> QED BY <1>4, <1>5, <2>1, <2>2
<1> QED
  BY <1>6, <1>7, <1>8, <1>9, <1>10, <1>11, <1>12 DEF SweepStep

\* Every step keeps what is needed where it is.
LEMMA VersionStep ==
    ASSUME Overtaken = FALSE, Remarked = FALSE, VersionInv, [Next]_vars
    PROVE  VersionInv'
<1>1. /\ TypeOK /\ Numbered /\ Asking /\ LocksHold /\ PinsHold
      /\ LiveVersionsHaveBytes /\ PassesInTime /\ ReadersInTime
  BY DEF VersionInv
<1>2. TypeOK'
  BY <1>1, Typing
<1>3. now \in Nat /\ Patience \in Nat
  BY <1>1, VersionFacts DEF TypeOK
<1>4. CASE UNCHANGED vars
  <2>1. Gentle
    BY <1>4, StillIsGentle DEF vars, rows
  <2>2. Numbered' /\ LiveVersionsHaveBytes'
    BY <1>1, <1>4 DEF Numbered, LiveVersionsHaveBytes, vars, rows
  <2> QED BY <1>1, <1>2, <1>4, <2>1, <2>2, GentleKeeps DEF vars, rows, VersionInv
<1>5. ASSUME NEW h \in Holder, HolderStep(h) PROVE VersionInv'
  BY <1>2, <1>5, HolderStepKeeps
<1>6. ASSUME NEW s \in Sweeper,
             SweepStep(s) \/ SweepDies(s) \/ \E v \in Version : RemoveFails(s, v)
      PROVE  VersionInv'
  BY <1>2, <1>6, SweeperStepKeeps
<1>7. ASSUME NEW d \in Dataset, Publish(d) PROVE VersionInv'
  <2> DEFINE new == <<d, NextNumber(d)>>
  <2>1. NextNumber(d) \in Nat /\ NextNumber(d) <= Last /\ head[d] < NextNumber(d)
    BY <1>1, <1>7, VersionFacts DEF Publish, NextNumber, TypeOK
  <2>2. new \in Version
    BY <1>1, <2>1, Numbers
  <2>3. /\ head' = [head EXCEPT ![d] = NextNumber(d)]
        /\ state' = [state EXCEPT ![new] = "active"]
        /\ bytes' = bytes \cup {new}
        /\ now' = now /\ UNCHANGED <<deleteAfter, pins, job, sweep, view>>
    BY <1>7 DEF Publish
  <2>4. state[new] = "absent"
    BY <1>1, <2>1, <2>2 DEF Numbered, TypeOK
  <2>5. Numbered'
    BY <1>1, <2>1, <2>2, <2>3, VersionFacts DEF Numbered, TypeOK
  <2> HIDE DEF new
  <2>6. Gentle
    BY <1>1, <2>2, <2>3, <2>4 DEF Gentle, Live, TypeOK
  <2>7. LiveVersionsHaveBytes'
    BY <1>1, <2>2, <2>3 DEF LiveVersionsHaveBytes, TypeOK
  <2> QED BY <1>1, <1>2, <2>3, <2>5, <2>6, <2>7, GentleKeeps DEF VersionInv
<1>8. ASSUME NEW u \in Viewer, (\E v \in Version : Open(u, v)) \/ Close(u)
      PROVE  VersionInv'
  <2>1. Gentle
    BY <1>8, StillIsGentle DEF Open, Close, rows
  <2>2. UNCHANGED <<now, head, state, deleteAfter, pins, bytes, job, sweep>>
    BY <1>8 DEF Open, Close, rows
  <2>3. Numbered' /\ LiveVersionsHaveBytes'
    BY <1>1, <2>2 DEF Numbered, LiveVersionsHaveBytes
  <2>4. /\ \A t \in Viewer \ {u} : view'[t] = view[t]
        /\ view'[u].was = "active" =>
             /\ view'[u].of \in Version /\ view'[u].since = now
             /\ state[view'[u].of] = "active"
    BY <1>1, <1>8 DEF Open, Close, NoView, TypeOK
  <2>5. ReadersInTime'
    BY <1>1, <1>3, <2>2, <2>4 DEF ReadersInTime, SafeUntil
  <2> QED BY <1>1, <1>2, <2>1, <2>2, <2>3, <2>5, GentleKeeps DEF VersionInv
<1>9. CASE Tick
  <2>1. now' = now + 1 /\ UNCHANGED <<head, state, deleteAfter, pins, bytes, job, view, sweep>>
    BY <1>9 DEF Tick, rows
  <2>2. \A s \in Sweeper : sweep[s].moment \in Nat /\ sweep[s].todo \subseteq Version
    BY <1>1 DEF TypeOK
  <2>3. \A s \in Sweeper : sweep[s].phase = "marking" => now < sweep[s].moment + Patience
    BY <1>9 DEF Tick
  <2>4. PassesInTime'
    BY <1>1, <1>3, <2>1, <2>2, <2>3 DEF PassesInTime, SafeUntil, TypeOK
  <2>5. \A u \in Viewer : view[u].was = "active" => now < view[u].since + Patience
    BY <1>9 DEF Tick, NoView
  <2>6. \A u \in Viewer : view[u].since \in Nat
    BY <1>1 DEF TypeOK
  <2>7. ReadersInTime'
    BY <1>1, <1>3, <2>1, <2>5, <2>6 DEF ReadersInTime, SafeUntil
  <2>8. Asking' /\ LocksHold' /\ PinsHold' /\ Numbered' /\ LiveVersionsHaveBytes'
    BY <1>1, <2>1 DEF Asking, LocksHold, PinsHold, Numbered, LiveVersionsHaveBytes, Live
  <2> QED BY <1>2, <2>4, <2>7, <2>8 DEF VersionInv
<1> QED
  BY <1>4, <1>5, <1>6, <1>7, <1>8, <1>9 DEF Next

\* Before anything runs, the first versions are active and have their bytes.
LEMMA VersionInit == Init => VersionInv
<1> SUFFICES ASSUME Init PROVE VersionInv
  OBVIOUS
<1>1. Idle \in [phase : {"idle", "pinning", "reading", "publishing",
                         "committing", "over"},
                kind : {"none", "rollback", "replay"}, of : Version \cup {None},
                todo : Seq(Version), seen : {"none"} \cup States,
                locked : SUBSET Version, rescued : SUBSET Version,
                number : 0..Last]
  <2>1. 0 \in 0..Last /\ None \in Seq(Version)
    BY VersionFacts DEF None
  <2> QED BY <2>1 DEF Idle
<1>2. /\ Resting \in [phase : {"idle", "marking", "pruning", "removing", "recording"},
                      moment : Nat, todo : SUBSET Version, at : Version \cup {None}]
      /\ NoView \in [of : Version \cup {None}, since : Nat, was : States]
  BY DEF Resting, NoView, States
<1>3. now \in 0..Horizon /\ faults \in 0..MaxFaults /\ head \in [Dataset -> 1..Last]
  BY VersionsAssumption DEF Init
<1>4. state \in [Version -> States] /\ deleteAfter \in [Version -> Nat]
  BY DEF Init, States
<1>5. TypeOK
  BY <1>1, <1>2, <1>3, <1>4 DEF Init, TypeOK
<1>6. Numbered /\ LiveVersionsHaveBytes
  BY DEF Init, Numbered, LiveVersionsHaveBytes
<1>7. Asking /\ LocksHold /\ PinsHold
  BY DEF Init, Asking, LocksHold, PinsHold, Idle, None
<1>8. PassesInTime /\ ReadersInTime
  BY DEF Init, PassesInTime, ReadersInTime, Resting, NoView
<1> QED BY <1>5, <1>6, <1>7, <1>8 DEF VersionInv

\* What anybody pinned, every version listed as readable, and what an early
\* reader opened keep their bytes, for any number of requests, passes and
\* deaths (version_lifecycle.py).
THEOREM NeededDataStays ==
    ASSUME Overtaken = FALSE, Remarked = FALSE
    PROVE  Spec => []VersionSafety
<1>1. VersionInv => VersionSafety
  <2> SUFFICES ASSUME VersionInv PROVE VersionSafety
    OBVIOUS
  <2>1. PinnedDataIsKept
    BY DEF VersionInv, PinsHold, Live, LiveVersionsHaveBytes, PinnedDataIsKept
  <2>2. EarlyReadersFinish
    BY DEF VersionInv, ReadersInTime, SafeUntil, LiveVersionsHaveBytes, EarlyReadersFinish
  <2> QED BY <2>1, <2>2 DEF VersionInv, VersionSafety
<1> QED BY <1>1, VersionInit, VersionStep, PTL DEF Spec

\* No rescue, mark or publication brings back a version whose bytes a pass may
\* be removing.
LEMMA TombstoneStep ==
    ASSUME VersionInv, VersionInv', [Next]_vars, NEW v \in Version, state[v] = "pruned"
    PROVE  state'[v] = "pruned"
<1>1. TypeOK /\ Numbered /\ LocksHold /\ PassesInTime
  BY DEF VersionInv
<1>2. ASSUME state' = state PROVE state'[v] = "pruned"
  BY <1>2
<1>3. ASSUME NEW h \in Holder, CommitPins(h) PROVE state'[v] = "pruned"
  BY <1>1, <1>3 DEF CommitPins, LocksHold, Live
<1>4. ASSUME NEW h \in Holder, PublishCopy(h) PROVE state'[v] = "pruned"
  <2>1. v[2] <= head[v[1]] /\ v[2] \in Nat /\ head[v[1]] \in Nat
    BY <1>1, VersionFacts DEF Numbered, TypeOK
  <2>2. head[job[h].of[1]] < job[h].number => v # <<job[h].of[1], job[h].number>>
    BY <1>1, <2>1 DEF TypeOK
  <2> QED BY <1>1, <1>4, <2>2 DEF PublishCopy, TypeOK
<1>5. ASSUME NEW d \in Dataset, Publish(d) PROVE state'[v] = "pruned"
  <2>1. v[2] <= head[v[1]] /\ v[2] \in Nat /\ head[v[1]] \in Nat
    BY <1>1, VersionFacts DEF Numbered, TypeOK
  <2>2. v # <<d, NextNumber(d)>>
    BY <2>1 DEF NextNumber
  <2> QED BY <1>1, <1>5, <2>2 DEF Publish, TypeOK
<1>6. ASSUME NEW s \in Sweeper, Mark(s) PROVE state'[v] = "pruned"
  BY <1>1, <1>6 DEF Mark, PassesInTime, SafeUntil
<1>7. ASSUME NEW s \in Sweeper, NEW w \in Version, PruneOne(s, w) PROVE state'[v] = "pruned"
  <2>1. \/ state' = state
        \/ state[w] = "pending_delete" /\ \E new : state' = [state EXCEPT ![w] = new]
    BY <1>7 DEF PruneOne
  <2> QED BY <1>1, <2>1 DEF TypeOK
<1> QED
  BY <1>2, <1>3, <1>4, <1>5, <1>6, <1>7
  DEF Next, HolderStep, SweepStep, Ask, Look, Lock, ReadTarget, ReleasePins, ChooseNumber,
      Die, Open, Close, SweepStart, ListPruned, RemoveBytes, RecordRemoved, RemoveFails,
      SweepDone, SweepDies, Tick, vars, rows

\* A tombstone is final, whatever mark, rescue or copy was decided before it.
THEOREM TombstonesStay ==
    ASSUME Overtaken = FALSE, Remarked = FALSE
    PROVE  Spec => PrunedIsFinal
<1>1. VersionInv /\ VersionInv' /\ [Next]_vars
        => [\A v \in Version : state[v] = "pruned" => state'[v] = "pruned"]_vars
  BY TombstoneStep
<1> QED BY <1>1, VersionInit, VersionStep, PTL DEF Spec, PrunedIsFinal
=============================================================================
