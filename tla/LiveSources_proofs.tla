------------------------ MODULE LiveSources_proofs ------------------------
(***************************************************************************)
(* Theorems about LiveSources for any number of keys, runners, changes,    *)
(* faults and fresh starts: its types, that a change is stored once, that  *)
(* the log is whole and that the mirror is right.                          *)
(*                                                                         *)
(* All but the first need a pass to end within its lease (SlowPass FALSE), *)
(* so that runners exclude each other; the last two also that nobody saves *)
(* without the lease (Person empty).                                       *)
(***************************************************************************)
EXTENDS LiveSources, FiniteSetTheorems, SequenceTheorems, WellFoundedInduction, TLAPS

(***************************************************************************)
(* Positions.                                                              *)
(***************************************************************************)

\* Among some numbers there is a least one.
LEMMA LeastPosition ==
    ASSUME NEW S \in SUBSET Nat, S # {}
    PROVE  \E s \in S : \A q \in S : s <= q
<1> DEFINE R == OpToRel(<, Nat)
<1>1. IsWellFoundedOn(R, Nat)
  BY NatLessThanWellFounded
<1>2. \A x, y \in Nat : y < x => <<y, x>> \in R
  BY DEF OpToRel
<1> HIDE DEF R
<1>3. PICK s \in S : \A q \in S : ~ (<<q, s>> \in R)
  BY <1>1, WFMin
<1>4. \A q \in S : ~ (q < s)
  BY <1>2, <1>3
<1> QED BY <1>4

\* Among some positions of a sequence there is a last one.
LEMMA LastPosition ==
    ASSUME NEW n \in Nat, NEW S \in SUBSET (1..n), S # {}
    PROVE  \E s \in S : \A q \in S : q <= s
<1> DEFINE T == {n - s : s \in S}
<1>1. T \in SUBSET Nat /\ T # {}
  <2>1. \A s \in S : n - s \in Nat
    OBVIOUS
  <2> QED BY <2>1
<1>2. PICK t \in T : \A q \in T : t <= q
  BY <1>1, LeastPosition
<1>3. PICK s \in S : t = n - s
  OBVIOUS
<1>4. \A q \in S : t <= n - q
  BY <1>2
<1>5. \A q \in S : q \in Int
  OBVIOUS
<1>6. \A q \in S : q <= s
  BY <1>3, <1>4, <1>5
<1> QED BY <1>6

\* s holds the positions of S, each once, in ascending order.
Sorted(s, S) ==
    /\ s \in [1..Cardinality(S) -> S]
    /\ ToSet(s) = S
    /\ \A i, j \in DOMAIN s : i < j => s[i] < s[j]

\* Any positions can be put in order: without the largest, and then with it.
LEMMA SortedExists ==
    ASSUME NEW n \in Nat
    PROVE  \A S \in SUBSET (1..n) : \E s : Sorted(s, S)
<1> DEFINE Bad == {m \in Nat : ~ \A S \in SUBSET (1..m) : \E s : Sorted(s, S)}
<1>1. SUFFICES Bad = {}
  OBVIOUS
<1>2. SUFFICES ASSUME Bad # {} PROVE FALSE
  OBVIOUS
<1>3. PICK m \in Bad : \A q \in Bad : m <= q
  BY <1>2, LeastPosition
<1>4. m # 0
  <2>1. ASSUME m = 0, NEW S \in SUBSET (1..m) PROVE \E s : Sorted(s, S)
    <3>1. S = {}
      BY <2>1
    <3>2. Cardinality(S) = 0
      BY <3>1, FS_EmptySet
    <3>3. Sorted(<< >>, S)
      BY <3>1, <3>2 DEF Sorted, ToSet
    <3> QED BY <3>3
  <2> QED BY <2>1
<1>5. m \in Nat /\ m - 1 \in Nat /\ m - 1 \notin Bad
  BY <1>3, <1>4
<1>6. \A S \in SUBSET (1..(m - 1)) : \E s : Sorted(s, S)
  BY <1>5
<1>7. ASSUME NEW S \in SUBSET (1..m) PROVE \E s : Sorted(s, S)
  <2>1. CASE m \notin S
    <3>1. S \in SUBSET (1..(m - 1))
      BY <1>5, <2>1
    <3> QED BY <1>6, <3>1
  <2>2. CASE m \in S
    <3> DEFINE Rest == S \ {m}
    <3>1. Rest \in SUBSET (1..(m - 1))
      BY <1>5
    <3>2. PICK s : Sorted(s, Rest)
      BY <1>6, <3>1
    <3>3. IsFiniteSet(1..m)
      BY <1>5, FS_Interval
    <3>4. IsFiniteSet(S)
      BY <3>3, FS_Subset
    <3>5. IsFiniteSet(Rest) /\ Cardinality(Rest) = Cardinality(S) - 1
      BY <3>4, <2>2, FS_RemoveElement
    <3>6. Cardinality(S) \in Nat /\ Cardinality(Rest) \in Nat
      BY <3>4, <3>5, FS_CardinalityType
    <3> DEFINE c == Cardinality(S)
               t == [i \in 1..c |-> IF i = c THEN m ELSE s[i]]
    <3>7. s \in [1..(c - 1) -> Rest] /\ ToSet(s) = Rest /\ c \in Nat /\ c - 1 \in Nat
          /\ \A i, j \in 1..(c - 1) : i < j => s[i] < s[j]
      BY <3>2, <3>5, <3>6 DEF Sorted
    <3>8. t \in [1..c -> S]
      BY <3>7, <2>2
    <3>9. S \subseteq ToSet(t)
      <4>1. t[c] = m
        BY <3>7
      <4>2. \A x \in Rest : \E i \in 1..(c - 1) : s[i] = x
        BY <3>7 DEF ToSet
      <4>3. \A x \in Rest : \E i \in 1..c : t[i] = x
        BY <4>2, <3>7
      <4> QED BY <4>1, <4>3, <3>7 DEF ToSet
    <3>10. ToSet(t) \subseteq S
      BY <3>8 DEF ToSet
    <3>11. \A i, j \in 1..c : i < j => t[i] < t[j]
      <4> SUFFICES ASSUME NEW i \in 1..c, NEW j \in 1..c, i < j PROVE t[i] < t[j]
        OBVIOUS
      <4>1. i \in 1..(c - 1) /\ t[i] = s[i]
        BY <3>7
      <4>2. s[i] \in 1..(m - 1)
        BY <4>1, <3>7, <3>1
      <4>3. CASE j = c
        BY <4>1, <4>2, <4>3, <1>5
      <4>4. CASE j # c
        BY <4>1, <4>4, <3>7
      <4> QED BY <4>3, <4>4
    <3>12. Sorted(t, S)
      BY <3>8, <3>9, <3>10, <3>11 DEF Sorted
    <3> QED BY <3>12
  <2> QED BY <2>1, <2>2
<1> QED BY <1>3, <1>7

\* What InOrder returns.
LEMMA InOrderSorts ==
    ASSUME NEW n \in Nat, NEW S \in SUBSET (1..n)
    PROVE  /\ InOrder(S) \in Seq(S)
           /\ \A x \in S : \E i \in DOMAIN InOrder(S) : InOrder(S)[i] = x
           /\ \A i, j \in DOMAIN InOrder(S) : i < j => InOrder(S)[i] < InOrder(S)[j]
<1>1. PICK s : Sorted(s, S)
  BY SortedExists
<1>2. \E t \in [1..Cardinality(S) -> S] :
        ToSet(t) = S /\ \A i, j \in DOMAIN t : i < j => t[i] < t[j]
  BY <1>1 DEF Sorted
<1>3. Sorted(InOrder(S), S)
  BY <1>2 DEF InOrder, Sorted
<1>4. Cardinality(S) \in Nat
  <2>1. IsFiniteSet(1..n)
    BY FS_Interval
  <2>2. IsFiniteSet(S)
    BY <2>1, FS_Subset
  <2> QED BY <2>2, FS_CardinalityType
<1>5. InOrder(S) \in Seq(S)
  BY <1>3, <1>4 DEF Sorted
<1> QED BY <1>3, <1>5 DEF Sorted, ToSet

\* What Fresh returns: the positions read that are not among the stored events
\* that are kept, in order.
LEMMA FreshIs ==
    ASSUME NEW n \in Nat, NEW from \in Nat, NEW upto \in 0..n
    PROVE  /\ Fresh(from, upto) \in Seq(1..n)
           /\ \A i \in DOMAIN Fresh(from, upto) :
                /\ Fresh(from, upto)[i] \in (from + 1)..upto
                /\ \A j \in (trimmed + 1)..Len(events) : events[j] # Fresh(from, upto)[i]
           /\ \A x \in (from + 1)..upto :
                \/ \E j \in (trimmed + 1)..Len(events) : events[j] = x
                \/ \E i \in DOMAIN Fresh(from, upto) : Fresh(from, upto)[i] = x
           /\ \A i, j \in DOMAIN Fresh(from, upto) :
                i < j => Fresh(from, upto)[i] < Fresh(from, upto)[j]
<1> DEFINE kept == {events[i] : i \in (trimmed + 1)..Len(events)}
           new == ((from + 1)..upto) \ kept
<1>1. new \in SUBSET (1..n)
  OBVIOUS
<1>2. Fresh(from, upto) = InOrder(new)
  BY DEF Fresh
<1>3. /\ InOrder(new) \in Seq(new)
      /\ \A x \in new : \E i \in DOMAIN InOrder(new) : InOrder(new)[i] = x
      /\ \A i, j \in DOMAIN InOrder(new) : i < j => InOrder(new)[i] < InOrder(new)[j]
  BY <1>1, InOrderSorts
<1>4. InOrder(new) \in Seq(1..n)
  BY <1>1, <1>3, SeqMonotonic
<1>5. \A i \in DOMAIN InOrder(new) : InOrder(new)[i] \in new
  <2> HIDE DEF new
  <2> QED BY <1>3, ElementOfSeq
<1>6. \A x \in (from + 1)..upto : x \in new \/ \E j \in (trimmed + 1)..Len(events) : events[j] = x
  OBVIOUS
<1>7. \A x \in new : x \in (from + 1)..upto /\ \A j \in (trimmed + 1)..Len(events) : events[j] # x
  OBVIOUS
<1> HIDE DEF new
<1> QED BY <1>2, <1>3, <1>4, <1>5, <1>6, <1>7

\* What After returns: the last of the changes to a key decides its row.
LEMMA AfterIs ==
    ASSUME NEW n \in Nat, NEW done \in Seq(1..n), NEW before, NEW k \in Key
    PROVE  \/ /\ \A i \in DOMAIN done : changes[done[i]].key # k
              /\ After(before, done)[k] = before[k]
           \/ \E i \in DOMAIN done :
                /\ changes[done[i]].key = k
                /\ \A j \in DOMAIN done : changes[done[j]].key = k => j <= i
                /\ After(before, done)[k] = IF changes[done[i]].gone THEN 0 ELSE done[i]
<1> DEFINE mine == {i \in DOMAIN done : changes[done[i]].key = k}
           last == CHOOSE i \in mine : \A j \in mine : j <= i
<1>1. After(before, done)[k] = IF mine = {} THEN before[k]
                               ELSE IF changes[done[last]].gone THEN 0 ELSE done[last]
  BY DEF After
<1>2. CASE mine = {}
  BY <1>1, <1>2
<1>3. CASE mine # {}
  <2>1. mine \in SUBSET (1..Len(done)) /\ Len(done) \in Nat
    OBVIOUS
  <2>2. \E i \in mine : \A j \in mine : j <= i
    <3> HIDE DEF mine
    <3> QED BY <1>3, <2>1, LastPosition
  <2>3. last \in mine /\ \A j \in mine : j <= last
    <3> HIDE DEF mine
    <3> QED BY <2>2
  <2> QED BY <1>1, <1>3, <2>3
<1> QED BY <1>2, <1>3

LEMMA AfterTyped ==
    ASSUME NEW n \in Nat, NEW done \in Seq(1..n), NEW before \in [Key -> 0..n]
    PROVE  After(before, done) \in [Key -> 0..n]
<1>1. ASSUME NEW k \in Key PROVE After(before, done)[k] \in 0..n
  <2>1. \A i \in DOMAIN done : done[i] \in 1..n
    OBVIOUS
  <2> QED BY <2>1, AfterIs
<1>2. After(before, done) = [k \in Key |-> After(before, done)[k]]
  BY DEF After
<1> QED BY <1>1, <1>2

(***************************************************************************)
(* The type invariant.                                                     *)
(***************************************************************************)

\* Where hand[a].upto is a number of events.
Counting == {"copying", "copied", "linking", "logging", "logged", "tabling", "applying",
             "tabled"}

Hand == [upto : Nat, from : Nat, log : Seq(1..Len(changes)), rows : [Key -> 0..Len(changes)]]

\* What an actor holds is what it read of a state that has only grown since.
HandsTyped ==
    /\ hand \in [Actor -> Hand]
    /\ \A a \in Actor :
         /\ at[a] \in Counting => hand[a].upto <= Len(events)
         /\ at[a] \in {"storing", "acknowledging"} => hand[a].upto <= Len(changes)

TypeInv == TypeOK /\ HandsTyped

LEMMA TypeInit == Init => TypeInv
<1> SUFFICES ASSUME Init PROVE TypeInv
  OBVIOUS
<1> USE LiveAssumption
<1>1. Len(changes) = 0 /\ Len(events) = 0
  BY DEF Init
<1>2. Nothing \in Hand
  BY <1>1 DEF Nothing, Hand, Empty
<1>3. TypeOK
  <2>1. \A a \in Actor : hand[a].upto \in Nat /\ hand[a].from \in Nat
    BY DEF Init, Nothing
  <2>2. Runner \cup {NoOne} # {} /\ lease \in [owner : Runner \cup {NoOne}, until : {"none", "live", "past"}]
    BY DEF Init
  <2>3. changes \in Seq([key : Key, gone : BOOLEAN]) /\ events \in Seq(1..Len(changes)) /\ log \in Seq(1..Len(changes))
    BY DEF Init
  <2>4. at \in [Actor -> Points]
    BY DEF Init, Points
  <2>5. 0 \in 0..MaxFaults /\ 0 \in 0..MaxRestarts
    OBVIOUS
  <2>6. rows \in [Key -> 0..Len(changes)]
    BY <1>1 DEF Init, Empty
  <2>7. /\ slot = 0 /\ start = 0 /\ cursor = FALSE /\ trimmed = 0 /\ logSaved = 0
        /\ table = "waiting" /\ applied = 0 /\ faults = 0 /\ restarts = 0
    BY DEF Init
  <2>8. /\ slot \in 0..Len(changes) /\ start \in 0..slot /\ trimmed \in 0..Len(events)
        /\ logSaved \in 0..Len(events) /\ applied \in 0..Len(events)
    BY <1>1, <2>7
  <2>9. /\ cursor \in BOOLEAN /\ table \in {"waiting", "snapshot", "following"}
        /\ faults \in 0..MaxFaults /\ restarts \in 0..MaxRestarts
    BY <2>5, <2>7
  <2> QED BY ONLY <2>1, <2>2, <2>3, <2>4, <2>6, <2>8, <2>9 DEF TypeOK
<1>4. HandsTyped
  BY <1>2 DEF HandsTyped, Init, Counting
<1> QED BY <1>3, <1>4 DEF TypeInv

\* Changes that come later leave what is in a hand well typed.
LEMMA HandGrows ==
    ASSUME Len(changes) \in Nat, Len(changes)' \in Nat, Len(changes) <= Len(changes)'
    PROVE  /\ \A h \in Hand : h \in Hand'
           /\ Seq(1..Len(changes)) \subseteq Seq(1..Len(changes)')
<1>1. 1..Len(changes) \subseteq 1..Len(changes)' /\ 0..Len(changes) \subseteq 0..Len(changes)'
  OBVIOUS
<1>2. Seq(1..Len(changes)) \subseteq Seq(1..Len(changes)')
  BY <1>1, SeqMonotonic
<1>3. [Key -> 0..Len(changes)] \subseteq [Key -> 0..Len(changes)']
  BY <1>1
<1> QED BY <1>2, <1>3 DEF Hand

\* The table outside is well typed at any time.
LEMMA TableNowTyped ==
    ASSUME TypeOK
    PROVE  TableNow \in [Key -> 0..Len(changes)]
<1>1. Len(changes) \in Nat
  BY DEF TypeOK
<1>2. [i \in 1..Len(changes) |-> i] \in Seq(1..Len(changes))
  BY <1>1
<1>3. Empty \in [Key -> 0..Len(changes)]
  BY <1>1 DEF Empty
<1> QED BY <1>1, <1>2, <1>3, AfterTyped DEF TableNow

\* An actor goes on to a point, with something in its hand.
Moves(a, point, h) ==
    /\ at' = [at EXCEPT ![a] = point]
    /\ hand' = [hand EXCEPT ![a] = h]

LEMMA HandMoves ==
    ASSUME TypeInv, Len(events)' \in Nat, Len(events) <= Len(events)', changes' = changes,
           NEW a \in Actor, NEW point \in Points, NEW h \in Hand,
           Moves(a, point, h),
           point \in Counting => h.upto <= Len(events)',
           point \in {"storing", "acknowledging"} => h.upto <= Len(changes)
    PROVE  HandsTyped' /\ at' \in [Actor -> Points]
           /\ \A b \in Actor : hand'[b].upto \in Nat /\ hand'[b].from \in Nat
<1>1. /\ hand \in [Actor -> Hand] /\ at \in [Actor -> Points] /\ Len(events) \in Nat
      /\ \A b \in Actor :
           /\ at[b] \in Counting => hand[b].upto <= Len(events)
           /\ at[b] \in {"storing", "acknowledging"} => hand[b].upto <= Len(changes)
  BY DEF TypeInv, TypeOK, HandsTyped
<1>2. Hand' = Hand
  BY DEF Hand
<1>3. hand' \in [Actor -> Hand] /\ at' \in [Actor -> Points]
  BY <1>1 DEF Moves
<1>4. \A b \in Actor : hand[b].upto \in Nat /\ hand'[b].upto \in Nat /\ hand'[b].from \in Nat
  BY <1>1, <1>3 DEF Hand
<1>5. ASSUME NEW b \in Actor
      PROVE  /\ at'[b] \in Counting => hand'[b].upto <= Len(events)'
             /\ at'[b] \in {"storing", "acknowledging"} => hand'[b].upto <= Len(changes)'
  <2>1. CASE b = a
    BY <1>1, <2>1 DEF Moves
  <2>2. CASE b # a
    <3>1. at'[b] = at[b] /\ hand'[b] = hand[b]
      BY <1>1, <2>2 DEF Moves
    <3> QED BY <1>1, <1>4, <3>1
  <2> QED BY <2>1, <2>2
<1> QED BY <1>2, <1>3, <1>4, <1>5 DEF HandsTyped

LEMMA SubSeqTyped ==
    ASSUME NEW S, NEW s \in Seq(S), NEW from \in Nat, NEW upto \in Nat, upto <= Len(s)
    PROVE  /\ SubSeq(s, from + 1, upto) \in Seq(S)
           /\ Len(SubSeq(s, from + 1, upto)) = IF from < upto THEN upto - from ELSE 0
           /\ \A i \in 1..(upto - from) : SubSeq(s, from + 1, upto)[i] = s[from + i]
OBVIOUS

\* What the type invariant says of one actor.
LEMMA TypeFacts ==
    ASSUME TypeInv, NEW a \in Actor
    PROVE  /\ TypeOK /\ a \in Actor /\ Len(changes) \in Nat /\ Len(events) \in Nat
           /\ hand \in [Actor -> Hand] /\ hand[a] \in Hand /\ Nothing \in Hand
           /\ hand[a].upto \in Nat /\ hand[a].from \in Nat
           /\ hand[a].log \in Seq(1..Len(changes)) /\ hand[a].rows \in [Key -> 0..Len(changes)]
           /\ at[a] \in Counting => hand[a].upto <= Len(events)
           /\ at[a] \in {"storing", "acknowledging"} => hand[a].upto <= Len(changes)
<1>1. TypeOK /\ HandsTyped /\ Len(changes) \in Nat /\ Len(events) \in Nat
  BY DEF TypeInv, TypeOK
<1>2. Nothing \in Hand
  BY <1>1 DEF Nothing, Hand, Empty
<1>3. hand \in [Actor -> Hand] /\ hand[a] \in Hand
  BY <1>1 DEF HandsTyped
<1>4. /\ hand[a].upto \in Nat /\ hand[a].from \in Nat
      /\ hand[a].log \in Seq(1..Len(changes)) /\ hand[a].rows \in [Key -> 0..Len(changes)]
  BY <1>3 DEF Hand
<1> QED BY <1>1, <1>2, <1>3, <1>4 DEF HandsTyped

LEMMA RunnersAct == \A r \in Runner : r \in Actor
BY DEF Actor

\* What is stored anew is a sequence of positions.
LEMMA FreshTyped ==
    ASSUME TypeInv, NEW r \in Actor, at[r] = "storing"
    PROVE  /\ Fresh(hand[r].from, hand[r].upto) \in Seq(1..Len(changes))
           /\ events \o Fresh(hand[r].from, hand[r].upto) \in Seq(1..Len(changes))
           /\ Len(events \o Fresh(hand[r].from, hand[r].upto)) \in Nat
           /\ Len(events) <= Len(events \o Fresh(hand[r].from, hand[r].upto))
<1>1. /\ TypeOK /\ Len(changes) \in Nat /\ hand[r].from \in Nat
      /\ hand[r].upto \in 0..Len(changes)
  BY TypeFacts DEF Hand
<1>2. Fresh(hand[r].from, hand[r].upto) \in Seq(1..Len(changes))
  BY <1>1, FreshIs
<1> QED BY <1>1, <1>2 DEF TypeOK

LEMMA TypeStepRead ==
    ASSUME TypeInv, NEW r \in Runner, Read(r)
    PROVE  TypeInv'
<1>1. /\ TypeOK /\ r \in Actor /\ Len(changes) \in Nat /\ Len(events) \in Nat
      /\ hand \in [Actor -> Hand] /\ hand[r] \in Hand
  BY TypeFacts, RunnersAct
<1>2. PICK upto \in slot..Len(changes) :
        hand' = [hand EXCEPT ![r].from = slot, ![r].upto = upto]
  BY DEF Read
<1>3. slot \in Nat /\ upto \in Nat /\ upto <= Len(changes)
  BY <1>1 DEF TypeOK
<1> DEFINE h == [hand[r] EXCEPT !.from = slot, !.upto = upto]
<1>4. h \in Hand /\ h.upto = upto
  BY <1>1, <1>3 DEF Hand
<1>5. Moves(r, "storing", h) /\ changes' = changes /\ events' = events
  BY <1>1, <1>2 DEF Read, Moves, Goto, external, source
<1> HIDE DEF h
<1>6. HandsTyped' /\ at' \in [Actor -> Points]
      /\ \A b \in Actor : hand'[b].upto \in Nat /\ hand'[b].from \in Nat
  BY <1>1, <1>3, <1>4, <1>5, HandMoves DEF Points, Counting
<1>7. TypeOK'
  BY <1>1, <1>6 DEF Read, TypeOK, external, source, outputs
<1> QED BY <1>6, <1>7 DEF TypeInv

LEMMA TypeStepClaim ==
    ASSUME TypeInv, NEW r \in Runner, Claim(r)
    PROVE  TypeInv'
<1> DEFINE h == hand[r]
           point == "claimed"
<1>1. /\ TypeOK /\ r \in Actor /\ Len(changes) \in Nat /\ Len(events) \in Nat
      /\ hand \in [Actor -> Hand] /\ hand[r] \in Hand /\ Nothing \in Hand
      /\ hand[r].upto \in Nat /\ hand[r].from \in Nat
      /\ hand[r].log \in Seq(1..Len(changes)) /\ hand[r].rows \in [Key -> 0..Len(changes)]
      /\ at[r] \in Counting => hand[r].upto <= Len(events)
      /\ at[r] \in {"storing", "acknowledging"} => hand[r].upto <= Len(changes)
  BY TypeFacts, RunnersAct
<1>2. h \in Hand /\ point \in Points
  BY <1>1 DEF Claim, Points, Hand, TypeOK
<1>3. Moves(r, point, h) /\ changes' = changes
  BY <1>1 DEF Claim, Moves, Goto, external
<1>4. /\ point \in Counting => h.upto <= Len(events)'
      /\ point \in {"storing", "acknowledging"} => h.upto <= Len(changes)
      /\ Len(events)' \in Nat /\ Len(events) <= Len(events)'
  BY <1>1, FreshTyped DEF Claim, Counting, external, source
<1> HIDE DEF h, point
<1>5. HandsTyped' /\ at' \in [Actor -> Points]
      /\ \A b \in Actor : hand'[b].upto \in Nat /\ hand'[b].from \in Nat
  BY <1>1, <1>2, <1>3, <1>4, HandMoves
<1>6. TypeOK'
  BY <1>1, <1>4, <1>5, LiveAssumption DEF Claim, TypeOK, Counting, external, source, outputs
<1> QED BY <1>5, <1>6 DEF TypeInv

LEMMA TypeStepBeginCopy ==
    ASSUME TypeInv, NEW r \in Runner, BeginCopy(r)
    PROVE  TypeInv'
<1> DEFINE h == [hand[r] EXCEPT !.upto = Len(events)]
           point == "copying"
<1>1. /\ TypeOK /\ r \in Actor /\ Len(changes) \in Nat /\ Len(events) \in Nat
      /\ hand \in [Actor -> Hand] /\ hand[r] \in Hand /\ Nothing \in Hand
      /\ hand[r].upto \in Nat /\ hand[r].from \in Nat
      /\ hand[r].log \in Seq(1..Len(changes)) /\ hand[r].rows \in [Key -> 0..Len(changes)]
      /\ at[r] \in Counting => hand[r].upto <= Len(events)
      /\ at[r] \in {"storing", "acknowledging"} => hand[r].upto <= Len(changes)
  BY TypeFacts, RunnersAct
<1>2. h \in Hand /\ point \in Points
  BY <1>1 DEF BeginCopy, Points, Hand, TypeOK
<1>3. Moves(r, point, h) /\ changes' = changes
  BY <1>1 DEF BeginCopy, Moves, Goto, external
<1>4. /\ point \in Counting => h.upto <= Len(events)'
      /\ point \in {"storing", "acknowledging"} => h.upto <= Len(changes)
      /\ Len(events)' \in Nat /\ Len(events) <= Len(events)'
  BY <1>1, FreshTyped DEF BeginCopy, Counting, external, source
<1> HIDE DEF h, point
<1>5. HandsTyped' /\ at' \in [Actor -> Points]
      /\ \A b \in Actor : hand'[b].upto \in Nat /\ hand'[b].from \in Nat
  BY <1>1, <1>2, <1>3, <1>4, HandMoves
<1>6. TypeOK'
  BY <1>1, <1>4, <1>5, LiveAssumption DEF BeginCopy, TypeOK, Counting, external, source, outputs
<1> QED BY <1>5, <1>6 DEF TypeInv

LEMMA TypeStepCopy ==
    ASSUME TypeInv, NEW r \in Runner, Copy(r)
    PROVE  TypeInv'
<1> DEFINE h == [hand[r] EXCEPT !.rows = TableNow]
           point == "copied"
<1>1. /\ TypeOK /\ r \in Actor /\ Len(changes) \in Nat /\ Len(events) \in Nat
      /\ hand \in [Actor -> Hand] /\ hand[r] \in Hand /\ Nothing \in Hand
      /\ hand[r].upto \in Nat /\ hand[r].from \in Nat
      /\ hand[r].log \in Seq(1..Len(changes)) /\ hand[r].rows \in [Key -> 0..Len(changes)]
      /\ at[r] \in Counting => hand[r].upto <= Len(events)
      /\ at[r] \in {"storing", "acknowledging"} => hand[r].upto <= Len(changes)
  BY TypeFacts, RunnersAct
<1>2. h \in Hand /\ point \in Points
  BY <1>1, TableNowTyped DEF Copy, Points, Hand, TypeOK
<1>3. Moves(r, point, h) /\ changes' = changes
  BY <1>1 DEF Copy, Moves, Goto, external
<1>4. /\ point \in Counting => h.upto <= Len(events)'
      /\ point \in {"storing", "acknowledging"} => h.upto <= Len(changes)
      /\ Len(events)' \in Nat /\ Len(events) <= Len(events)'
  BY <1>1, FreshTyped DEF Copy, Counting, external, source
<1> HIDE DEF h, point
<1>5. HandsTyped' /\ at' \in [Actor -> Points]
      /\ \A b \in Actor : hand'[b].upto \in Nat /\ hand'[b].from \in Nat
  BY <1>1, <1>2, <1>3, <1>4, HandMoves
<1>6. TypeOK'
  BY <1>1, <1>4, <1>5, LiveAssumption DEF Copy, TypeOK, Counting, external, source, outputs
<1> QED BY <1>5, <1>6 DEF TypeInv

LEMMA TypeStepPublishCopy ==
    ASSUME TypeInv, NEW r \in Runner, PublishCopy(r)
    PROVE  TypeInv'
<1> DEFINE h == hand[r]
           point == "linking"
<1>1. /\ TypeOK /\ r \in Actor /\ Len(changes) \in Nat /\ Len(events) \in Nat
      /\ hand \in [Actor -> Hand] /\ hand[r] \in Hand /\ Nothing \in Hand
      /\ hand[r].upto \in Nat /\ hand[r].from \in Nat
      /\ hand[r].log \in Seq(1..Len(changes)) /\ hand[r].rows \in [Key -> 0..Len(changes)]
      /\ at[r] \in Counting => hand[r].upto <= Len(events)
      /\ at[r] \in {"storing", "acknowledging"} => hand[r].upto <= Len(changes)
  BY TypeFacts, RunnersAct
<1>2. h \in Hand /\ point \in Points
  BY <1>1 DEF PublishCopy, Points, Hand, TypeOK
<1>3. Moves(r, point, h) /\ changes' = changes
  BY <1>1 DEF PublishCopy, Moves, Goto, external
<1>4. /\ point \in Counting => h.upto <= Len(events)'
      /\ point \in {"storing", "acknowledging"} => h.upto <= Len(changes)
      /\ Len(events)' \in Nat /\ Len(events) <= Len(events)'
  BY <1>1, FreshTyped DEF PublishCopy, Counting, external, source
<1> HIDE DEF h, point
<1>5. HandsTyped' /\ at' \in [Actor -> Points]
      /\ \A b \in Actor : hand'[b].upto \in Nat /\ hand'[b].from \in Nat
  BY <1>1, <1>2, <1>3, <1>4, HandMoves
<1>6. TypeOK'
  BY <1>1, <1>4, <1>5, LiveAssumption DEF PublishCopy, TypeOK, Counting, external, source, outputs
<1> QED BY <1>5, <1>6 DEF TypeInv

LEMMA TypeStepLinkCopy ==
    ASSUME TypeInv, NEW r \in Runner, LinkCopy(r)
    PROVE  TypeInv'
<1> DEFINE h == Nothing
           point == "claimed"
<1>1. /\ TypeOK /\ r \in Actor /\ Len(changes) \in Nat /\ Len(events) \in Nat
      /\ hand \in [Actor -> Hand] /\ hand[r] \in Hand /\ Nothing \in Hand
      /\ hand[r].upto \in Nat /\ hand[r].from \in Nat
      /\ hand[r].log \in Seq(1..Len(changes)) /\ hand[r].rows \in [Key -> 0..Len(changes)]
      /\ at[r] \in Counting => hand[r].upto <= Len(events)
      /\ at[r] \in {"storing", "acknowledging"} => hand[r].upto <= Len(changes)
  BY TypeFacts, RunnersAct
<1>2. h \in Hand /\ point \in Points
  BY <1>1 DEF LinkCopy, Points, Hand, TypeOK
<1>3. Moves(r, point, h) /\ changes' = changes
  BY <1>1 DEF LinkCopy, Moves, Goto, Drop, external
<1>4. /\ point \in Counting => h.upto <= Len(events)'
      /\ point \in {"storing", "acknowledging"} => h.upto <= Len(changes)
      /\ Len(events)' \in Nat /\ Len(events) <= Len(events)'
  BY <1>1, FreshTyped DEF LinkCopy, Counting, external, source
<1> HIDE DEF h, point
<1>5. HandsTyped' /\ at' \in [Actor -> Points]
      /\ \A b \in Actor : hand'[b].upto \in Nat /\ hand'[b].from \in Nat
  BY <1>1, <1>2, <1>3, <1>4, HandMoves
<1>6. TypeOK'
  BY SMTT(30), <1>1, <1>4, <1>5, LiveAssumption DEF LinkCopy, TypeOK, Counting, external, source, outputs
<1> QED BY <1>5, <1>6 DEF TypeInv

LEMMA TypeStepCopyFails ==
    ASSUME TypeInv, NEW r \in Runner, CopyFails(r)
    PROVE  TypeInv'
<1> DEFINE h == Nothing
           point == "releasing"
<1>1. /\ TypeOK /\ r \in Actor /\ Len(changes) \in Nat /\ Len(events) \in Nat
      /\ hand \in [Actor -> Hand] /\ hand[r] \in Hand /\ Nothing \in Hand
      /\ hand[r].upto \in Nat /\ hand[r].from \in Nat
      /\ hand[r].log \in Seq(1..Len(changes)) /\ hand[r].rows \in [Key -> 0..Len(changes)]
      /\ at[r] \in Counting => hand[r].upto <= Len(events)
      /\ at[r] \in {"storing", "acknowledging"} => hand[r].upto <= Len(changes)
  BY TypeFacts, RunnersAct
<1>2. h \in Hand /\ point \in Points
  BY <1>1 DEF CopyFails, Points, Hand, TypeOK
<1>3. Moves(r, point, h) /\ changes' = changes
  BY <1>1 DEF CopyFails, Moves, Goto, Drop, external
<1>4. /\ point \in Counting => h.upto <= Len(events)'
      /\ point \in {"storing", "acknowledging"} => h.upto <= Len(changes)
      /\ Len(events)' \in Nat /\ Len(events) <= Len(events)'
  BY <1>1, FreshTyped DEF CopyFails, Counting, external, source
<1> HIDE DEF h, point
<1>5. HandsTyped' /\ at' \in [Actor -> Points]
      /\ \A b \in Actor : hand'[b].upto \in Nat /\ hand'[b].from \in Nat
  BY <1>1, <1>2, <1>3, <1>4, HandMoves
<1>7. faults' \in 0..MaxFaults
  BY SMTT(30), <1>1, LiveAssumption DEF CopyFails, TypeOK
<1>6. TypeOK'
  BY <1>1, <1>4, <1>5, <1>7 DEF CopyFails, TypeOK, Counting, external, source, outputs
<1> QED BY <1>5, <1>6 DEF TypeInv

LEMMA TypeStepStore ==
    ASSUME TypeInv, NEW r \in Runner, Store(r)
    PROVE  TypeInv'
<1> DEFINE h == hand[r]
           point == "acknowledging"
<1>1. /\ TypeOK /\ r \in Actor /\ Len(changes) \in Nat /\ Len(events) \in Nat
      /\ hand \in [Actor -> Hand] /\ hand[r] \in Hand /\ Nothing \in Hand
      /\ hand[r].upto \in Nat /\ hand[r].from \in Nat
      /\ hand[r].log \in Seq(1..Len(changes)) /\ hand[r].rows \in [Key -> 0..Len(changes)]
      /\ at[r] \in Counting => hand[r].upto <= Len(events)
      /\ at[r] \in {"storing", "acknowledging"} => hand[r].upto <= Len(changes)
  BY TypeFacts, RunnersAct
<1>2. h \in Hand /\ point \in Points
  BY <1>1 DEF Store, Points, Hand, TypeOK
<1>3. Moves(r, point, h) /\ changes' = changes
  BY <1>1 DEF Store, Moves, Goto, external
<1>4. /\ point \in Counting => h.upto <= Len(events)'
      /\ point \in {"storing", "acknowledging"} => h.upto <= Len(changes)
      /\ Len(events)' \in Nat /\ Len(events) <= Len(events)'
  BY <1>1, FreshTyped DEF Store, Counting, external, source
<1> HIDE DEF h, point
<1>5. HandsTyped' /\ at' \in [Actor -> Points]
      /\ \A b \in Actor : hand'[b].upto \in Nat /\ hand'[b].from \in Nat
  BY <1>1, <1>2, <1>3, <1>4, HandMoves
<1>7. events' \in Seq(1..Len(changes))
  BY <1>1, FreshTyped DEF Store
<1>8. trimmed' \in 0..Len(events)' /\ logSaved' \in 0..Len(events)' /\ applied' \in 0..Len(events)'
  BY <1>1, <1>4 DEF Store, TypeOK, outputs
<1>6. TypeOK'
  BY <1>1, <1>4, <1>5, <1>7, <1>8, <1>3 DEF Store, TypeOK, external, source, outputs
<1> QED BY <1>5, <1>6 DEF TypeInv

LEMMA TypeStepAcknowledge ==
    ASSUME TypeInv, NEW r \in Runner, Acknowledge(r)
    PROVE  TypeInv'
<1> DEFINE h == Nothing
           point == "stored"
<1>1. /\ TypeOK /\ r \in Actor /\ Len(changes) \in Nat /\ Len(events) \in Nat
      /\ hand \in [Actor -> Hand] /\ hand[r] \in Hand /\ Nothing \in Hand
      /\ hand[r].upto \in Nat /\ hand[r].from \in Nat
      /\ hand[r].log \in Seq(1..Len(changes)) /\ hand[r].rows \in [Key -> 0..Len(changes)]
      /\ at[r] \in Counting => hand[r].upto <= Len(events)
      /\ at[r] \in {"storing", "acknowledging"} => hand[r].upto <= Len(changes)
  BY TypeFacts, RunnersAct
<1>2. h \in Hand /\ point \in Points
  BY <1>1 DEF Acknowledge, Points, Hand, TypeOK
<1>3. Moves(r, point, h) /\ changes' = changes
  BY <1>1 DEF Acknowledge, Moves, Goto, Drop, external
<1>4. /\ point \in Counting => h.upto <= Len(events)'
      /\ point \in {"storing", "acknowledging"} => h.upto <= Len(changes)
      /\ Len(events)' \in Nat /\ Len(events) <= Len(events)'
  BY <1>1, FreshTyped DEF Acknowledge, Counting, external, source
<1> HIDE DEF h, point
<1>5. HandsTyped' /\ at' \in [Actor -> Points]
      /\ \A b \in Actor : hand'[b].upto \in Nat /\ hand'[b].from \in Nat
  BY <1>1, <1>2, <1>3, <1>4, HandMoves
<1>7. slot' \in 0..Len(changes) /\ start \in 0..slot'
  BY <1>1 DEF Acknowledge, TypeOK
<1>6. TypeOK'
  BY <1>1, <1>4, <1>5, <1>7, <1>3 DEF Acknowledge, TypeOK, external, source, outputs
<1> QED BY <1>5, <1>6 DEF TypeInv

LEMMA TypeStepAcknowledgeFails ==
    ASSUME TypeInv, NEW r \in Runner, AcknowledgeFails(r)
    PROVE  TypeInv'
<1> DEFINE h == Nothing
           point == "stored"
<1>1. /\ TypeOK /\ r \in Actor /\ Len(changes) \in Nat /\ Len(events) \in Nat
      /\ hand \in [Actor -> Hand] /\ hand[r] \in Hand /\ Nothing \in Hand
      /\ hand[r].upto \in Nat /\ hand[r].from \in Nat
      /\ hand[r].log \in Seq(1..Len(changes)) /\ hand[r].rows \in [Key -> 0..Len(changes)]
      /\ at[r] \in Counting => hand[r].upto <= Len(events)
      /\ at[r] \in {"storing", "acknowledging"} => hand[r].upto <= Len(changes)
  BY TypeFacts, RunnersAct
<1>2. h \in Hand /\ point \in Points
  BY <1>1 DEF AcknowledgeFails, Points, Hand, TypeOK
<1>3. Moves(r, point, h) /\ changes' = changes
  BY <1>1 DEF AcknowledgeFails, Moves, Goto, Drop, external
<1>4. /\ point \in Counting => h.upto <= Len(events)'
      /\ point \in {"storing", "acknowledging"} => h.upto <= Len(changes)
      /\ Len(events)' \in Nat /\ Len(events) <= Len(events)'
  BY <1>1, FreshTyped DEF AcknowledgeFails, Counting, external, source
<1> HIDE DEF h, point
<1>5. HandsTyped' /\ at' \in [Actor -> Points]
      /\ \A b \in Actor : hand'[b].upto \in Nat /\ hand'[b].from \in Nat
  BY <1>1, <1>2, <1>3, <1>4, HandMoves
<1>7. faults' \in 0..MaxFaults
  BY <1>1, LiveAssumption DEF AcknowledgeFails, TypeOK
<1>6. TypeOK'
  BY <1>1, <1>4, <1>5, <1>7 DEF AcknowledgeFails, TypeOK, Counting, external, source, outputs
<1> QED BY <1>5, <1>6 DEF TypeInv

LEMMA TypeStepSaveStart ==
    ASSUME TypeInv, NEW a \in Actor, SaveStart(a)
    PROVE  TypeInv'
<1> DEFINE h == [upto |-> Len(events), from |-> logSaved, log |-> log, rows |-> Empty]
           point == "logging"
<1>1. /\ TypeOK /\ a \in Actor /\ Len(changes) \in Nat /\ Len(events) \in Nat
      /\ hand \in [Actor -> Hand] /\ hand[a] \in Hand /\ Nothing \in Hand
      /\ hand[a].upto \in Nat /\ hand[a].from \in Nat
      /\ hand[a].log \in Seq(1..Len(changes)) /\ hand[a].rows \in [Key -> 0..Len(changes)]
      /\ at[a] \in Counting => hand[a].upto <= Len(events)
      /\ at[a] \in {"storing", "acknowledging"} => hand[a].upto <= Len(changes)
  BY TypeFacts
<1>2. h \in Hand /\ point \in Points
  BY <1>1 DEF SaveStart, Points, Hand, TypeOK, Empty
<1>3. Moves(a, point, h) /\ changes' = changes
  BY <1>1 DEF SaveStart, Moves, Goto, external
<1>4. /\ point \in Counting => h.upto <= Len(events)'
      /\ point \in {"storing", "acknowledging"} => h.upto <= Len(changes)
      /\ Len(events)' \in Nat /\ Len(events) <= Len(events)'
  BY <1>1, FreshTyped DEF SaveStart, Counting, external, source
<1> HIDE DEF h, point
<1>5. HandsTyped' /\ at' \in [Actor -> Points]
      /\ \A b \in Actor : hand'[b].upto \in Nat /\ hand'[b].from \in Nat
  BY <1>1, <1>2, <1>3, <1>4, HandMoves
<1>6. TypeOK'
  BY <1>1, <1>4, <1>5, LiveAssumption DEF SaveStart, TypeOK, Counting, external, source, outputs
<1> QED BY <1>5, <1>6 DEF TypeInv

LEMMA TypeStepNotDue ==
    ASSUME TypeInv, NEW r \in Runner, NotDue(r)
    PROVE  TypeInv'
<1> DEFINE h == hand[r]
           point == "trimming"
<1>1. /\ TypeOK /\ r \in Actor /\ Len(changes) \in Nat /\ Len(events) \in Nat
      /\ hand \in [Actor -> Hand] /\ hand[r] \in Hand /\ Nothing \in Hand
      /\ hand[r].upto \in Nat /\ hand[r].from \in Nat
      /\ hand[r].log \in Seq(1..Len(changes)) /\ hand[r].rows \in [Key -> 0..Len(changes)]
      /\ at[r] \in Counting => hand[r].upto <= Len(events)
      /\ at[r] \in {"storing", "acknowledging"} => hand[r].upto <= Len(changes)
  BY TypeFacts, RunnersAct
<1>2. h \in Hand /\ point \in Points
  BY <1>1 DEF NotDue, Points, Hand, TypeOK
<1>3. Moves(r, point, h) /\ changes' = changes
  BY <1>1 DEF NotDue, Moves, Goto, external
<1>4. /\ point \in Counting => h.upto <= Len(events)'
      /\ point \in {"storing", "acknowledging"} => h.upto <= Len(changes)
      /\ Len(events)' \in Nat /\ Len(events) <= Len(events)'
  BY <1>1, FreshTyped DEF NotDue, Counting, external, source
<1> HIDE DEF h, point
<1>5. HandsTyped' /\ at' \in [Actor -> Points]
      /\ \A b \in Actor : hand'[b].upto \in Nat /\ hand'[b].from \in Nat
  BY <1>1, <1>2, <1>3, <1>4, HandMoves
<1>6. TypeOK'
  BY <1>1, <1>4, <1>5, LiveAssumption DEF NotDue, TypeOK, Counting, external, source, outputs
<1> QED BY <1>5, <1>6 DEF TypeInv

LEMMA TypeStepNoNewEvents ==
    ASSUME TypeInv, NEW a \in Actor, NoNewEvents(a)
    PROVE  TypeInv'
<1> DEFINE h == hand[a]
           point == "tabling"
<1>1. /\ TypeOK /\ a \in Actor /\ Len(changes) \in Nat /\ Len(events) \in Nat
      /\ hand \in [Actor -> Hand] /\ hand[a] \in Hand /\ Nothing \in Hand
      /\ hand[a].upto \in Nat /\ hand[a].from \in Nat
      /\ hand[a].log \in Seq(1..Len(changes)) /\ hand[a].rows \in [Key -> 0..Len(changes)]
      /\ at[a] \in Counting => hand[a].upto <= Len(events)
      /\ at[a] \in {"storing", "acknowledging"} => hand[a].upto <= Len(changes)
  BY TypeFacts
<1>2. h \in Hand /\ point \in Points
  BY <1>1 DEF NoNewEvents, Points, Hand, TypeOK
<1>3. Moves(a, point, h) /\ changes' = changes
  BY <1>1 DEF NoNewEvents, Moves, Goto, external
<1>4. /\ point \in Counting => h.upto <= Len(events)'
      /\ point \in {"storing", "acknowledging"} => h.upto <= Len(changes)
      /\ Len(events)' \in Nat /\ Len(events) <= Len(events)'
  BY <1>1, FreshTyped DEF NoNewEvents, Counting, external, source
<1> HIDE DEF h, point
<1>5. HandsTyped' /\ at' \in [Actor -> Points]
      /\ \A b \in Actor : hand'[b].upto \in Nat /\ hand'[b].from \in Nat
  BY <1>1, <1>2, <1>3, <1>4, HandMoves
<1>6. TypeOK'
  BY <1>1, <1>4, <1>5, LiveAssumption DEF NoNewEvents, TypeOK, Counting, external, source, outputs
<1> QED BY <1>5, <1>6 DEF TypeInv

LEMMA TypeStepPublishLog ==
    ASSUME TypeInv, NEW a \in Actor, PublishLog(a)
    PROVE  TypeInv'
<1> DEFINE h == hand[a]
           point == "logged"
<1>1. /\ TypeOK /\ a \in Actor /\ Len(changes) \in Nat /\ Len(events) \in Nat
      /\ hand \in [Actor -> Hand] /\ hand[a] \in Hand /\ Nothing \in Hand
      /\ hand[a].upto \in Nat /\ hand[a].from \in Nat
      /\ hand[a].log \in Seq(1..Len(changes)) /\ hand[a].rows \in [Key -> 0..Len(changes)]
      /\ at[a] \in Counting => hand[a].upto <= Len(events)
      /\ at[a] \in {"storing", "acknowledging"} => hand[a].upto <= Len(changes)
  BY TypeFacts
<1>2. h \in Hand /\ point \in Points
  BY <1>1 DEF PublishLog, Points, Hand, TypeOK
<1>3. Moves(a, point, h) /\ changes' = changes
  BY <1>1 DEF PublishLog, Moves, Goto, external
<1>4. /\ point \in Counting => h.upto <= Len(events)'
      /\ point \in {"storing", "acknowledging"} => h.upto <= Len(changes)
      /\ Len(events)' \in Nat /\ Len(events) <= Len(events)'
  BY <1>1, FreshTyped DEF PublishLog, Counting, external, source
<1> HIDE DEF h, point
<1>5. HandsTyped' /\ at' \in [Actor -> Points]
      /\ \A b \in Actor : hand'[b].upto \in Nat /\ hand'[b].from \in Nat
  BY <1>1, <1>2, <1>3, <1>4, HandMoves
<1>7. log' \in Seq(1..Len(changes))
  <2>1. SubSeq(events, hand[a].from + 1, hand[a].upto) \in Seq(1..Len(changes))
    BY <1>1, SubSeqTyped DEF PublishLog, TypeOK, Counting
  <2> QED BY <1>1, <2>1 DEF PublishLog
<1>6. TypeOK'
  BY <1>1, <1>4, <1>5, <1>7, LiveAssumption DEF PublishLog, TypeOK, Counting, external, source, outputs
<1> QED BY <1>5, <1>6 DEF TypeInv

LEMMA TypeStepMarkLog ==
    ASSUME TypeInv, NEW a \in Actor, MarkLog(a)
    PROVE  TypeInv'
<1> DEFINE h == hand[a]
           point == "tabling"
<1>1. /\ TypeOK /\ a \in Actor /\ Len(changes) \in Nat /\ Len(events) \in Nat
      /\ hand \in [Actor -> Hand] /\ hand[a] \in Hand /\ Nothing \in Hand
      /\ hand[a].upto \in Nat /\ hand[a].from \in Nat
      /\ hand[a].log \in Seq(1..Len(changes)) /\ hand[a].rows \in [Key -> 0..Len(changes)]
      /\ at[a] \in Counting => hand[a].upto <= Len(events)
      /\ at[a] \in {"storing", "acknowledging"} => hand[a].upto <= Len(changes)
  BY TypeFacts
<1>2. h \in Hand /\ point \in Points
  BY <1>1 DEF MarkLog, Points, Hand, TypeOK
<1>3. Moves(a, point, h) /\ changes' = changes
  BY <1>1 DEF MarkLog, Moves, Goto, external
<1>4. /\ point \in Counting => h.upto <= Len(events)'
      /\ point \in {"storing", "acknowledging"} => h.upto <= Len(changes)
      /\ Len(events)' \in Nat /\ Len(events) <= Len(events)'
  BY <1>1, FreshTyped DEF MarkLog, Counting, external, source
<1> HIDE DEF h, point
<1>5. HandsTyped' /\ at' \in [Actor -> Points]
      /\ \A b \in Actor : hand'[b].upto \in Nat /\ hand'[b].from \in Nat
  BY <1>1, <1>2, <1>3, <1>4, HandMoves
<1>6. TypeOK'
  BY SMTT(30), <1>1, <1>4, <1>5, LiveAssumption DEF MarkLog, TypeOK, Counting, external, source, outputs
<1> QED BY <1>5, <1>6 DEF TypeInv

LEMMA TypeStepReadTable ==
    ASSUME TypeInv, NEW a \in Actor, ReadTable(a)
    PROVE  TypeInv'
<1> DEFINE h == [hand[a] EXCEPT !.from = applied, !.log = << >>, !.rows = rows]
           point == "applying"
<1>1. /\ TypeOK /\ a \in Actor /\ Len(changes) \in Nat /\ Len(events) \in Nat
      /\ hand \in [Actor -> Hand] /\ hand[a] \in Hand /\ Nothing \in Hand
      /\ hand[a].upto \in Nat /\ hand[a].from \in Nat
      /\ hand[a].log \in Seq(1..Len(changes)) /\ hand[a].rows \in [Key -> 0..Len(changes)]
      /\ at[a] \in Counting => hand[a].upto <= Len(events)
      /\ at[a] \in {"storing", "acknowledging"} => hand[a].upto <= Len(changes)
  BY TypeFacts
<1>8. << >> \in Seq(1..Len(changes)) /\ applied \in Nat /\ rows \in [Key -> 0..Len(changes)]
  BY <1>1 DEF TypeOK
<1>2. h \in Hand /\ point \in Points
  BY <1>1, <1>8 DEF ReadTable, Points, Hand
<1>3. Moves(a, point, h) /\ changes' = changes
  BY <1>1 DEF ReadTable, Moves, Goto, external
<1>4. /\ point \in Counting => h.upto <= Len(events)'
      /\ point \in {"storing", "acknowledging"} => h.upto <= Len(changes)
      /\ Len(events)' \in Nat /\ Len(events) <= Len(events)'
  BY <1>1, FreshTyped DEF ReadTable, Counting, external, source
<1> HIDE DEF h, point
<1>5. HandsTyped' /\ at' \in [Actor -> Points]
      /\ \A b \in Actor : hand'[b].upto \in Nat /\ hand'[b].from \in Nat
  BY <1>1, <1>2, <1>3, <1>4, HandMoves
<1>6. TypeOK'
  BY <1>1, <1>4, <1>5, LiveAssumption DEF ReadTable, TypeOK, Counting, external, source, outputs
<1> QED BY <1>5, <1>6 DEF TypeInv

LEMMA TypeStepNotFollowing ==
    ASSUME TypeInv, NEW a \in Actor, NotFollowing(a)
    PROVE  TypeInv'
<1> DEFINE h == Nothing
           point == IF a \in Person THEN "idle" ELSE "trimming"
<1>1. /\ TypeOK /\ a \in Actor /\ Len(changes) \in Nat /\ Len(events) \in Nat
      /\ hand \in [Actor -> Hand] /\ hand[a] \in Hand /\ Nothing \in Hand
      /\ hand[a].upto \in Nat /\ hand[a].from \in Nat
      /\ hand[a].log \in Seq(1..Len(changes)) /\ hand[a].rows \in [Key -> 0..Len(changes)]
      /\ at[a] \in Counting => hand[a].upto <= Len(events)
      /\ at[a] \in {"storing", "acknowledging"} => hand[a].upto <= Len(changes)
  BY TypeFacts
<1>2. h \in Hand /\ point \in Points
  BY <1>1 DEF NotFollowing, Points, Hand, TypeOK
<1>3. Moves(a, point, h) /\ changes' = changes
  BY <1>1 DEF NotFollowing, Moves, Goto, Drop, external
<1>4. /\ point \in Counting => h.upto <= Len(events)'
      /\ point \in {"storing", "acknowledging"} => h.upto <= Len(changes)
      /\ Len(events)' \in Nat /\ Len(events) <= Len(events)'
  BY <1>1, FreshTyped DEF NotFollowing, Counting, external, source
<1> HIDE DEF h, point
<1>5. HandsTyped' /\ at' \in [Actor -> Points]
      /\ \A b \in Actor : hand'[b].upto \in Nat /\ hand'[b].from \in Nat
  BY <1>1, <1>2, <1>3, <1>4, HandMoves
<1>6. TypeOK'
  BY <1>1, <1>4, <1>5, LiveAssumption DEF NotFollowing, TypeOK, Counting, external, source, outputs
<1> QED BY <1>5, <1>6 DEF TypeInv

LEMMA TypeStepApplyTable ==
    ASSUME TypeInv, NEW a \in Actor, ApplyTable(a)
    PROVE  TypeInv'
<1> DEFINE h == hand[a]
           point == "tabled"
<1>1. /\ TypeOK /\ a \in Actor /\ Len(changes) \in Nat /\ Len(events) \in Nat
      /\ hand \in [Actor -> Hand] /\ hand[a] \in Hand /\ Nothing \in Hand
      /\ hand[a].upto \in Nat /\ hand[a].from \in Nat
      /\ hand[a].log \in Seq(1..Len(changes)) /\ hand[a].rows \in [Key -> 0..Len(changes)]
      /\ at[a] \in Counting => hand[a].upto <= Len(events)
      /\ at[a] \in {"storing", "acknowledging"} => hand[a].upto <= Len(changes)
  BY TypeFacts
<1>2. h \in Hand /\ point \in Points
  BY <1>1 DEF ApplyTable, Points, Hand, TypeOK
<1>3. Moves(a, point, h) /\ changes' = changes
  BY <1>1 DEF ApplyTable, Moves, Goto, external
<1>4. /\ point \in Counting => h.upto <= Len(events)'
      /\ point \in {"storing", "acknowledging"} => h.upto <= Len(changes)
      /\ Len(events)' \in Nat /\ Len(events) <= Len(events)'
  BY <1>1, FreshTyped DEF ApplyTable, Counting, external, source
<1> HIDE DEF h, point
<1>5. HandsTyped' /\ at' \in [Actor -> Points]
      /\ \A b \in Actor : hand'[b].upto \in Nat /\ hand'[b].from \in Nat
  BY <1>1, <1>2, <1>3, <1>4, HandMoves
<1>7. rows' \in [Key -> 0..Len(changes)]
  <2>1. SubSeq(events, hand[a].from + 1, hand[a].upto) \in Seq(1..Len(changes))
    BY <1>1, SubSeqTyped DEF ApplyTable, TypeOK, Counting
  <2> QED BY <1>1, <2>1, AfterTyped DEF ApplyTable
<1>6. TypeOK'
  BY <1>1, <1>4, <1>5, <1>7, LiveAssumption DEF ApplyTable, TypeOK, Counting, external, source, outputs
<1> QED BY <1>5, <1>6 DEF TypeInv

LEMMA TypeStepMarkTable ==
    ASSUME TypeInv, NEW a \in Actor, MarkTable(a)
    PROVE  TypeInv'
<1> DEFINE h == Nothing
           point == IF a \in Person THEN "idle" ELSE "trimming"
<1>1. /\ TypeOK /\ a \in Actor /\ Len(changes) \in Nat /\ Len(events) \in Nat
      /\ hand \in [Actor -> Hand] /\ hand[a] \in Hand /\ Nothing \in Hand
      /\ hand[a].upto \in Nat /\ hand[a].from \in Nat
      /\ hand[a].log \in Seq(1..Len(changes)) /\ hand[a].rows \in [Key -> 0..Len(changes)]
      /\ at[a] \in Counting => hand[a].upto <= Len(events)
      /\ at[a] \in {"storing", "acknowledging"} => hand[a].upto <= Len(changes)
  BY TypeFacts
<1>2. h \in Hand /\ point \in Points
  BY <1>1 DEF MarkTable, Points, Hand, TypeOK
<1>3. Moves(a, point, h) /\ changes' = changes
  BY <1>1 DEF MarkTable, Moves, Goto, Drop, external
<1>4. /\ point \in Counting => h.upto <= Len(events)'
      /\ point \in {"storing", "acknowledging"} => h.upto <= Len(changes)
      /\ Len(events)' \in Nat /\ Len(events) <= Len(events)'
  BY <1>1, FreshTyped DEF MarkTable, Counting, external, source
<1> HIDE DEF h, point
<1>5. HandsTyped' /\ at' \in [Actor -> Points]
      /\ \A b \in Actor : hand'[b].upto \in Nat /\ hand'[b].from \in Nat
  BY <1>1, <1>2, <1>3, <1>4, HandMoves
<1>6. TypeOK'
  BY <1>1, <1>4, <1>5, LiveAssumption DEF MarkTable, TypeOK, Counting, external, source, outputs
<1> QED BY <1>5, <1>6 DEF TypeInv

LEMMA TypeStepTrim ==
    ASSUME TypeInv, NEW r \in Runner, Trim(r)
    PROVE  TypeInv'
<1> DEFINE h == hand[r]
           point == "releasing"
<1>1. /\ TypeOK /\ r \in Actor /\ Len(changes) \in Nat /\ Len(events) \in Nat
      /\ hand \in [Actor -> Hand] /\ hand[r] \in Hand /\ Nothing \in Hand
      /\ hand[r].upto \in Nat /\ hand[r].from \in Nat
      /\ hand[r].log \in Seq(1..Len(changes)) /\ hand[r].rows \in [Key -> 0..Len(changes)]
      /\ at[r] \in Counting => hand[r].upto <= Len(events)
      /\ at[r] \in {"storing", "acknowledging"} => hand[r].upto <= Len(changes)
  BY TypeFacts, RunnersAct
<1>2. h \in Hand /\ point \in Points
  BY <1>1 DEF Trim, Points, Hand, TypeOK
<1>3. Moves(r, point, h) /\ changes' = changes
  BY <1>1 DEF Trim, Moves, Goto, external
<1>4. /\ point \in Counting => h.upto <= Len(events)'
      /\ point \in {"storing", "acknowledging"} => h.upto <= Len(changes)
      /\ Len(events)' \in Nat /\ Len(events) <= Len(events)'
  BY <1>1, FreshTyped DEF Trim, Counting, external, source
<1> HIDE DEF h, point
<1>5. HandsTyped' /\ at' \in [Actor -> Points]
      /\ \A b \in Actor : hand'[b].upto \in Nat /\ hand'[b].from \in Nat
  BY <1>1, <1>2, <1>3, <1>4, HandMoves
<1>7. trimmed' \in 0..Len(events)
  BY <1>1 DEF Trim, Trimmable, TypeOK
<1>6. TypeOK'
  BY <1>1, <1>4, <1>5, <1>7, LiveAssumption DEF Trim, TypeOK, Counting, external, source, outputs, Trimmable
<1> QED BY <1>5, <1>6 DEF TypeInv

LEMMA TypeStepRelease ==
    ASSUME TypeInv, NEW r \in Runner, Release(r)
    PROVE  TypeInv'
<1> DEFINE h == hand[r]
           point == "idle"
<1>1. /\ TypeOK /\ r \in Actor /\ Len(changes) \in Nat /\ Len(events) \in Nat
      /\ hand \in [Actor -> Hand] /\ hand[r] \in Hand /\ Nothing \in Hand
      /\ hand[r].upto \in Nat /\ hand[r].from \in Nat
      /\ hand[r].log \in Seq(1..Len(changes)) /\ hand[r].rows \in [Key -> 0..Len(changes)]
      /\ at[r] \in Counting => hand[r].upto <= Len(events)
      /\ at[r] \in {"storing", "acknowledging"} => hand[r].upto <= Len(changes)
  BY TypeFacts, RunnersAct
<1>2. h \in Hand /\ point \in Points
  BY <1>1 DEF Release, Points, Hand, TypeOK
<1>3. Moves(r, point, h) /\ changes' = changes
  BY <1>1 DEF Release, Moves, Goto, external
<1>4. /\ point \in Counting => h.upto <= Len(events)'
      /\ point \in {"storing", "acknowledging"} => h.upto <= Len(changes)
      /\ Len(events)' \in Nat /\ Len(events) <= Len(events)'
  BY <1>1, FreshTyped DEF Release, Counting, external, source
<1> HIDE DEF h, point
<1>5. HandsTyped' /\ at' \in [Actor -> Points]
      /\ \A b \in Actor : hand'[b].upto \in Nat /\ hand'[b].from \in Nat
  BY <1>1, <1>2, <1>3, <1>4, HandMoves
<1>6. TypeOK'
  BY <1>1, <1>4, <1>5, LiveAssumption DEF Release, TypeOK, Counting, external, source, outputs
<1> QED BY <1>5, <1>6 DEF TypeInv

LEMMA TypeStepFail ==
    ASSUME TypeInv, NEW a \in Actor, Fail(a)
    PROVE  TypeInv'
<1> DEFINE h == Nothing
           point == IF a \in Person THEN "idle" ELSE "releasing"
<1>1. /\ TypeOK /\ a \in Actor /\ Len(changes) \in Nat /\ Len(events) \in Nat
      /\ hand \in [Actor -> Hand] /\ hand[a] \in Hand /\ Nothing \in Hand
      /\ hand[a].upto \in Nat /\ hand[a].from \in Nat
      /\ hand[a].log \in Seq(1..Len(changes)) /\ hand[a].rows \in [Key -> 0..Len(changes)]
      /\ at[a] \in Counting => hand[a].upto <= Len(events)
      /\ at[a] \in {"storing", "acknowledging"} => hand[a].upto <= Len(changes)
  BY TypeFacts
<1>2. h \in Hand /\ point \in Points
  BY <1>1 DEF Fail, Points, Hand, TypeOK
<1>3. Moves(a, point, h) /\ changes' = changes
  BY <1>1 DEF Fail, Moves, Goto, Drop, external
<1>4. /\ point \in Counting => h.upto <= Len(events)'
      /\ point \in {"storing", "acknowledging"} => h.upto <= Len(changes)
      /\ Len(events)' \in Nat /\ Len(events) <= Len(events)'
  BY <1>1, FreshTyped DEF Fail, Counting, external, source
<1> HIDE DEF h, point
<1>5. HandsTyped' /\ at' \in [Actor -> Points]
      /\ \A b \in Actor : hand'[b].upto \in Nat /\ hand'[b].from \in Nat
  BY <1>1, <1>2, <1>3, <1>4, HandMoves
<1>8. faults \in 0..MaxFaults /\ MaxFaults \in Nat
  BY <1>1, LiveAssumption DEF TypeOK
<1>9. faults < MaxFaults /\ faults' = faults + 1
  BY DEF Fail
<1>7. faults' \in 0..MaxFaults
  BY <1>8, <1>9
<1>6. TypeOK'
  BY <1>1, <1>4, <1>5, <1>7 DEF Fail, TypeOK, Counting, external, source, outputs
<1> QED BY <1>5, <1>6 DEF TypeInv

LEMMA TypeStepDie ==
    ASSUME TypeInv, NEW r \in Runner, Die(r)
    PROVE  TypeInv'
<1> DEFINE h == Nothing
           point == "idle"
<1>1. /\ TypeOK /\ r \in Actor /\ Len(changes) \in Nat /\ Len(events) \in Nat
      /\ hand \in [Actor -> Hand] /\ hand[r] \in Hand /\ Nothing \in Hand
      /\ hand[r].upto \in Nat /\ hand[r].from \in Nat
      /\ hand[r].log \in Seq(1..Len(changes)) /\ hand[r].rows \in [Key -> 0..Len(changes)]
      /\ at[r] \in Counting => hand[r].upto <= Len(events)
      /\ at[r] \in {"storing", "acknowledging"} => hand[r].upto <= Len(changes)
  BY TypeFacts, RunnersAct
<1>2. h \in Hand /\ point \in Points
  BY <1>1 DEF Die, Points, Hand, TypeOK
<1>3. Moves(r, point, h) /\ changes' = changes
  BY <1>1 DEF Die, Moves, Goto, Drop, external
<1>4. /\ point \in Counting => h.upto <= Len(events)'
      /\ point \in {"storing", "acknowledging"} => h.upto <= Len(changes)
      /\ Len(events)' \in Nat /\ Len(events) <= Len(events)'
  BY <1>1, FreshTyped DEF Die, Counting, external, source
<1> HIDE DEF h, point
<1>5. HandsTyped' /\ at' \in [Actor -> Points]
      /\ \A b \in Actor : hand'[b].upto \in Nat /\ hand'[b].from \in Nat
  BY <1>1, <1>2, <1>3, <1>4, HandMoves
<1>7. faults' \in 0..MaxFaults
  BY SMTT(30), <1>1, LiveAssumption DEF Die, TypeOK
<1>6. TypeOK'
  BY <1>1, <1>4, <1>5, <1>7 DEF Die, TypeOK, Counting, external, source, outputs
<1> QED BY <1>5, <1>6 DEF TypeInv

LEMMA TypeStep ==
    ASSUME TypeInv, [Next]_vars
    PROVE  TypeInv'
<1> USE LiveAssumption
<1>0. /\ TypeOK /\ HandsTyped /\ Runner \subseteq Actor
      /\ Len(changes) \in Nat /\ Len(events) \in Nat
  BY DEF TypeInv, TypeOK, Actor
<1>a. Nothing \in Hand
  BY <1>0 DEF Nothing, Hand, Empty, HandsTyped
<1>1. CASE UNCHANGED vars
  BY <1>0, <1>1 DEF vars, external, source, outputs, TypeInv, TypeOK, HandsTyped, Hand
<1>2. ASSUME NEW k \in Key, NEW gone \in BOOLEAN, Change(k, gone) PROVE TypeInv'
  <2>1. Len(changes)' = Len(changes) + 1 /\ changes' \in Seq([key : Key, gone : BOOLEAN])
    BY <1>0, <1>2 DEF Change, TypeOK
  <2>2. (\A h \in Hand : h \in Hand') /\ Seq(1..Len(changes)) \subseteq Seq(1..Len(changes)')
    BY <1>0, <2>1, HandGrows
  <2>3. HandsTyped'
    <3>1. hand \in [Actor -> Hand']
      BY <1>0, <2>2 DEF HandsTyped
    <3> QED BY <1>0, <1>2, <2>1, <3>1 DEF Change, source, HandsTyped, TypeOK
  <2>4. TypeOK'
    BY <1>0, <1>2, <2>1, <2>2 DEF Change, source, outputs, TypeOK
  <2> QED BY <2>3, <2>4 DEF TypeInv
<1>3. ASSUME NEW r \in Runner, Claim(r) PROVE TypeInv'
  BY <1>3, TypeStepClaim
<1>4. CASE LeaseRunsOut
  BY <1>0, <1>4 DEF LeaseRunsOut, external, source, outputs, TypeInv, TypeOK, HandsTyped, Hand
<1>5. ASSUME NEW r \in Runner, TakePosition(r) PROVE TypeInv'
  <2>1. Hand' = Hand
    BY <1>5 DEF TakePosition, Hand
  <2>2. HandsTyped'
    BY <1>0, <1>5, <2>1 DEF TakePosition, HandsTyped
  <2>3. slot' \in 0..Len(changes) /\ start' \in 0..slot'
    BY <1>0, <1>5 DEF TakePosition
  <2>4. TypeOK'
    BY <1>0, <1>5, <2>3 DEF TakePosition, outputs, TypeOK
  <2> QED BY <2>2, <2>4 DEF TypeInv
<1>6. ASSUME NEW r \in Runner, BeginCopy(r) PROVE TypeInv'
  BY <1>6, TypeStepBeginCopy
<1>7. ASSUME NEW r \in Runner, Copy(r) PROVE TypeInv'
  BY <1>7, TypeStepCopy
<1>8. ASSUME NEW r \in Runner, PublishCopy(r) PROVE TypeInv'
  BY <1>8, TypeStepPublishCopy
<1>9. ASSUME NEW r \in Runner, LinkCopy(r) PROVE TypeInv'
  BY <1>9, TypeStepLinkCopy
<1>10. ASSUME NEW r \in Runner, CopyFails(r) PROVE TypeInv'
  BY <1>10, TypeStepCopyFails
<1>11. ASSUME NEW r \in Runner, Read(r) PROVE TypeInv'
  BY <1>11, TypeStepRead
<1>12. ASSUME NEW r \in Runner, Store(r) PROVE TypeInv'
  BY <1>12, TypeStepStore
<1>13. ASSUME NEW r \in Runner, Acknowledge(r) PROVE TypeInv'
  BY <1>13, TypeStepAcknowledge
<1>14. ASSUME NEW r \in Runner, AcknowledgeFails(r) PROVE TypeInv'
  BY <1>14, TypeStepAcknowledgeFails
<1>15. ASSUME NEW a \in Actor, SaveStart(a) PROVE TypeInv'
  BY <1>15, TypeStepSaveStart
<1>16. ASSUME NEW r \in Runner, NotDue(r) PROVE TypeInv'
  BY <1>16, TypeStepNotDue
<1>17. ASSUME NEW a \in Actor, NoNewEvents(a) PROVE TypeInv'
  BY <1>17, TypeStepNoNewEvents
<1>18. ASSUME NEW a \in Actor, PublishLog(a) PROVE TypeInv'
  BY <1>18, TypeStepPublishLog
<1>19. ASSUME NEW a \in Actor, MarkLog(a) PROVE TypeInv'
  BY <1>19, TypeStepMarkLog
<1>20. ASSUME NEW a \in Actor, ReadTable(a) PROVE TypeInv'
  BY <1>20, TypeStepReadTable
<1>21. ASSUME NEW a \in Actor, NotFollowing(a) PROVE TypeInv'
  BY <1>21, TypeStepNotFollowing
<1>22. ASSUME NEW a \in Actor, ApplyTable(a) PROVE TypeInv'
  BY <1>22, TypeStepApplyTable
<1>23. ASSUME NEW a \in Actor, MarkTable(a) PROVE TypeInv'
  BY <1>23, TypeStepMarkTable
<1>24. ASSUME NEW r \in Runner, Trim(r) PROVE TypeInv'
  BY <1>24, TypeStepTrim
<1>25. ASSUME NEW r \in Runner, Release(r) PROVE TypeInv'
  BY <1>25, TypeStepRelease
<1>26. ASSUME NEW a \in Actor, Fail(a) PROVE TypeInv'
  BY <1>26, TypeStepFail
<1>27. ASSUME NEW r \in Runner, Die(r) PROVE TypeInv'
  BY <1>27, TypeStepDie
<1>28. CASE StartAgain
  <2>1. Hand' = Hand
    BY <1>28 DEF StartAgain, external, Hand
  <2>2. HandsTyped'
    BY <1>0, <1>28, <2>1 DEF StartAgain, external, HandsTyped
  <2>3. restarts' \in 0..MaxRestarts
    BY <1>0, <1>28 DEF StartAgain, TypeOK
  <2>4. TypeOK'
    BY <1>0, <1>28, <2>3 DEF StartAgain, external, TypeOK
  <2> QED BY <2>2, <2>4 DEF TypeInv
<1> QED
  BY <1>1, <1>2, <1>3, <1>4, <1>5, <1>6, <1>7, <1>8, <1>9, <1>10, <1>11, <1>12, <1>13,
     <1>14, <1>15, <1>16, <1>17, <1>18, <1>19, <1>20, <1>21, <1>22, <1>23, <1>24, <1>25,
     <1>26, <1>27, <1>28
  DEF Next, PassStep, SaveStep

(***************************************************************************)
(* A change is stored once.                                                *)
(*                                                                         *)
(* The events are kept in the order of the change log.  What a pass reads  *)
(* begins at the slot's position; what is stored past it has no hole, so a *)
(* batch that comes again is stored up to some event and the rest of it    *)
(* lies behind; and what is trimmed lies before it.  A pass has the source *)
(* to itself while it holds the lease.                                     *)
(***************************************************************************)

HoldsTheLease ==
    \A r \in Runner : at[r] # "idle" => lease = [owner |-> r, until |-> "live"]

Increasing == \A i, j \in DOMAIN events : i < j => events[i] < events[j]

NoHole ==
    \A i \in DOMAIN events : \A c \in (slot + 1)..events[i] :
        \E j \in DOMAIN events : events[j] = c

TrimmedAreTold == \A i \in 1..trimmed : events[i] <= slot

ReadFromSlot == \A r \in Runner : at[r] = "storing" => hand[r].from = slot

EventInv == HoldsTheLease /\ Increasing /\ NoHole /\ TrimmedAreTold /\ ReadFromSlot

LEMMA OneRunner ==
    ASSUME HoldsTheLease, NEW r \in Runner, NEW q \in Runner, at[r] # "idle", at[q] # "idle"
    PROVE  r = q
BY DEF HoldsTheLease

\* Where an actor goes, and that nobody else does.
LEMMA OnlyOneGoes ==
    ASSUME TypeInv, NEW a \in Actor, NEW point, at' = [at EXCEPT ![a] = point]
    PROVE  at'[a] = point /\ \A b \in Actor : b # a => at'[b] = at[b]
BY TypeFacts DEF TypeOK

LEMMA LeaseStep ==
    ASSUME TypeInv, HoldsTheLease, SlowPass = FALSE, [Next]_vars
    PROVE  HoldsTheLease'
<1>1. TypeOK /\ at \in [Actor -> Points] /\ Runner \subseteq Actor
  BY DEF TypeInv, TypeOK, Actor
<1>2. ASSUME lease' = lease, NEW a \in Actor, NEW point, at' = [at EXCEPT ![a] = point],
             a \in Runner /\ point # "idle" => at[a] # "idle"
      PROVE  HoldsTheLease'
  BY <1>1, <1>2 DEF HoldsTheLease
<1>3. ASSUME lease' = lease, at' = at PROVE HoldsTheLease'
  BY <1>3 DEF HoldsTheLease
<1>4. ASSUME NEW r \in Runner, Claim(r) PROVE HoldsTheLease'
  <2>1. lease.until # "live" \/ lease.owner = r
    BY <1>4 DEF Claim
  <2>2. \A q \in Runner : at[q] # "idle" => q = r
    BY <2>1 DEF HoldsTheLease
  <2> QED BY <1>1, <1>4, <2>2 DEF Claim, Goto, HoldsTheLease
<1>5. CASE LeaseRunsOut
  BY <1>5 DEF LeaseRunsOut, HoldsTheLease
<1>6. ASSUME NEW r \in Runner, Release(r) PROVE HoldsTheLease'
  <2>1. \A q \in Runner : at[q] # "idle" => q = r
    BY <1>6, OneRunner DEF Release
  <2> QED BY <1>1, <1>6, <2>1 DEF Release, Goto, HoldsTheLease
<1>7. CASE UNCHANGED vars
  BY <1>3, <1>7 DEF vars
<1>8. ASSUME NEW k \in Key, NEW gone \in BOOLEAN, Change(k, gone) PROVE HoldsTheLease'
  BY <1>3, <1>8 DEF Change
<1>9. CASE StartAgain
  BY <1>3, <1>9 DEF StartAgain
<1>10. ASSUME NEW r \in Runner, TakePosition(r) PROVE HoldsTheLease'
  BY <1>3, <1>10 DEF TakePosition
<1>11. ASSUME NEW r \in Runner,
              BeginCopy(r) \/ Copy(r) \/ PublishCopy(r) \/ LinkCopy(r) \/ CopyFails(r) \/ Read(r)
       PROVE  HoldsTheLease'
  BY <1>1, <1>2, <1>11 DEF BeginCopy, Copy, PublishCopy, LinkCopy, CopyFails, Read, Goto
<1>12. ASSUME NEW r \in Runner,
              Store(r) \/ Acknowledge(r) \/ AcknowledgeFails(r) \/ NotDue(r) \/ Trim(r) \/ Die(r)
       PROVE  HoldsTheLease'
  BY <1>1, <1>2, <1>12 DEF Store, Acknowledge, AcknowledgeFails, NotDue, Trim, Die, Goto
<1>13. ASSUME NEW a \in Actor, SaveStart(a) PROVE HoldsTheLease'
  <2>1. a \in Runner => at[a] = "stored"
    BY <1>13, LiveAssumption DEF SaveStart
  <2> QED BY <1>2, <1>13, <2>1 DEF SaveStart, Goto
<1>14. ASSUME NEW a \in Actor, SaveStep(a) PROVE HoldsTheLease'
  BY <1>2, <1>14 DEF SaveStep, NoNewEvents, PublishLog, MarkLog, ReadTable, NotFollowing,
     ApplyTable, MarkTable, Goto
<1>15. ASSUME NEW a \in Actor, Fail(a) PROVE HoldsTheLease'
  BY <1>2, <1>15 DEF Fail, Goto
<1> QED
  BY <1>4, <1>5, <1>6, <1>7, <1>8, <1>9, <1>10, <1>11, <1>12, <1>13, <1>14, <1>15
  DEF Next, PassStep

\* Steps that leave the events, the slot and the trimmed ones alone and begin
\* no reading.
LEMMA EventsStay ==
    ASSUME EventInv, events' = events, slot' = slot, trimmed' = trimmed,
           \A r \in Runner : at'[r] = "storing" => at[r] = "storing" /\ hand'[r] = hand[r]
    PROVE  (Increasing /\ NoHole /\ TrimmedAreTold /\ ReadFromSlot)'
BY DEF EventInv, Increasing, NoHole, TrimmedAreTold, ReadFromSlot

LEMMA StoreKeepsOrder ==
    ASSUME TypeInv, EventInv, NEW r \in Runner, Store(r)
    PROVE  (Increasing /\ NoHole)' /\ SubSeq(events', 1, Len(events)) = events
           /\ \A i \in 1..Len(events) : events'[i] = events[i]
<1> DEFINE F == Fresh(slot, hand[r].upto)
           E == events
           n == Len(changes)
<1>1. /\ TypeOK /\ r \in Actor /\ n \in Nat /\ Len(E) \in Nat /\ slot \in Nat
      /\ hand[r].from = slot /\ hand[r].upto \in 0..n /\ at[r] = "storing"
      /\ slot' = slot /\ E \in Seq(1..n)
  <2>1. at[r] = "storing" /\ slot' = slot /\ r \in Actor
    BY RunnersAct DEF Store, external
  <2>2. /\ TypeOK /\ n \in Nat /\ Len(E) \in Nat /\ hand[r].upto \in Nat /\ hand[r].upto <= n
    BY <2>1, TypeFacts
  <2>3. hand[r].from = slot
    BY <2>1 DEF EventInv, ReadFromSlot
  <2>4. slot \in Nat /\ E \in Seq(1..n)
    BY <2>2 DEF TypeOK
  <2> QED BY <2>1, <2>2, <2>3, <2>4
<1>2. events' = E \o F
  BY <1>1 DEF Store
<1>3. /\ F \in Seq(1..n)
      /\ \A i \in DOMAIN F :
           /\ F[i] \in (slot + 1)..hand[r].upto
           /\ \A j \in (trimmed + 1)..Len(E) : E[j] # F[i]
      /\ \A x \in (slot + 1)..hand[r].upto :
           \/ \E j \in (trimmed + 1)..Len(E) : E[j] = x
           \/ \E i \in DOMAIN F : F[i] = x
      /\ \A i, j \in DOMAIN F : i < j => F[i] < F[j]
  <2>1. slot \in Nat /\ n \in Nat /\ hand[r].upto \in 0..n
    BY <1>1
  <2> HIDE DEF n
  <2> QED BY <2>1, FreshIs
<1> HIDE DEF F
<1>11. DOMAIN E = 1..Len(E) /\ DOMAIN F = 1..Len(F)
  BY <1>1, <1>3
<1>4. \A i \in 1..Len(E) : E[i] \in 1..n
  BY <1>1
<1>5. ASSUME NEW i \in DOMAIN F, NEW j \in 1..Len(E) PROVE E[j] # F[i]
  <2>1. CASE j \in 1..trimmed
    BY <1>1, <1>3, <1>4, <2>1 DEF EventInv, TrimmedAreTold
  <2>2. CASE j \in (trimmed + 1)..Len(E)
    BY <1>3, <2>2
  <2> QED BY <1>1, <2>1, <2>2 DEF TypeOK
<1>6. ASSUME NEW i \in DOMAIN F, NEW j \in 1..Len(E) PROVE E[j] < F[i]
  <2>1. E[j] \in Nat /\ F[i] \in Nat /\ F[i] \in (slot + 1)..hand[r].upto
    BY <1>1, <1>3, <1>4
  <2>2. E[j] > F[i] => F[i] \in (slot + 1)..E[j]
    BY <1>1, <2>1
  <2>3. E[j] > F[i] => \E q \in DOMAIN E : E[q] = F[i]
    BY <1>1, <2>2 DEF EventInv, NoHole
  <2> QED BY <1>1, <1>5, <2>1, <2>3
<1>7. /\ Len(events') = Len(E) + Len(F) /\ Len(F) \in Nat
      /\ \A i \in 1..Len(E) : events'[i] = E[i]
      /\ \A i \in 1..Len(F) : events'[Len(E) + i] = F[i]
      /\ events' \in Seq(1..n) /\ DOMAIN events' = 1..Len(events')
  BY <1>1, <1>2, <1>3
<1>8. \A i \in DOMAIN events' : i \in 1..Len(E) \/ \E q \in 1..Len(F) : i = Len(E) + q
  <2> SUFFICES ASSUME NEW i \in 1..(Len(E) + Len(F)), ~ (i \in 1..Len(E))
               PROVE  \E q \in 1..Len(F) : i = Len(E) + q
    BY <1>7
  <2>1. i - Len(E) \in 1..Len(F) /\ i = Len(E) + (i - Len(E))
    BY <1>1, <1>7
  <2> QED BY <2>1
<1>9. Increasing'
  <2> SUFFICES ASSUME NEW i \in DOMAIN events', NEW j \in DOMAIN events', i < j
               PROVE  events'[i] < events'[j]
    BY DEF Increasing
  <2>1. CASE j \in 1..Len(E)
    <3>1. i \in 1..Len(E)
      BY <1>1, <1>7, <2>1
    <3> QED BY <1>1, <1>7, <1>11, <2>1, <3>1 DEF EventInv, Increasing
  <2>2. ASSUME NEW q \in 1..Len(F), j = Len(E) + q PROVE events'[i] < events'[j]
    <3>1. CASE i \in 1..Len(E)
      BY <1>3, <1>6, <1>7, <1>11, <2>2, <3>1
    <3>2. ASSUME NEW p \in 1..Len(F), i = Len(E) + p PROVE events'[i] < events'[j]
      <4>1. p < q
        BY <1>1, <1>7, <2>2, <3>2
      <4>2. F[p] < F[q]
        BY <1>3, <1>11, <4>1
      <4>3. events'[i] = F[p] /\ events'[j] = F[q]
        BY <1>7, <2>2, <3>2
      <4> QED BY <4>2, <4>3
    <3> QED BY <1>8, <3>1, <3>2
  <2> QED BY <1>8, <2>1, <2>2
<1>10. NoHole'
  <2> SUFFICES ASSUME NEW i \in DOMAIN events', NEW c \in (slot + 1)..events'[i]
               PROVE  \E j \in DOMAIN events' : events'[j] = c
    BY <1>1 DEF NoHole
  <2>1. 1..Len(E) \subseteq DOMAIN events' /\ \A q \in 1..Len(F) : Len(E) + q \in DOMAIN events'
    BY <1>1, <1>7
  <2>2. CASE i \in 1..Len(E)
    <3>1. \E j \in 1..Len(E) : E[j] = c
      BY <1>1, <1>7, <1>11, <2>2 DEF EventInv, NoHole
    <3> QED BY <1>7, <2>1, <3>1
  <2>3. ASSUME NEW q \in 1..Len(F), i = Len(E) + q
        PROVE  \E j \in DOMAIN events' : events'[j] = c
    <3>1. F[q] \in (slot + 1)..hand[r].upto /\ events'[i] = F[q]
      BY SMTT(30), <1>3, <1>7, <2>3
    <3>2. c \in (slot + 1)..hand[r].upto
      BY <1>1, <3>1
    <3>3. \/ \E j \in 1..Len(E) : E[j] = c
          \/ \E p \in 1..Len(F) : F[p] = c
      <4>1. (trimmed + 1)..Len(E) \subseteq 1..Len(E)
        BY <1>1 DEF TypeOK
      <4> QED BY <1>3, <1>11, <3>2, <4>1
    <3> QED BY <1>7, <2>1, <3>3
  <2> QED BY <1>8, <2>2, <2>3
<1> QED BY <1>1, <1>2, <1>3, <1>7, <1>9, <1>10

LEMMA EventStep ==
    ASSUME TypeInv, EventInv, SlowPass = FALSE, [Next]_vars
    PROVE  EventInv'
<1>1. /\ TypeOK /\ at \in [Actor -> Points] /\ Runner \subseteq Actor /\ HoldsTheLease
      /\ hand \in [Actor -> Hand] /\ slot \in Nat /\ Len(changes) \in Nat /\ slot <= Len(changes)
      /\ \A i \in DOMAIN events : events[i] \in Nat
      /\ trimmed \in Nat /\ trimmed <= Len(events) /\ Len(events) \in Nat
  BY SMTT(30) DEF TypeInv, TypeOK, HandsTyped, Actor, EventInv
<1>2. HoldsTheLease'
  BY <1>1, LeaseStep
<1> SUFFICES (Increasing /\ NoHole /\ TrimmedAreTold /\ ReadFromSlot)'
  BY <1>2 DEF EventInv
<1> DEFINE Kept == (Increasing /\ NoHole /\ TrimmedAreTold /\ ReadFromSlot)'
<1>3. ASSUME events' = events, slot' = slot, trimmed' = trimmed, at' = at, hand' = hand
      PROVE  Kept
  BY <1>3, EventsStay
<1>4. ASSUME events' = events, slot' = slot, trimmed' = trimmed, NEW a \in Actor,
             NEW point, point # "storing", at' = [at EXCEPT ![a] = point],
             \A b \in Actor : b # a => hand'[b] = hand[b]
      PROVE  Kept
  <2>1. \A r \in Runner : at'[r] = "storing" => r # a /\ at[r] = "storing"
    BY <1>1, <1>4
  <2>2. \A r \in Runner : at'[r] = "storing" => at[r] = "storing" /\ hand'[r] = hand[r]
    BY <1>1, <1>4, <2>1
  <2> QED BY <1>4, <2>2, EventsStay
<1>5. ASSUME slot' \in Nat, slot <= slot', events' = events, trimmed' = trimmed,
             \A r \in Runner : at'[r] # "storing"
      PROVE  Kept
  <2>1. Increasing' /\ ReadFromSlot'
    BY <1>5 DEF EventInv, Increasing, ReadFromSlot
  <2>2. NoHole'
    <3>1. \A i \in DOMAIN events : (slot' + 1)..events[i] \subseteq (slot + 1)..events[i]
      BY <1>1, <1>5
    <3> QED BY <1>5, <3>1 DEF EventInv, NoHole
  <2>3. TrimmedAreTold'
    <3>1. \A i \in 1..trimmed : events[i] \in Nat /\ events[i] <= slot
      BY <1>1 DEF EventInv, TrimmedAreTold
    <3> QED BY <1>1, <1>5, <3>1 DEF TrimmedAreTold
  <2> QED BY <2>1, <2>2, <2>3
<1>6. CASE UNCHANGED vars
  BY <1>3, <1>6 DEF vars, external, source
<1>7. ASSUME NEW k \in Key, NEW gone \in BOOLEAN, Change(k, gone) PROVE Kept
  BY <1>3, <1>7 DEF Change, source
<1>8. CASE LeaseRunsOut
  BY <1>3, <1>8 DEF LeaseRunsOut, external, source
<1>9. CASE StartAgain
  BY <1>3, <1>9 DEF StartAgain, external
<1>10. ASSUME NEW r \in Runner, TakePosition(r) PROVE Kept
  <2>1. \A q \in Runner : at'[q] # "storing"
    BY <1>1, <1>10, OneRunner DEF TakePosition
  <2> QED BY <1>1, <1>5, <1>10, <2>1 DEF TakePosition
<1>11. ASSUME NEW r \in Runner, Acknowledge(r) PROVE Kept
  <2>1. \A q \in Runner : at'[q] # "storing"
    BY <1>1, <1>11, OneRunner DEF Acknowledge, Goto
  <2>2. hand[r].upto \in Nat
    BY <1>1 DEF Hand
  <2> QED BY <1>1, <1>5, <1>11, <2>1, <2>2 DEF Acknowledge, source
<1>12. ASSUME NEW r \in Runner, Read(r) PROVE Kept
  <2>1. \A q \in Runner : at'[q] = "storing" => q = r
    BY <1>1, <1>12, OneRunner DEF Read, Goto
  <2>2. hand'[r].from = slot
    BY <1>1, <1>12 DEF Read, Hand
  <2>3. events' = events /\ slot' = slot /\ trimmed' = trimmed
    BY <1>12 DEF Read, external, source
  <2>4. Increasing' /\ NoHole' /\ TrimmedAreTold'
    BY <2>3 DEF EventInv, Increasing, NoHole, TrimmedAreTold
  <2>5. ReadFromSlot'
    BY <2>1, <2>2, <2>3 DEF ReadFromSlot
  <2> QED BY <2>4, <2>5
<1>13. ASSUME NEW r \in Runner, Store(r) PROVE Kept
  <2>1. \A q \in Runner : at'[q] # "storing"
    BY <1>1, <1>13, OneRunner DEF Store, Goto
  <2>2. (Increasing /\ NoHole)' /\ \A i \in 1..Len(events) : events'[i] = events[i]
    BY <1>13, StoreKeepsOrder
  <2>3. TrimmedAreTold'
    <3>1. slot' = slot /\ trimmed' = trimmed
      BY <1>13 DEF Store, external
    <3>2. \A i \in 1..trimmed : events'[i] = events[i]
      BY <1>1, <2>2
    <3> QED BY <3>1, <3>2 DEF EventInv, TrimmedAreTold
  <2> QED BY <2>1, <2>2, <2>3 DEF ReadFromSlot
<1>14. ASSUME NEW r \in Runner, Trim(r) PROVE Kept
  <2>1. \A q \in Runner : at'[q] = "storing" => at[q] = "storing"
    BY <1>1, <1>14 DEF Trim, Goto
  <2>2. TrimmedAreTold'
    <3>1. PICK upto \in trimmed..Trimmable :
            (\A i \in (trimmed + 1)..upto : events[i] <= slot) /\ trimmed' = upto
      BY <1>14 DEF Trim
    <3>2. slot' = slot /\ events' = events
      BY <1>14 DEF Trim, external
    <3>3. \A i \in 1..upto : i \in 1..trimmed \/ i \in (trimmed + 1)..upto
      BY <1>1
    <3> QED BY <3>1, <3>2, <3>3 DEF EventInv, TrimmedAreTold
  <2> QED BY <1>14, <2>1, <2>2
          DEF Trim, external, EventInv, Increasing, NoHole, ReadFromSlot
<1>15. ASSUME NEW r \in Runner,
              Claim(r) \/ BeginCopy(r) \/ Copy(r) \/ PublishCopy(r) \/ LinkCopy(r) \/ CopyFails(r)
       PROVE  Kept
  BY <1>1, <1>4, <1>15 DEF Claim, BeginCopy, Copy, PublishCopy, LinkCopy, CopyFails, Goto, Drop,
     external, source
<1>16. ASSUME NEW r \in Runner, AcknowledgeFails(r) \/ NotDue(r) \/ Release(r) \/ Die(r)
       PROVE  Kept
  BY <1>1, <1>4, <1>16 DEF AcknowledgeFails, NotDue, Release, Die, Goto, Drop, external, source
<1>17. ASSUME NEW a \in Actor, SaveStart(a) \/ SaveStep(a) \/ Fail(a) PROVE Kept
  BY <1>1, <1>4, <1>17 DEF SaveStart, SaveStep, NoNewEvents, PublishLog, MarkLog, ReadTable,
     NotFollowing, ApplyTable, MarkTable, Fail, Goto, Drop, external, source
<1> QED
  BY <1>6, <1>7, <1>8, <1>9, <1>10, <1>11, <1>12, <1>13, <1>14, <1>15, <1>16, <1>17
  DEF Next, PassStep

LEMMA EventInit == Init => EventInv
<1> SUFFICES ASSUME Init PROVE EventInv
  OBVIOUS
<1>1. DOMAIN events = {} /\ trimmed = 0 /\ \A r \in Runner : at[r] = "idle"
  BY DEF Init, Actor
<1>2. 1..trimmed = {}
  BY <1>1
<1> QED BY <1>1, <1>2
        DEF EventInv, HoldsTheLease, Increasing, NoHole, TrimmedAreTold, ReadFromSlot

\* The rows of a live source and of its outputs, and what passes and requests
\* hold of them, have the values the code gives them.
THEOREM LiveTypesHold == Spec => []TypeOK
<1>1. TypeInv => TypeOK
  BY DEF TypeInv
<1> QED BY <1>1, TypeInit, TypeStep, PTL DEF Spec

\* A change that the source sends again, after a lost acknowledgement or a
\* death, is stored once, whoever saves meanwhile (store_messages), as long as
\* a pass ends within its lease.
THEOREM ChangesAreStoredOnce ==
    ASSUME SlowPass = FALSE
    PROVE  Spec => []StoredOnce
<1>1. TypeInv /\ EventInv => StoredOnce
  <2> SUFFICES ASSUME TypeInv, EventInv, NEW i \in DOMAIN events, NEW j \in DOMAIN events,
                      events[i] = events[j]
               PROVE  i = j
    BY DEF StoredOnce
  <2>1. i \in Nat /\ j \in Nat /\ events[i] \in Nat
    <3>1. events \in Seq(1..Len(changes))
      BY DEF TypeInv, TypeOK
    <3>2. events[i] \in 1..Len(changes)
      BY <3>1
    <3> QED BY <3>1, <3>2
  <2>2. ~ (i < j) /\ ~ (j < i)
    BY <2>1 DEF EventInv, Increasing
  <2> QED BY <2>1, <2>2
<1>2. Init => TypeInv /\ EventInv
  BY TypeInit, EventInit
<1>3. TypeInv /\ EventInv /\ [Next]_vars => (TypeInv /\ EventInv)'
  BY TypeStep, EventStep
<1> QED BY <1>1, <1>2, <1>3, PTL DEF Spec

(***************************************************************************)
(* The log misses nothing, and nothing an output needs is trimmed.         *)
(*                                                                         *)
(* While nobody saves beside the lease, what a pass holds is still so when *)
(* it acts on it: it has counted every event, and the log and the mark it  *)
(* builds on are the current ones.                                         *)
(***************************************************************************)

LogOf(r) ==
    /\ at[r] \in Counting => hand[r].upto = Len(events)
    /\ at[r] = "logging" => hand[r].log = log /\ hand[r].from = logSaved
    /\ at[r] = "logged" => \A i \in 1..hand[r].upto : events[i] \in ToSet(log)

LogInv ==
    /\ \A r \in Runner : LogOf(r)
    /\ LogMissesNothing
    /\ NothingNeededIsTrimmed

\* While a pass goes on, and when one begins, nobody else is at work.
LEMMA OthersRest ==
    ASSUME HoldsTheLease, NEW r \in Runner, at[r] # "idle" \/ Claim(r)
    PROVE  \A q \in Runner : q # r => at[q] = "idle"
<1>1. CASE at[r] # "idle"
  BY <1>1, OneRunner
<1>2. CASE Claim(r)
  BY <1>2 DEF Claim, HoldsTheLease
<1> QED BY <1>1, <1>2

LEMMA InConcat ==
    ASSUME NEW S, NEW s \in Seq(S), NEW t \in Seq(S), NEW x, x \in ToSet(s) \/ x \in ToSet(t)
    PROVE  x \in ToSet(s \o t)
<1>1. CASE x \in ToSet(s)
  <2>1. PICK i \in DOMAIN s : s[i] = x
    BY <1>1 DEF ToSet
  <2>2. i \in DOMAIN (s \o t) /\ (s \o t)[i] = x
    BY <2>1
  <2> QED BY <2>2 DEF ToSet
<1>2. CASE x \in ToSet(t)
  <2>1. PICK i \in DOMAIN t : t[i] = x
    BY <1>2 DEF ToSet
  <2>2. Len(s) + i \in DOMAIN (s \o t) /\ (s \o t)[Len(s) + i] = x
    BY <2>1
  <2> QED BY <2>2 DEF ToSet
<1> QED BY <1>1, <1>2

LEMMA LogInit == Init => LogInv
<1> SUFFICES ASSUME Init PROVE LogInv
  OBVIOUS
<1>1. trimmed = 0 /\ logSaved = 0 /\ table = "waiting" /\ \A r \in Runner : at[r] = "idle"
  BY DEF Init, Actor
<1>2. 1..logSaved = {}
  BY <1>1
<1> QED BY <1>1, <1>2
        DEF LogInv, LogOf, LogMissesNothing, NothingNeededIsTrimmed, Counting

\* Steps that leave the events, the log, the marks and the trimmed ones alone.
LEMMA LogStays ==
    ASSUME LogInv, events' = events, log' = log, logSaved' = logSaved, trimmed' = trimmed,
           applied' = applied, table' = table \/ table' # "following",
           \A r \in Runner : LogOf(r)'
    PROVE  LogInv'
BY DEF LogInv, LogMissesNothing, NothingNeededIsTrimmed, ToSet

\* What the steps of one runner need to show.
LEMMA LogOfOne ==
    ASSUME TypeInv, HoldsTheLease, NEW r \in Runner, at[r] # "idle" \/ Claim(r), NEW point,
           at' = [at EXCEPT ![r] = point]
    PROVE  /\ at'[r] = point
           /\ LogOf(r)' => \A q \in Runner : LogOf(q)'
<1>1. at'[r] = point /\ \A q \in Runner : q # r => at'[q] = at[q]
  BY OnlyOneGoes, RunnersAct
<1>2. \A q \in Runner : q # r => at'[q] = "idle"
  BY <1>1, OthersRest
<1>3. \A q \in Runner : q # r => LogOf(q)'
  BY <1>2 DEF LogOf, Counting
<1> QED BY <1>1, <1>3

LEMMA LogStep ==
    ASSUME TypeInv, EventInv, LogInv, Person = {}, [Next]_vars
    PROVE  LogInv'
<1>1. /\ TypeOK /\ at \in [Actor -> Points] /\ HoldsTheLease /\ Len(events) \in Nat
      /\ hand \in [Actor -> Hand] /\ Actor = Runner /\ Len(changes) \in Nat
      /\ trimmed \in 0..Len(events) /\ logSaved \in 0..Len(events) /\ applied \in 0..Len(events)
      /\ log \in Seq(1..Len(changes)) /\ events \in Seq(1..Len(changes))
  BY DEF TypeInv, TypeOK, HandsTyped, Actor, EventInv
<1>2. /\ LogMissesNothing /\ NothingNeededIsTrimmed /\ \A r \in Runner : LogOf(r)
  BY DEF LogInv
<1>3. ASSUME at' = at, hand' = hand, events' = events, log' = log, logSaved' = logSaved,
             trimmed' = trimmed, applied' = applied, table' = table \/ table' # "following"
      PROVE  LogInv'
  BY <1>2, <1>3, LogStays DEF LogOf, ToSet
<1>4. CASE UNCHANGED vars
  BY <1>3, <1>4 DEF vars, external, source, outputs
<1>5. ASSUME NEW k \in Key, NEW gone \in BOOLEAN, Change(k, gone) PROVE LogInv'
  BY <1>3, <1>5 DEF Change, source, outputs
<1>6. CASE LeaseRunsOut
  BY <1>3, <1>6 DEF LeaseRunsOut, external, source, outputs
<1>7. CASE StartAgain
  BY <1>3, <1>7 DEF StartAgain, external
<1>8. ASSUME NEW r \in Runner, TakePosition(r) PROVE LogInv'
  BY <1>3, <1>8 DEF TakePosition, outputs
<1>9. ASSUME NEW r \in Runner, NEW point, at' = [at EXCEPT ![r] = point],
             at[r] # "idle" \/ Claim(r),
             events' = events, log' = log, logSaved' = logSaved, trimmed' = trimmed,
             applied' = applied, table' = table \/ table' # "following",
             point \notin Counting \/ (point \in {"copied", "linking", "tabling", "applying",
                "tabled"} /\ at[r] \in Counting /\ hand'[r].upto = hand[r].upto)
      PROVE  LogInv'
  <2>1. at'[r] = point
    BY <1>1, <1>9, LogOfOne
  <2>2. LogOf(r)'
    BY <1>2, <1>9, <2>1 DEF LogOf, Counting
  <2>3. \A q \in Runner : LogOf(q)'
    BY <1>1, <1>9, <2>2, LogOfOne
  <2> QED BY <1>9, <2>3, LogStays
<1>10. ASSUME NEW r \in Runner, Claim(r) \/ LinkCopy(r) \/ CopyFails(r) \/ Read(r)
              \/ Store(r) \/ Acknowledge(r) \/ AcknowledgeFails(r) \/ NotDue(r) \/ Release(r)
              \/ Die(r) \/ Trim(r)
       PROVE  at'[r] \notin Counting
  BY <1>1, <1>10 DEF Claim, LinkCopy, CopyFails, Read, Store, Acknowledge, AcknowledgeFails,
     NotDue, Release, Die, Trim, Goto, Counting
<1>11. ASSUME NEW r \in Runner, Claim(r) PROVE LogInv'
  BY <1>9, <1>11 DEF Claim, Goto, Counting, source, outputs
<1>12. ASSUME NEW r \in Runner, CopyFails(r) PROVE LogInv'
  BY <1>9, <1>12 DEF CopyFails, Goto, Counting, source
<1>13. ASSUME NEW r \in Runner, Read(r) \/ Acknowledge(r) PROVE LogInv'
  BY <1>9, <1>13 DEF Read, Acknowledge, Goto, Counting, source, outputs
<1>14. ASSUME NEW r \in Runner, AcknowledgeFails(r) \/ NotDue(r) PROVE LogInv'
  BY <1>9, <1>14 DEF AcknowledgeFails, NotDue, Goto, Counting, source, outputs
<1>15. ASSUME NEW r \in Runner, Release(r) \/ Die(r) PROVE LogInv'
  BY <1>9, <1>15 DEF Release, Die, Goto, Counting, source, outputs
<1>16. ASSUME NEW r \in Runner, Copy(r) PROVE LogInv'
  <2>1. hand'[r].upto = hand[r].upto
    BY <1>1, <1>16 DEF Copy, Hand
  <2> QED BY <1>9, <1>16, <2>1 DEF Copy, Goto, Counting, source, outputs
<1>17. ASSUME NEW r \in Runner, PublishCopy(r) PROVE LogInv'
  BY <1>9, <1>17 DEF PublishCopy, Goto, Counting, source
<1>18. ASSUME NEW r \in Runner, NoNewEvents(r) PROVE LogInv'
  BY <1>9, <1>18 DEF NoNewEvents, Goto, Counting, source, outputs
<1>19. ASSUME NEW r \in Runner, ReadTable(r) PROVE LogInv'
  <2>1. hand'[r].upto = hand[r].upto
    BY <1>1, <1>19 DEF ReadTable, Hand
  <2> QED BY <1>9, <1>19, <2>1 DEF ReadTable, Goto, Counting, source, outputs
<1>20. ASSUME NEW r \in Runner, NotFollowing(r) PROVE LogInv'
  <2>1. /\ at' = [at EXCEPT ![r] = "trimming"] /\ at[r] # "idle"
        /\ events' = events /\ log' = log /\ logSaved' = logSaved /\ trimmed' = trimmed
        /\ applied' = applied /\ table' = table
    BY <1>20, LiveAssumption DEF NotFollowing, Goto, source, outputs
  <2>2. "trimming" \notin Counting
    BY DEF Counting
  <2> QED BY <1>9, <2>1, <2>2
<1>21. ASSUME NEW r \in Runner, Fail(r) PROVE LogInv'
  <2>1. /\ at' = [at EXCEPT ![r] = "releasing"] /\ at[r] # "idle"
        /\ events' = events /\ log' = log /\ logSaved' = logSaved /\ trimmed' = trimmed
        /\ applied' = applied /\ table' = table
    BY <1>21, LiveAssumption DEF Fail, Goto, source, outputs
  <2>2. "releasing" \notin Counting
    BY DEF Counting
  <2> QED BY <1>9, <2>1, <2>2
<1>22. ASSUME NEW r \in Runner, ApplyTable(r) PROVE LogInv'
  BY <1>9, <1>22 DEF ApplyTable, Goto, Counting, source
<1>23. ASSUME NEW r \in Runner, BeginCopy(r) PROVE LogInv'
  <2>1. hand'[r].upto = Len(events) /\ events' = events
    BY <1>1, <1>23 DEF BeginCopy, Hand, source
  <2>2. at'[r] = "copying"
    BY <1>1, <1>23, LogOfOne DEF BeginCopy, Goto
  <2>3. LogOf(r)'
    BY <2>1, <2>2 DEF LogOf
  <2>4. \A q \in Runner : LogOf(q)'
    BY <1>1, <1>23, <2>3, LogOfOne DEF BeginCopy, Goto
  <2> QED BY <1>23, <2>4, LogStays DEF BeginCopy, source
<1>24. ASSUME NEW r \in Runner, LinkCopy(r) PROVE LogInv'
  <2>1. \A q \in Runner : LogOf(q)'
    <3>1. LogOf(r)'
      BY <1>10, <1>24 DEF LogOf, Counting
    <3> QED BY <1>1, <1>24, <3>1, LogOfOne DEF LinkCopy, Goto
  <2>2. applied' = Len(events)
    BY <1>2, <1>24 DEF LinkCopy, LogOf, Counting
  <2>3. NothingNeededIsTrimmed'
    BY <1>1, <1>2, <1>24, <2>2 DEF LinkCopy, NothingNeededIsTrimmed, source
  <2>4. LogMissesNothing'
    BY <1>2, <1>24 DEF LinkCopy, LogMissesNothing, source
  <2> QED BY <2>1, <2>3, <2>4 DEF LogInv
<1>25. ASSUME NEW r \in Runner, Store(r) PROVE LogInv'
  <2>1. \A q \in Runner : LogOf(q)'
    <3>1. LogOf(r)'
      BY <1>10, <1>25 DEF LogOf, Counting
    <3> QED BY <1>1, <1>25, <3>1, LogOfOne DEF Store, Goto
  <2>2. \A i \in 1..Len(events) : events'[i] = events[i]
    BY <1>25, StoreKeepsOrder
  <2>3. LogMissesNothing'
    BY <1>1, <1>2, <1>25, <2>2 DEF Store, LogMissesNothing, outputs
  <2>4. NothingNeededIsTrimmed'
    BY <1>2, <1>25 DEF Store, NothingNeededIsTrimmed, outputs
  <2> QED BY <2>1, <2>3, <2>4 DEF LogInv
<1>26. ASSUME NEW r \in Runner, Trim(r) PROVE LogInv'
  <2>1. \A q \in Runner : LogOf(q)'
    <3>1. LogOf(r)'
      BY <1>10, <1>26 DEF LogOf, Counting
    <3> QED BY <1>1, <1>26, <3>1, LogOfOne DEF Trim, Goto
  <2>2. NothingNeededIsTrimmed'
    BY <1>1, <1>26 DEF Trim, Trimmable, NothingNeededIsTrimmed, outputs
  <2>3. LogMissesNothing'
    BY <1>2, <1>26 DEF Trim, LogMissesNothing, outputs
  <2> QED BY <2>1, <2>2, <2>3 DEF LogInv
<1>27. ASSUME NEW r \in Runner, SaveStart(r) PROVE LogInv'
  <2>1. at[r] = "stored"
    BY <1>27, LiveAssumption DEF SaveStart
  <2>2. hand'[r] = [upto |-> Len(events), from |-> logSaved, log |-> log, rows |-> Empty]
    BY <1>1, <1>27 DEF SaveStart
  <2>3. at'[r] = "logging"
    BY <1>1, <1>27, <2>1, LogOfOne DEF SaveStart, Goto
  <2>4. LogOf(r)'
    BY <1>27, <2>2, <2>3 DEF LogOf, SaveStart, source, outputs
  <2>5. \A q \in Runner : LogOf(q)'
    BY <1>1, <1>27, <2>1, <2>4, LogOfOne DEF SaveStart, Goto
  <2> QED BY <1>27, <2>5, LogStays DEF SaveStart, source, outputs
<1>28. ASSUME NEW r \in Runner, PublishLog(r) PROVE LogInv'
  <2> DEFINE new == SubSeq(events, logSaved + 1, Len(events))
  <2>1. /\ hand[r].log = log /\ hand[r].from = logSaved /\ hand[r].upto = Len(events)
        /\ hand'[r].upto = Len(events) /\ at'[r] = "logged" /\ events' = events
        /\ logSaved' = logSaved /\ logSaved \in Nat
    BY <1>1, <1>2, <1>28 DEF PublishLog, LogOf, Counting, Goto, source
  <2>2. log' = log \o new
    BY <1>28, <2>1 DEF PublishLog
  <2>3. /\ new \in Seq(1..Len(changes)) /\ Len(new) \in Nat
        /\ \A i \in 1..(Len(events) - logSaved) : i \in DOMAIN new /\ new[i] = events[logSaved + i]
    <3>1. /\ Len(events) <= Len(events) /\ Len(events) \in Nat /\ logSaved \in Nat
          /\ events \in Seq(1..Len(changes))
      BY <1>1
    <3>2. /\ new \in Seq(1..Len(changes))
          /\ Len(new) = IF logSaved < Len(events) THEN Len(events) - logSaved ELSE 0
          /\ \A i \in 1..(Len(events) - logSaved) : new[i] = events[logSaved + i]
      BY ONLY <3>1, SubSeqTyped
    <3> HIDE DEF new
    <3>3. DOMAIN new = 1..Len(new)
      BY <3>2
    <3> QED BY <2>1, <3>1, <3>2, <3>3
  <2>4. ASSUME NEW i \in 1..Len(events) PROVE events[i] \in ToSet(log')
    <3>1. CASE i \in 1..logSaved
      <4>1. events[i] \in ToSet(log)
        BY <1>2, <3>1 DEF LogMissesNothing
      <4> QED BY <1>1, <2>2, <2>3, <4>1, InConcat
    <3>2. CASE i \notin 1..logSaved
      <4>1. i - logSaved \in 1..(Len(events) - logSaved) /\ logSaved + (i - logSaved) = i
        BY <1>1, <2>1, <3>2
      <4>2. events[i] \in ToSet(new)
        BY <2>3, <4>1 DEF ToSet
      <4> HIDE DEF new
      <4> QED BY <1>1, <2>2, <2>3, <4>2, InConcat
    <3> QED BY <3>1, <3>2
  <2>5. LogOf(r)'
    BY <2>1, <2>4 DEF LogOf
  <2>6. \A q \in Runner : LogOf(q)'
    BY <1>1, <1>28, <2>5, LogOfOne DEF PublishLog, Goto
  <2>7. LogMissesNothing'
    BY <1>1, <2>1, <2>4 DEF LogMissesNothing
  <2>8. NothingNeededIsTrimmed'
    BY <1>2, <1>28 DEF PublishLog, NothingNeededIsTrimmed, source
  <2> QED BY <2>6, <2>7, <2>8 DEF LogInv
<1>29. ASSUME NEW r \in Runner, MarkLog(r) PROVE LogInv'
  <2>1. /\ hand[r].upto = Len(events) /\ hand' = hand /\ at'[r] = "tabling" /\ events' = events
        /\ log' = log /\ logSaved' = Len(events) /\ table' = table /\ applied' = applied
        /\ trimmed' = trimmed
    BY <1>1, <1>2, <1>29 DEF MarkLog, LogOf, Counting, Goto, source
  <2>2. \A q \in Runner : LogOf(q)'
    <3>1. LogOf(r)'
      BY <2>1 DEF LogOf
    <3> QED BY <1>1, <1>29, <3>1, LogOfOne DEF MarkLog, Goto
  <2>3. LogMissesNothing'
    BY <1>2, <1>29, <2>1 DEF MarkLog, LogOf, LogMissesNothing
  <2>4. NothingNeededIsTrimmed'
    BY <1>1, <1>2, <2>1 DEF NothingNeededIsTrimmed
  <2> QED BY <2>2, <2>3, <2>4 DEF LogInv
<1>30. ASSUME NEW r \in Runner, MarkTable(r) PROVE LogInv'
  <2>1. /\ hand[r].upto = Len(events) /\ at'[r] = "trimming" /\ events' = events
        /\ log' = log /\ logSaved' = logSaved /\ table' = table /\ applied' = Len(events)
        /\ trimmed' = trimmed
    BY <1>1, <1>2, <1>30, LiveAssumption DEF MarkTable, LogOf, Counting, Goto, source
  <2>2. \A q \in Runner : LogOf(q)'
    <3>1. LogOf(r)'
      BY <2>1 DEF LogOf, Counting
    <3>2. at[r] # "idle"
      BY <1>30 DEF MarkTable
    <3> QED BY <1>1, <1>30, <3>1, <3>2, LogOfOne DEF MarkTable, Goto
  <2>3. LogMissesNothing'
    BY <1>2, <2>1 DEF LogMissesNothing
  <2>4. NothingNeededIsTrimmed'
    BY <1>1, <1>2, <2>1 DEF NothingNeededIsTrimmed
  <2> QED BY <2>2, <2>3, <2>4 DEF LogInv
<1> QED
  BY <1>1, <1>4, <1>5, <1>6, <1>7, <1>8, <1>11, <1>12, <1>13, <1>14, <1>15, <1>16, <1>17,
     <1>18, <1>19, <1>20, <1>21, <1>22, <1>23, <1>24, <1>25, <1>26, <1>27, <1>28, <1>29, <1>30
  DEF Next, PassStep, SaveStep

\* The change log is whole: every event that counts as saved is in the log
\* dataset, whatever a save was interrupted by (publish and mark are two
\* commits), none is stored twice (store_messages), and none is deleted that
\* the log or the table still has to take in (trim), as long as a pass ends
\* within its lease and nobody saves beside it.
THEOREM LogIsWhole ==
    ASSUME SlowPass = FALSE, Person = {}
    PROVE  Spec => []LogSafety
<1>1. TypeInv /\ EventInv /\ LogInv => TypeOK /\ LogMissesNothing /\ NothingNeededIsTrimmed
  BY DEF TypeInv, LogInv
<1>2. Init => TypeInv /\ EventInv /\ LogInv
  BY TypeInit, EventInit, LogInit
<1>3. TypeInv /\ EventInv /\ LogInv /\ [Next]_vars => (TypeInv /\ EventInv /\ LogInv)'
  BY TypeStep, EventStep, LogStep
<1>4. Spec => [](TypeOK /\ LogMissesNothing /\ NothingNeededIsTrimmed)
  BY <1>1, <1>2, <1>3, PTL DEF Spec
<1>5. Spec => []StoredOnce
  BY ChangesAreStoredOnce
<1>6. TypeOK /\ LogMissesNothing /\ NothingNeededIsTrimmed /\ StoredOnce => LogSafety
  BY DEF LogSafety
<1> QED BY <1>4, <1>5, <1>6, PTL

(***************************************************************************)
(* The mirror is right.                                                    *)
(*                                                                         *)
(* Each row of the table dataset is what the table outside showed at some  *)
(* moment since the position was taken, and no earlier than any change     *)
(* that has been applied.  The moments differ from key to key: the copy    *)
(* shows changes that only come to be applied later.                       *)
(***************************************************************************)

\* The row of a key after the first n changes.
Shows(v, k, n) ==
    \/ v = 0 /\ \A c \in 1..n : changes[c].key # k
    \/ \E c \in 1..n :
         /\ changes[c].key = k
         /\ \A d \in (c + 1)..n : changes[d].key # k
         /\ v = IF changes[c].gone THEN 0 ELSE c

\* A copy with the events up to a seq applied.
MirrorsRow(v, k, upto) ==
    \E n \in start..Len(changes) :
        /\ Shows(v, k, n)
        /\ \A i \in 1..upto : changes[events[i]].key = k => events[i] <= n

Mirrors(copy, upto) == \A k \in Key : MirrorsRow(copy[k], k, upto)

MirrorOf(r) ==
    /\ at[r] \in {"copying", "copied", "linking"} => cursor /\ table = "snapshot"
    /\ at[r] = "copied" => Mirrors(hand[r].rows, hand[r].upto)
    /\ at[r] = "linking" => Mirrors(rows, hand[r].upto)
    /\ table = "following" /\ at[r] = "applying" =>
         hand[r].from = applied /\ Mirrors(hand[r].rows, applied)
    /\ table = "following" /\ at[r] = "tabled" => Mirrors(rows, hand[r].upto)

MirrorInv ==
    /\ table = "following" =>
         /\ cursor
         /\ Mirrors(rows, applied)
         /\ \A i \in (applied + 1)..Len(events) : start < events[i]
    /\ \A r \in Runner : MirrorOf(r)

LEMMA MirrorInit == Init => MirrorInv
BY DEF Init, MirrorInv, MirrorOf, Actor

\* What a copy shows stays so when the table goes on changing.
LEMMA MirrorsGrow ==
    ASSUME TypeInv, NEW k \in Key, NEW gone \in BOOLEAN, Change(k, gone),
           NEW copy, NEW upto \in 0..Len(events), Mirrors(copy, upto)
    PROVE  Mirrors(copy, upto)'
<1>1. /\ Len(changes) \in Nat /\ start \in Nat /\ start' = start /\ events' = events
      /\ Len(changes') = Len(changes) + 1 /\ \A c \in 1..Len(changes) : changes'[c] = changes[c]
      /\ \A i \in 1..upto : events[i] \in 1..Len(changes)
  <2>1. /\ changes \in Seq([key : Key, gone : BOOLEAN]) /\ Len(changes) \in Nat /\ start \in Nat
        /\ events \in Seq(1..Len(changes)) /\ Len(events) \in Nat
    BY DEF TypeInv, TypeOK
  <2>2. /\ changes' = Append(changes, [key |-> k, gone |-> gone]) /\ start' = start
        /\ events' = events
    BY DEF Change, source
  <2> QED BY <2>1, <2>2
<1>2. ASSUME NEW q \in Key PROVE MirrorsRow(copy[q], q, upto)'
  <2>1. PICK n \in start..Len(changes) :
          /\ Shows(copy[q], q, n)
          /\ \A i \in 1..upto : changes[events[i]].key = q => events[i] <= n
    BY DEF Mirrors, MirrorsRow
  <2>2. \A c \in 1..n : changes'[c] = changes[c]
    BY <1>1
  <2>3. \A c \in 1..n : \A d \in (c + 1)..n : d \in 1..n
    BY <1>1
  <2>4. Shows(copy[q], q, n)'
    BY <2>1, <2>2, <2>3 DEF Shows
  <2>5. n \in start'..Len(changes')
    BY <1>1
  <2>6. \A i \in 1..upto : changes'[events'[i]].key = q => events'[i] <= n
    BY <1>1, <2>1
  <2> QED BY <2>4, <2>5, <2>6 DEF MirrorsRow
<1> QED BY <1>2 DEF Mirrors

\* Nor does it matter to it what is stored later.
LEMMA MirrorsStay ==
    ASSUME NEW copy, NEW upto, changes' = changes, start' = start,
           \A i \in 1..upto : events'[i] = events[i], Mirrors(copy, upto)
    PROVE  Mirrors(copy, upto)'
BY DEF Mirrors, MirrorsRow, Shows

\* Fewer events ask less of a copy.
LEMMA MirrorsFewer ==
    ASSUME NEW copy, NEW upto \in Nat, NEW less \in 0..upto, Mirrors(copy, upto)
    PROVE  Mirrors(copy, less)
<1>1. 1..less \subseteq 1..upto
  OBVIOUS
<1> QED BY <1>1 DEF Mirrors, MirrorsRow

\* The last change of a key decides its row outside.
LEMMA TableNowIs ==
    ASSUME TypeInv, NEW k \in Key
    PROVE  \/ /\ \A i \in 1..Len(changes) : changes[i].key # k
              /\ TableNow[k] = 0
           \/ \E i \in 1..Len(changes) :
                /\ changes[i].key = k
                /\ \A j \in 1..Len(changes) : changes[j].key = k => j <= i
                /\ TableNow[k] = IF changes[i].gone THEN 0 ELSE i
<1> DEFINE n == Len(changes)
           all == [i \in 1..n |-> i]
<1>1. n \in Nat
  BY DEF TypeInv, TypeOK
<1>2. /\ all \in Seq(1..n) /\ DOMAIN all = 1..n /\ \A i \in 1..n : all[i] = i
      /\ TableNow = After(Empty, all)
  BY <1>1 DEF TableNow
<1>3. Empty[k] = 0
  BY DEF Empty
<1> HIDE DEF all, n
<1>4. \/ /\ \A i \in DOMAIN all : changes[all[i]].key # k
         /\ After(Empty, all)[k] = Empty[k]
      \/ \E i \in DOMAIN all :
           /\ changes[all[i]].key = k
           /\ \A j \in DOMAIN all : changes[all[j]].key = k => j <= i
           /\ After(Empty, all)[k] = IF changes[all[i]].gone THEN 0 ELSE all[i]
  BY <1>1, <1>2, AfterIs
<1>5. \/ /\ \A i \in 1..n : changes[i].key # k
         /\ TableNow[k] = 0
      \/ \E i \in 1..n :
           /\ changes[i].key = k
           /\ \A j \in 1..n : changes[j].key = k => j <= i
           /\ TableNow[k] = IF changes[i].gone THEN 0 ELSE i
  BY SMTT(30), <1>2, <1>3, <1>4
<1> QED BY <1>5 DEF n

\* A copy taken now.
LEMMA CopyMirrors ==
    ASSUME TypeInv, NEW upto \in 0..Len(events)
    PROVE  Mirrors(TableNow, upto)
<1> DEFINE n == Len(changes)
<1>1. /\ n \in Nat /\ start \in 0..n /\ events \in Seq(1..n) /\ Len(events) \in Nat
  BY DEF TypeInv, TypeOK
<1>2. n \in start..n /\ \A i \in 1..upto : events[i] <= n
  <2>1. \A i \in 1..upto : i \in 1..Len(events)
    BY <1>1
  <2>2. \A i \in 1..Len(events) : events[i] \in 1..n
    BY <1>1
  <2> QED BY <1>1, <2>1, <2>2
<1>3. ASSUME NEW k \in Key PROVE Shows(TableNow[k], k, n)
  <2>1. CASE (\A i \in 1..n : changes[i].key # k) /\ TableNow[k] = 0
    BY <2>1 DEF Shows
  <2>2. ASSUME NEW i \in 1..n, changes[i].key = k,
               \A j \in 1..n : changes[j].key = k => j <= i,
               TableNow[k] = IF changes[i].gone THEN 0 ELSE i
        PROVE  Shows(TableNow[k], k, n)
    <3>1. \A d \in (i + 1)..n : changes[d].key # k
      BY <1>1, <2>2
    <3> QED BY <2>2, <3>1 DEF Shows
  <2> QED BY <2>1, <2>2, TableNowIs
<1> QED BY <1>2, <1>3 DEF Mirrors, MirrorsRow

\* A copy with the events after a seq applied to it.
LEMMA ApplyMirrors ==
    ASSUME TypeInv, EventInv, NEW copy, NEW from \in 0..Len(events), Mirrors(copy, from),
           from < Len(events), \A i \in (from + 1)..Len(events) : start < events[i]
    PROVE  Mirrors(After(copy, SubSeq(events, from + 1, Len(events))), Len(events))
<1> DEFINE n == Len(changes)
           m == Len(events)
           new == SubSeq(events, from + 1, m)
<1>1. /\ n \in Nat /\ m \in Nat /\ from \in Nat /\ from < m /\ m <= m /\ start \in 0..n
      /\ events \in Seq(1..n) /\ DOMAIN events = 1..m
      /\ \A i \in 1..m : events[i] \in 1..n
  <2>1. /\ changes \in Seq([key : Key, gone : BOOLEAN]) /\ slot \in 0..n /\ start \in 0..slot
        /\ events \in Seq(1..n)
    BY DEF TypeInv, TypeOK
  <2>2. n \in Nat /\ m \in Nat /\ DOMAIN events = 1..m
    BY <2>1
  <2>3. start \in 0..n
    <3> HIDE DEF n
    <3> QED BY <2>1, <2>2
  <2> QED BY <2>1, <2>2, <2>3
<1>2. /\ new \in Seq(1..n) /\ Len(new) = m - from
      /\ \A i \in 1..(m - from) : new[i] = events[from + i]
  <2>1. /\ events \in Seq(1..n) /\ from \in Nat /\ m \in Nat /\ m <= Len(events) /\ from < m
    BY <1>1
  <2> QED BY ONLY <2>1, SubSeqTyped
<1>3. \A i, j \in 1..m : i <= j => events[i] <= events[j]
  <2>1. \A i, j \in 1..m : i < j => events[i] < events[j]
    BY <1>1 DEF EventInv, Increasing
  <2>2. \A i, j \in 1..m : i <= j => i = j \/ i < j
    BY <1>1
  <2>3. \A i \in 1..m : events[i] \in Nat
    BY <1>1
  <2> HIDE DEF m
  <2> QED BY <2>1, <2>2, <2>3
<1> HIDE DEF new
<1>4. DOMAIN new = 1..(m - from)
  BY <1>2
<1>5. ASSUME NEW k \in Key PROVE MirrorsRow(After(copy, new)[k], k, m)
  <2>1. PICK c \in start..n :
          /\ Shows(copy[k], k, c)
          /\ \A i \in 1..from : changes[events[i]].key = k => events[i] <= c
    BY DEF Mirrors, MirrorsRow
  <2>2. \/ /\ \A i \in DOMAIN new : changes[new[i]].key # k
           /\ After(copy, new)[k] = copy[k]
        \/ \E i \in DOMAIN new :
             /\ changes[new[i]].key = k
             /\ \A j \in DOMAIN new : changes[new[j]].key = k => j <= i
             /\ After(copy, new)[k] = IF changes[new[i]].gone THEN 0 ELSE new[i]
    <3>1. n \in Nat /\ new \in Seq(1..n) /\ k \in Key
      BY <1>1, <1>2
    <3> HIDE DEF n
    <3> QED BY ONLY <3>1, AfterIs
  <2>3. \A i \in 1..m : i \in 1..from \/ (i - from \in 1..(m - from) /\ new[i - from] = events[i])
    <3>1. \A i \in 1..m : i \in 1..from \/ (i - from \in 1..(m - from) /\ from + (i - from) = i)
      BY <1>1
    <3> QED BY <1>2, <3>1
  <2>4. CASE (\A i \in DOMAIN new : changes[new[i]].key # k) /\ After(copy, new)[k] = copy[k]
    <3>1. \A i \in 1..m : changes[events[i]].key = k => events[i] <= c
      BY <1>4, <2>1, <2>3, <2>4
    <3> QED BY <2>1, <2>4, <3>1 DEF MirrorsRow
  <2>5. ASSUME NEW i \in DOMAIN new, changes[new[i]].key = k,
               \A j \in DOMAIN new : changes[new[j]].key = k => j <= i,
               After(copy, new)[k] = IF changes[new[i]].gone THEN 0 ELSE new[i]
        PROVE  MirrorsRow(After(copy, new)[k], k, m)
    <3> DEFINE d == events[from + i]
    <3>1. i \in 1..(m - from) /\ from + i \in 1..m /\ from + i \in (from + 1)..m /\ new[i] = d
      <4>1. i \in 1..(m - from)
        BY <1>4
      <4>2. from \in Nat /\ m \in Nat
        BY <1>1
      <4>3. from + i \in 1..m /\ from + i \in (from + 1)..m
        <5> HIDE DEF m
        <5> QED BY ONLY <4>1, <4>2
      <4> QED BY <1>2, <4>1, <4>3
    <3>2. d \in 1..n /\ d \in start..n
      <4>1. d \in 1..n
        BY <1>1, <3>1
      <4>2. start < d
        BY <3>1
      <4> QED BY <1>1, <4>1, <4>2
    <3>3. Shows(After(copy, new)[k], k, d)
      <4>1. changes[d].key = k /\ After(copy, new)[k] = IF changes[d].gone THEN 0 ELSE d
        BY <2>5, <3>1
      <4>2. d \in 1..d /\ (d + 1)..d = {}
        BY <3>2
      <4> HIDE DEF d
      <4> QED BY <4>1, <4>2 DEF Shows
    <3>4. ASSUME NEW j \in 1..m, changes[events[j]].key = k PROVE events[j] <= d
      <4>1. j <= from + i
        <5>1. CASE j \in 1..from
          BY <1>1, <3>1, <5>1
        <5>2. CASE j - from \in 1..(m - from) /\ new[j - from] = events[j]
          <6>1. j - from <= i
            BY <1>4, <2>5, <3>4, <5>2
          <6> QED BY <1>1, <3>1, <6>1
        <5> QED BY <2>3, <5>1, <5>2
      <4> QED BY <1>3, <3>1, <4>1
    <3> HIDE DEF d
    <3> QED BY <3>2, <3>3, <3>4 DEF MirrorsRow
  <2> QED BY <2>2, <2>4, <2>5
<1> QED BY <1>5 DEF Mirrors, new

\* A table that has caught up.
LEMMA CaughtUpIsRight ==
    ASSUME TypeInv, MirrorInv
    PROVE  MirrorIsRight
<1> SUFFICES ASSUME CaughtUp PROVE rows = TableNow
  BY DEF MirrorIsRight
<1> DEFINE n == Len(changes)
<1>1. /\ n \in Nat /\ start \in 0..n /\ events \in Seq(1..n) /\ Len(events) \in Nat
      /\ rows \in [Key -> 0..n] /\ TableNow \in [Key -> 0..n]
  BY TableNowTyped DEF TypeInv, TypeOK
<1>2. /\ Mirrors(rows, Len(events)) /\ \A d \in (start + 1)..n : \E i \in 1..Len(events) : events[i] = d
  <2>1. DOMAIN events = 1..Len(events)
    BY <1>1
  <2> QED BY <2>1 DEF CaughtUp, MirrorInv, ToSet
<1>4. ASSUME NEW k \in Key PROVE rows[k] = TableNow[k]
  <2>1. PICK c \in start..n :
          /\ Shows(rows[k], k, c)
          /\ \A i \in 1..Len(events) : changes[events[i]].key = k => events[i] <= c
    BY <1>2 DEF Mirrors, MirrorsRow
  <2>2. \A d \in 1..n : changes[d].key = k => d <= c
    <3> SUFFICES ASSUME NEW d \in 1..n, changes[d].key = k PROVE d <= c
      OBVIOUS
    <3>1. CASE d \in (start + 1)..n
      BY <1>2, <2>1, <3>1
    <3>2. CASE d \notin (start + 1)..n
      BY <1>1, <3>2
    <3> QED BY <3>1, <3>2
  <2>4. CASE (\A i \in 1..n : changes[i].key # k) /\ TableNow[k] = 0
    <3>1. 1..c \subseteq 1..n
      BY <1>1
    <3>2. rows[k] = 0
      BY <2>1, <2>4, <3>1 DEF Shows
    <3> QED BY <2>4, <3>2
  <2>5. ASSUME NEW i \in 1..n, changes[i].key = k,
               \A j \in 1..n : changes[j].key = k => j <= i,
               TableNow[k] = IF changes[i].gone THEN 0 ELSE i
        PROVE  rows[k] = TableNow[k]
    <3>3. i \in 1..c /\ 1..c \subseteq 1..n /\ \A d \in 1..c : d < i => i \in (d + 1)..c
      BY <1>1, <2>2, <2>5
    <3>4. PICK d \in 1..c :
            /\ changes[d].key = k
            /\ \A e \in (d + 1)..c : changes[e].key # k
            /\ rows[k] = IF changes[d].gone THEN 0 ELSE d
      BY <2>1, <2>5, <3>3 DEF Shows
    <3>5. d = i
      <4>3. c \in Nat /\ i \in Nat /\ d \in Nat /\ d \in 1..n
        BY <1>1, <3>3
      <4>1. ~ (d < i)
        <5> HIDE DEF n
        <5> QED BY <2>5, <3>3, <3>4
      <4>2. d <= i
        BY <2>5, <3>4, <4>3
      <4> QED BY <4>1, <4>2, <4>3
    <3> QED BY <2>5, <3>4, <3>5
  <2> QED BY <2>4, <2>5, TableNowIs
<1> QED BY <1>1, <1>4

\* Steps that leave the table dataset and what is applied to it alone.
LEMMA MirrorStays ==
    ASSUME MirrorInv, changes' = changes, start' = start, events' = events, rows' = rows,
           applied' = applied, table' # "following" \/ (table' = table /\ cursor' = cursor),
           \A r \in Runner : MirrorOf(r)'
    PROVE  MirrorInv'
<1>1. CASE table' # "following"
  BY <1>1 DEF MirrorInv
<1>2. CASE table' = "following"
  <2>1. table = "following" /\ table' = table /\ cursor' = cursor
    BY <1>2
  <2>2. Mirrors(rows, applied) /\ cursor /\ \A i \in (applied + 1)..Len(events) : start < events[i]
    BY <2>1 DEF MirrorInv
  <2>3. Mirrors(rows, applied)'
    BY <2>2 DEF Mirrors, MirrorsRow, Shows
  <2> QED BY <2>1, <2>2, <2>3 DEF MirrorInv
<1> QED BY <1>1, <1>2

\* The steps of one runner.
LEMMA MirrorOfOne ==
    ASSUME TypeInv, HoldsTheLease, NEW r \in Runner, at[r] # "idle" \/ Claim(r), NEW point,
           at' = [at EXCEPT ![r] = point]
    PROVE  /\ at'[r] = point
           /\ MirrorOf(r)' => \A q \in Runner : MirrorOf(q)'
           /\ point \notin {"copying", "copied", "linking", "applying", "tabled"} =>
                \A q \in Runner : MirrorOf(q)'
<1>1. at'[r] = point /\ \A q \in Runner : q # r => at'[q] = at[q]
  BY OnlyOneGoes, RunnersAct
<1>2. \A q \in Runner : q # r => at'[q] = "idle"
  BY <1>1, OthersRest
<1>3. \A q \in Runner : q # r => MirrorOf(q)'
  BY <1>2 DEF MirrorOf
<1>4. point \notin {"copying", "copied", "linking", "applying", "tabled"} => MirrorOf(r)'
  BY <1>1 DEF MirrorOf
<1> QED BY <1>1, <1>3, <1>4

LEMMA MirrorStep ==
    ASSUME TypeInv, EventInv, LogInv, MirrorInv, SlowPass = FALSE, Person = {}, [Next]_vars
    PROVE  MirrorInv'
<1>1. /\ TypeOK /\ at \in [Actor -> Points] /\ HoldsTheLease /\ Len(events) \in Nat
      /\ hand \in [Actor -> Hand] /\ Actor = Runner /\ Len(changes) \in Nat
      /\ applied \in 0..Len(events) /\ start \in 0..slot /\ slot \in Nat
      /\ events \in Seq(1..Len(changes))
  BY DEF TypeInv, TypeOK, HandsTyped, Actor, EventInv
<1>2. \A r \in Runner : MirrorOf(r) /\ LogOf(r)
  BY DEF MirrorInv, LogInv
<1>3. ASSUME at' = at, hand' = hand, changes' = changes, start' = start, events' = events,
             rows' = rows, applied' = applied, table' = table, cursor' = cursor
      PROVE  MirrorInv'
  <2>1. \A r \in Runner : MirrorOf(r)'
    BY <1>2, <1>3 DEF MirrorOf, Mirrors, MirrorsRow, Shows
  <2> QED BY <1>3, <2>1, MirrorStays
<1>4. CASE UNCHANGED vars
  BY <1>3, <1>4 DEF vars, external, source, outputs
<1>5. ASSUME NEW k \in Key, NEW gone \in BOOLEAN, Change(k, gone) PROVE MirrorInv'
  <2>1. /\ at' = at /\ hand' = hand /\ start' = start /\ events' = events /\ rows' = rows
        /\ applied' = applied /\ table' = table /\ cursor' = cursor
    BY <1>5 DEF Change, source, outputs
  <2>2. ASSUME NEW r \in Runner PROVE MirrorOf(r)'
    <3>1. PICK copy, mine, upto, mark :
            copy = hand[r].rows /\ mine = rows /\ upto = hand[r].upto /\ mark = applied
      OBVIOUS
    <3>2. mark \in 0..Len(events) /\ (at[r] \in Counting => upto \in 0..Len(events))
      BY <1>1, <1>2, <3>1 DEF LogOf
    <3>3. /\ at[r] = "copied" => Mirrors(copy, upto)
          /\ at[r] = "linking" => Mirrors(mine, upto)
          /\ table = "following" /\ at[r] = "tabled" => Mirrors(mine, upto)
          /\ table = "following" /\ at[r] = "applying" => Mirrors(copy, mark)
      BY <1>2, <3>1 DEF MirrorOf
    <3>4. /\ at[r] = "copied" => Mirrors(copy, upto)'
          /\ at[r] = "linking" => Mirrors(mine, upto)'
          /\ table = "following" /\ at[r] = "tabled" => Mirrors(mine, upto)'
          /\ table = "following" /\ at[r] = "applying" => Mirrors(copy, mark)'
      BY <1>5, <3>2, <3>3, MirrorsGrow DEF Counting
    <3>5. hand'[r].rows = copy /\ rows' = mine /\ hand'[r].upto = upto /\ applied' = mark
      BY <2>1, <3>1
    <3>6. /\ at[r] = "copied" => Mirrors(hand[r].rows, hand[r].upto)'
          /\ at[r] = "linking" => Mirrors(rows, hand[r].upto)'
          /\ table = "following" /\ at[r] = "tabled" => Mirrors(rows, hand[r].upto)'
          /\ table = "following" /\ at[r] = "applying" => Mirrors(hand[r].rows, applied)'
      BY <3>4, <3>5 DEF Mirrors, MirrorsRow, Shows
    <3> QED BY <1>2, <2>1, <3>6 DEF MirrorOf
  <2>3. table = "following" => Mirrors(rows, applied)'
    <3>1. PICK mine, mark : mine = rows /\ mark = applied
      OBVIOUS
    <3>2. table = "following" => Mirrors(mine, mark)'
      BY <1>1, <1>5, <3>1, MirrorsGrow DEF MirrorInv
    <3> QED BY SMTT(30), <2>1, <3>1, <3>2 DEF Mirrors, MirrorsRow, Shows
  <2> QED BY <2>1, <2>2, <2>3 DEF MirrorInv
<1>6. CASE LeaseRunsOut
  BY <1>3, <1>6 DEF LeaseRunsOut, external, source, outputs
<1>7. CASE StartAgain
  <2>1. \A r \in Runner : at[r] \notin {"copying", "copied", "linking"}
    BY <1>1, <1>7 DEF StartAgain, Saving
  <2>2. /\ at' = at /\ table' = "waiting" /\ changes' = changes /\ start' = start
        /\ events' = events /\ rows' = rows /\ applied' = applied
    BY <1>7 DEF StartAgain, external
  <2>3. \A r \in Runner : MirrorOf(r)'
    BY <2>1, <2>2 DEF MirrorOf
  <2> QED BY <2>2, <2>3, MirrorStays
<1>8. ASSUME NEW r \in Runner, TakePosition(r) PROVE MirrorInv'
  <2>1. /\ at' = at /\ table' = table /\ at[r] = "claimed" /\ ~ cursor
    BY <1>8 DEF TakePosition, outputs
  <2>2. table # "following"
    BY <2>1 DEF MirrorInv
  <2>3. \A q \in Runner : q # r => at[q] = "idle"
    BY <1>1, <2>1, OthersRest
  <2>4. \A q \in Runner : MirrorOf(q)'
    BY <2>1, <2>3 DEF MirrorOf
  <2> QED BY <2>1, <2>2, <2>4 DEF MirrorInv
<1>9. ASSUME NEW r \in Runner, NEW point, at' = [at EXCEPT ![r] = point],
             at[r] # "idle" \/ Claim(r),
             point \notin {"copying", "copied", "linking", "applying", "tabled"},
             changes' = changes, start' = start, events' = events, rows' = rows,
             applied' = applied, table' # "following" \/ (table' = table /\ cursor' = cursor)
      PROVE  MirrorInv'
  <2>1. \A q \in Runner : MirrorOf(q)'
    BY <1>1, <1>9, MirrorOfOne
  <2> QED BY <1>9, <2>1, MirrorStays
<1>10. ASSUME NEW r \in Runner, Claim(r) PROVE MirrorInv'
  BY <1>9, <1>10 DEF Claim, Goto, external, source, outputs
<1>11. ASSUME NEW r \in Runner, CopyFails(r) PROVE MirrorInv'
  BY <1>9, <1>11 DEF CopyFails, Goto, external, source
<1>12. ASSUME NEW r \in Runner, Read(r) PROVE MirrorInv'
  BY <1>9, <1>12 DEF Read, Goto, external, source, outputs
<1>13. ASSUME NEW r \in Runner, Acknowledge(r) PROVE MirrorInv'
  BY <1>9, <1>13 DEF Acknowledge, Goto, source, outputs
<1>14. ASSUME NEW r \in Runner, AcknowledgeFails(r) PROVE MirrorInv'
  BY <1>9, <1>14 DEF AcknowledgeFails, Goto, external, source, outputs
<1>15. ASSUME NEW r \in Runner, NotDue(r) PROVE MirrorInv'
  BY <1>9, <1>15 DEF NotDue, Goto, external, source, outputs
<1>16. ASSUME NEW r \in Runner, Release(r) PROVE MirrorInv'
  BY <1>9, <1>16 DEF Release, Goto, external, source, outputs
<1>17. ASSUME NEW r \in Runner, Die(r) PROVE MirrorInv'
  BY <1>9, <1>17 DEF Die, Goto, external, source, outputs
<1>18. ASSUME NEW r \in Runner, Trim(r) PROVE MirrorInv'
  BY <1>9, <1>18 DEF Trim, Goto, external, outputs
<1>19. ASSUME NEW r \in Runner, Fail(r) PROVE MirrorInv'
  <2>1. at' = [at EXCEPT ![r] = "releasing"] /\ at[r] # "idle"
    BY <1>19, LiveAssumption DEF Fail, Goto
  <2> QED BY <1>9, <1>19, <2>1 DEF Fail, external, source, outputs
<1>20. ASSUME NEW r \in Runner, SaveStart(r) PROVE MirrorInv'
  <2>1. at' = [at EXCEPT ![r] = "logging"] /\ at[r] # "idle"
    BY <1>20, LiveAssumption DEF SaveStart, Goto
  <2> QED BY <1>9, <1>20, <2>1 DEF SaveStart, external, source, outputs
<1>21. ASSUME NEW r \in Runner, NotFollowing(r) PROVE MirrorInv'
  <2>1. at' = [at EXCEPT ![r] = "trimming"] /\ at[r] # "idle"
    BY <1>21, LiveAssumption DEF NotFollowing, Goto
  <2> QED BY <1>9, <1>21, <2>1 DEF NotFollowing, external, source, outputs
<1>22. ASSUME NEW r \in Runner, NoNewEvents(r) PROVE MirrorInv'
  BY <1>9, <1>22 DEF NoNewEvents, Goto, external, source, outputs
<1>23. ASSUME NEW r \in Runner, PublishLog(r) PROVE MirrorInv'
  BY <1>9, <1>23 DEF PublishLog, Goto, external, source
<1>24. ASSUME NEW r \in Runner, MarkLog(r) PROVE MirrorInv'
  BY <1>9, <1>24 DEF MarkLog, Goto, external, source
<1>25. ASSUME NEW r \in Runner, BeginCopy(r) PROVE MirrorInv'
  <2>1. /\ at' = [at EXCEPT ![r] = "copying"] /\ at[r] # "idle" /\ cursor' /\ table' = "snapshot"
        /\ changes' = changes /\ start' = start /\ events' = events /\ rows' = rows
        /\ applied' = applied
    BY <1>25 DEF BeginCopy, Goto, external, source
  <2>2. at'[r] = "copying"
    BY <1>1, <2>1, MirrorOfOne
  <2>3. MirrorOf(r)'
    BY <2>1, <2>2 DEF MirrorOf
  <2>4. \A q \in Runner : MirrorOf(q)'
    BY <1>1, <2>1, <2>3, MirrorOfOne
  <2> QED BY <2>1, <2>4, MirrorStays
<1>26. ASSUME NEW r \in Runner, Copy(r) PROVE MirrorInv'
  <2>1. /\ at' = [at EXCEPT ![r] = "copied"] /\ at[r] = "copying" /\ table' = table
        /\ cursor' = cursor /\ changes' = changes /\ start' = start /\ events' = events
        /\ rows' = rows /\ applied' = applied
    BY <1>26 DEF Copy, Goto, external, source, outputs
  <2>2. at'[r] = "copied" /\ cursor /\ table = "snapshot"
    BY <1>1, <1>2, <2>1, MirrorOfOne DEF MirrorOf
  <2>3. hand'[r].rows = TableNow /\ hand'[r].upto = Len(events)
    BY <1>1, <1>2, <1>26, <2>1 DEF Copy, Hand, LogOf, Counting
  <2>4. Mirrors(TableNow, Len(events))
    BY <1>1, CopyMirrors
  <2>5. Mirrors(hand'[r].rows, hand'[r].upto)
    BY <2>3, <2>4
  <2>6. Mirrors(hand[r].rows, hand[r].upto)'
    BY <2>1, <2>5 DEF Mirrors, MirrorsRow, Shows
  <2>7. MirrorOf(r)'
    BY <2>1, <2>2, <2>6 DEF MirrorOf
  <2>8. \A q \in Runner : MirrorOf(q)'
    BY <1>1, <2>1, <2>7, MirrorOfOne
  <2> QED BY <2>1, <2>8, MirrorStays
<1>27. ASSUME NEW r \in Runner, PublishCopy(r) PROVE MirrorInv'
  <2>1. /\ at' = [at EXCEPT ![r] = "linking"] /\ at[r] = "copied" /\ table' = table
        /\ cursor' = cursor /\ changes' = changes /\ start' = start /\ events' = events
        /\ rows' = hand[r].rows /\ hand' = hand
    BY <1>27 DEF PublishCopy, Goto, external, source
  <2>2. at'[r] = "linking" /\ cursor /\ table = "snapshot" /\ Mirrors(hand[r].rows, hand[r].upto)
    BY <1>1, <1>2, <2>1, MirrorOfOne DEF MirrorOf
  <2>3. Mirrors(rows, hand[r].upto)'
    BY <2>1, <2>2 DEF Mirrors, MirrorsRow, Shows
  <2>4. MirrorOf(r)'
    BY <2>1, <2>2, <2>3 DEF MirrorOf
  <2>5. \A q \in Runner : MirrorOf(q)'
    BY <1>1, <2>1, <2>4, MirrorOfOne
  <2> QED BY <2>1, <2>2, <2>5 DEF MirrorInv
<1>28. ASSUME NEW r \in Runner, LinkCopy(r) PROVE MirrorInv'
  <2>1. /\ at' = [at EXCEPT ![r] = "claimed"] /\ at[r] = "linking" /\ table' = "following"
        /\ cursor' = cursor /\ changes' = changes /\ start' = start /\ events' = events
        /\ rows' = rows /\ applied' = hand[r].upto
    BY <1>28 DEF LinkCopy, Goto, external, source
  <2>2. cursor /\ Mirrors(rows, hand[r].upto) /\ hand[r].upto = Len(events)
    BY <1>2, <2>1 DEF MirrorOf, LogOf, Counting
  <2>3. Mirrors(rows, applied)'
    BY <2>1, <2>2 DEF Mirrors, MirrorsRow, Shows
  <2>4. (applied' + 1)..Len(events') = {}
    BY <1>1, <2>1, <2>2
  <2>5. \A q \in Runner : MirrorOf(q)'
    BY <1>1, <2>1, MirrorOfOne
  <2> QED BY <2>1, <2>2, <2>3, <2>4, <2>5 DEF MirrorInv
<1>29. ASSUME NEW r \in Runner, Store(r) PROVE MirrorInv'
  <2>1. /\ at' = [at EXCEPT ![r] = "acknowledging"] /\ at[r] = "storing" /\ table' = table
        /\ cursor' = cursor /\ changes' = changes /\ start' = start /\ rows' = rows
        /\ applied' = applied /\ events' = events \o Fresh(hand[r].from, hand[r].upto)
    BY <1>29 DEF Store, Goto, external, outputs
  <2>2. \A i \in 1..Len(events) : events'[i] = events[i]
    BY <1>29, StoreKeepsOrder
  <2>3. table = "following" => Mirrors(rows, applied)'
    <3>1. \A i \in 1..applied : events'[i] = events[i]
      BY <1>1, <2>2
    <3>2. PICK mine, mark : mine = rows /\ mark = applied
      OBVIOUS
    <3>3. table = "following" => Mirrors(mine, mark)'
      BY <2>1, <3>1, <3>2, MirrorsStay DEF MirrorInv
    <3>4. rows' = mine /\ applied' = mark
      BY <2>1, <3>2
    <3> QED BY ONLY <3>3, <3>4 DEF Mirrors, MirrorsRow, Shows
  <2>4. ASSUME table = "following", NEW i \in (applied' + 1)..Len(events')
        PROVE  start < events'[i]
    <3>1. hand[r].from = slot /\ hand[r].upto \in 0..Len(changes)
      <4>1. hand[r].from = slot
        BY <2>1 DEF EventInv, ReadFromSlot
      <4>2. hand[r].upto \in 0..Len(changes)
        BY <1>1, <2>1, TypeFacts
      <4> QED BY <4>1, <4>2
    <3> DEFINE F == Fresh(slot, hand[r].upto)
    <3>2. F \in Seq(1..Len(changes)) /\ \A j \in DOMAIN F : F[j] \in (slot + 1)..hand[r].upto
      <4>1. slot \in Nat /\ Len(changes) \in Nat
        BY <1>1
      <4> QED BY <3>1, <4>1, FreshIs
    <3>3. events' = events \o F
      BY <2>1, <3>1
    <3> HIDE DEF F
    <3>4. /\ Len(F) \in Nat /\ DOMAIN F = 1..Len(F) /\ Len(events') = Len(events) + Len(F)
          /\ \A j \in 1..Len(F) : events'[Len(events) + j] = F[j]
      BY <1>1, <3>2, <3>3
    <3>5. CASE i \in 1..Len(events)
      <4>1. i \in (applied + 1)..Len(events)
        BY <1>1, <2>1, <2>4, <3>5
      <4> QED BY <2>2, <2>4, <3>5, <4>1 DEF MirrorInv
    <3>6. CASE i \notin 1..Len(events)
      <4>1. i - Len(events) \in 1..Len(F) /\ i = Len(events) + (i - Len(events))
        BY <1>1, <2>1, <2>4, <3>4, <3>6
      <4>2. events'[i] \in (slot + 1)..hand[r].upto
        BY <3>2, <3>4, <4>1
      <4> QED BY <1>1, <4>2
    <3> QED BY <3>5, <3>6
  <2>5. \A q \in Runner : MirrorOf(q)'
    BY <1>1, <2>1, MirrorOfOne
  <2> QED BY <2>1, <2>3, <2>4, <2>5 DEF MirrorInv
<1>30. ASSUME NEW r \in Runner, ReadTable(r) PROVE MirrorInv'
  <2>1. /\ at' = [at EXCEPT ![r] = "applying"] /\ at[r] = "tabling" /\ table' = table
        /\ cursor' = cursor /\ changes' = changes /\ start' = start /\ events' = events
        /\ rows' = rows /\ applied' = applied /\ table = "following"
    BY <1>30 DEF ReadTable, Goto, external, source, outputs
  <2>2. hand'[r].rows = rows /\ hand'[r].from = applied
    BY <1>1, <1>30 DEF ReadTable, Hand
  <2>3. Mirrors(hand'[r].rows, applied)
    BY <2>1, <2>2 DEF MirrorInv
  <2>4. Mirrors(hand[r].rows, applied)'
    BY <2>1, <2>3 DEF Mirrors, MirrorsRow, Shows
  <2>5. at'[r] = "applying"
    BY <1>1, <2>1, MirrorOfOne
  <2>6. MirrorOf(r)'
    BY <2>1, <2>2, <2>4, <2>5 DEF MirrorOf
  <2>7. \A q \in Runner : MirrorOf(q)'
    BY <1>1, <2>1, <2>6, MirrorOfOne
  <2> QED BY <2>1, <2>7, MirrorStays
<1>31. ASSUME NEW r \in Runner, ApplyTable(r) PROVE MirrorInv'
  <2>1. /\ at' = [at EXCEPT ![r] = "tabled"] /\ at[r] = "applying" /\ table' = table
        /\ cursor' = cursor /\ changes' = changes /\ start' = start /\ events' = events
        /\ applied' = applied /\ hand' = hand /\ hand[r].from < hand[r].upto
        /\ rows' = After(hand[r].rows, SubSeq(events, hand[r].from + 1, hand[r].upto))
    BY <1>31 DEF ApplyTable, Goto, external, source
  <2>2. at'[r] = "tabled" /\ hand[r].upto = Len(events)
    BY <1>1, <1>2, <2>1, MirrorOfOne DEF LogOf, Counting
  <2>3. table = "following" => Mirrors(rows', Len(events))
    <3> SUFFICES ASSUME table = "following" PROVE Mirrors(rows', Len(events))
      OBVIOUS
    <3>1. hand[r].from = applied /\ Mirrors(hand[r].rows, applied)
      BY <1>2, <2>1 DEF MirrorOf
    <3>2. \A i \in (applied + 1)..Len(events) : start < events[i]
      BY DEF MirrorInv
    <3>3. Mirrors(After(hand[r].rows, SubSeq(events, applied + 1, Len(events))), Len(events))
      BY <1>1, <2>1, <2>2, <3>1, <3>2, ApplyMirrors
    <3> QED BY <2>1, <2>2, <3>1, <3>3
  <2>4. table = "following" => Mirrors(rows', applied)
    BY <1>1, <2>3, MirrorsFewer
  <2>5. table = "following" => Mirrors(rows, hand[r].upto)' /\ Mirrors(rows, applied)'
    BY <2>1, <2>2, <2>3, <2>4 DEF Mirrors, MirrorsRow, Shows
  <2>6. MirrorOf(r)'
    BY <2>1, <2>2, <2>5 DEF MirrorOf
  <2>7. \A q \in Runner : MirrorOf(q)'
    BY <1>1, <2>1, <2>6, MirrorOfOne
  <2> QED BY <2>1, <2>5, <2>7 DEF MirrorInv
<1>32. ASSUME NEW r \in Runner, MarkTable(r) PROVE MirrorInv'
  <2>1. /\ at' = [at EXCEPT ![r] = "trimming"] /\ at[r] \in {"tabled", "applying"}
        /\ table' = table /\ rows' = rows
        /\ cursor' = cursor /\ changes' = changes /\ start' = start /\ events' = events
        /\ applied' = hand[r].upto /\ hand[r].upto = Len(events)
        /\ at[r] = "applying" => hand[r].upto <= hand[r].from
    BY <1>2, <1>32, LiveAssumption
    DEF MarkTable, Goto, external, source, LogOf, Counting
  <2>2. table = "following" => cursor /\ Mirrors(rows, Len(events))
    <3>1. CASE at[r] = "tabled"
      BY <1>2, <2>1, <3>1 DEF MirrorOf, MirrorInv
    <3>2. CASE at[r] = "applying"
      <4>1. table = "following" => applied = Len(events)
        BY <1>1, <1>2, <2>1, <3>2 DEF MirrorOf
      <4> QED BY <4>1 DEF MirrorInv
    <3> QED BY <2>1, <3>1, <3>2
  <2>3. table = "following" => Mirrors(rows, applied)'
    BY <2>1, <2>2 DEF Mirrors, MirrorsRow, Shows
  <2>4. (applied' + 1)..Len(events') = {}
    BY <1>1, <2>1
  <2>5. \A q \in Runner : MirrorOf(q)'
    <3>1. at[r] # "idle"
      BY <2>1
    <3> QED BY <1>1, <2>1, <3>1, MirrorOfOne
  <2> QED BY <2>1, <2>2, <2>3, <2>4, <2>5 DEF MirrorInv
<1> QED
  BY <1>1, <1>4, <1>5, <1>6, <1>7, <1>8, <1>10, <1>11, <1>12, <1>13, <1>14, <1>15, <1>16,
     <1>17, <1>18, <1>19, <1>20, <1>21, <1>22, <1>23, <1>24, <1>25, <1>26, <1>27, <1>28,
     <1>29, <1>30, <1>31, <1>32
  DEF Next, PassStep, SaveStep

\* A table dataset that has caught up is the table outside, row by row: the
\* position is taken before the copy, the copy may show changes that come to
\* be applied again, and a save that died between its two commits is done
\* over (save_table, as long as a pass ends within its lease and nobody saves
\* beside it).
THEOREM TheMirrorIsRight ==
    ASSUME SlowPass = FALSE, Person = {}
    PROVE  Spec => []MirrorIsRight
<1>1. TypeInv /\ MirrorInv => MirrorIsRight
  BY CaughtUpIsRight
<1>2. Init => TypeInv /\ EventInv /\ LogInv /\ MirrorInv
  BY TypeInit, EventInit, LogInit, MirrorInit
<1>3. TypeInv /\ EventInv /\ LogInv /\ MirrorInv /\ [Next]_vars
        => (TypeInv /\ EventInv /\ LogInv /\ MirrorInv)'
  BY TypeStep, EventStep, LogStep, MirrorStep
<1> QED BY <1>1, <1>2, <1>3, PTL DEF Spec

=============================================================================
