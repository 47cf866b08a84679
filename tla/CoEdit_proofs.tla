---------------------------- MODULE CoEdit_proofs ----------------------------
(***************************************************************************)
(* Theorems about CoEdit.                                                  *)
(*                                                                         *)
(* Whatever happens, counters, clocks and epochs keep their bounds         *)
(* (CountersHold) and an edit shows at once where it is made               *)
(* (EditsWinAtHome).                                                       *)
(*                                                                         *)
(* Where none of the mishaps happens that the code does not provide for    *)
(* (Mishaps = {}; README.md says what each of them breaks), no change of   *)
(* this epoch is lost (NobodyLosesWork), and whoever has everything shows  *)
(* the one copy, which starts from the recipe (EveryoneSeesOneCopy).       *)
(*                                                                         *)
(* The parts of the invariant, each resting on those before it: Types,     *)
(* Clocks and Starts (what is counted); Saving (what a save has read is    *)
(* still so); Timely (nothing is ahead of the copy); Authored (whose       *)
(* changes are where, and of which epoch); NobodysWorkIsLost; and Agree    *)
(* (where every register of a Studio, of a reply and of the copy comes     *)
(* from).                                                                  *)
(***************************************************************************)
EXTENDS CoEdit, FiniteSetTheorems, SequenceTheorems, WellFoundedInduction, TLAPS

(***************************************************************************)
(* Numbers.                                                                *)
(***************************************************************************)

\* Among some numbers there is a least one.
LEMMA LeastNumber ==
    ASSUME NEW S \in SUBSET Nat, S # {}
    PROVE  \E s \in S : \A q \in S : s <= q
<1> DEFINE R == OpToRel(<, Nat)
<1>1. IsWellFoundedOn(R, Nat)
  BY NatLessThanWellFounded
<1>2. \A x, y \in Nat : y < x => <<y, x>> \in R
  BY DEF OpToRel
<1> HIDE DEF R
<1>3. PICK s \in S : \A q \in S : ~ (<<q, s>> \in R)
  BY <1>1, WFMin
<1>4. \A q \in S : ~ (q < s)
  BY <1>2, <1>3
<1> QED BY <1>4

\* The largest of some bounded numbers.
LEMMA MaxIs ==
    ASSUME NEW n \in Nat, NEW S \in SUBSET (0..n), S # {}
    PROVE  Max(S) \in S /\ \A q \in S : q <= Max(S)
<1> DEFINE T == {n - s : s \in S}
<1>1. T \in SUBSET Nat /\ T # {}
  <2>1. \A s \in S : n - s \in Nat
    OBVIOUS
  <2> QED BY <2>1
<1>2. PICK t \in T : \A q \in T : t <= q
  BY <1>1, LeastNumber
<1>3. PICK s \in S : t = n - s
  OBVIOUS
<1>4. \A q \in S : t <= n - q
  BY <1>2
<1>5. \A q \in S : q \in Int
  OBVIOUS
<1>6. \E x \in S : \A q \in S : x >= q
  BY <1>3, <1>4, <1>5
<1>7. Max(S) \in S /\ \A q \in S : Max(S) >= q
  BY <1>6 DEF Max
<1> QED BY <1>5, <1>7

LEMMA LatestIs ==
    ASSUME NEW n \in Nat, NEW clock \in 0..n, NEW counters \in SUBSET (0..n)
    PROVE  /\ Latest(clock, counters) \in 0..n
           /\ clock <= Latest(clock, counters)
           /\ \A c \in counters : c <= Latest(clock, counters)
<1> DEFINE S == {clock} \cup counters
<1>1. S \in SUBSET (0..n) /\ S # {}
  OBVIOUS
<1>2. Max(S) \in S /\ \A q \in S : q <= Max(S)
  BY <1>1, MaxIs
<1> QED BY <1>1, <1>2 DEF Latest

(***************************************************************************)
(* Stamps and the merge.                                                   *)
(***************************************************************************)

Stamp(x) == x.c \in Nat /\ x.by \in Nat

\* Stamps are in a total order.
LEMMA NewerOrders ==
    ASSUME NEW a, NEW b, NEW c, Stamp(a), Stamp(b), Stamp(c)
    PROVE  /\ ~ Newer(a, a)
           /\ Newer(a, b) => ~ Newer(b, a)
           /\ ~ Newer(b, a) /\ ~ Newer(c, b) => ~ Newer(c, a)
           /\ ~ Newer(a, b) /\ ~ Newer(b, a) => a.c = b.c /\ a.by = b.by
BY DEF Newer, Stamp

\* What a change writes.
CellOf(op) == [v |-> op.v, c |-> op.c, by |-> op.by]

CellsUpTo(n) == [v : Value, c : 0..n, by : Studio \cup {0}]
OpsUpTo(n) == [on : SUBSET Register, v : Value, c : 1..n, by : Studio]

LEMMA Stamped ==
    ASSUME NEW n \in Nat
    PROVE  /\ \A x \in CellsUpTo(n) : Stamp(x) /\ x.c <= n
           /\ \A op \in OpsUpTo(n) : Stamp(op) /\ CellOf(op) \in CellsUpTo(n) /\ op.c <= n
                                     /\ CellOf(op).c = op.c /\ CellOf(op).by = op.by
                                     /\ 1 <= op.c /\ op.on \subseteq Register
<1>1. \A s \in Studio : s \in Nat
  BY CoEditAssumption
<1>2. ASSUME NEW x \in CellsUpTo(n) PROVE Stamp(x) /\ x.c <= n
  BY <1>1 DEF CellsUpTo, Stamp
<1>3. ASSUME NEW op \in OpsUpTo(n)
      PROVE  /\ Stamp(op) /\ CellOf(op) \in CellsUpTo(n) /\ op.c <= n
             /\ CellOf(op).c = op.c /\ CellOf(op).by = op.by
             /\ 1 <= op.c /\ op.on \subseteq Register
  BY <1>1 DEF OpsUpTo, CellsUpTo, Stamp, CellOf
<1> QED BY <1>2, <1>3

LEMMA ApplyOpIs ==
    ASSUME NEW n \in Nat, NEW doc \in [Register -> CellsUpTo(n)], NEW op \in OpsUpTo(n)
    PROVE  /\ ApplyOp(doc, op) \in [Register -> CellsUpTo(n)]
           /\ \A r \in Register :
                /\ ApplyOp(doc, op)[r] = IF r \in op.on /\ Newer(op, doc[r]) THEN CellOf(op) ELSE doc[r]
                /\ ~ Newer(doc[r], ApplyOp(doc, op)[r])
                /\ r \in op.on => ~ Newer(op, ApplyOp(doc, op)[r])
<1>1. \A r \in Register : doc[r] \in CellsUpTo(n)
  OBVIOUS
<1>2. ASSUME NEW r \in Register
      PROVE  ApplyOp(doc, op)[r] = IF r \in op.on /\ Newer(op, doc[r]) THEN CellOf(op) ELSE doc[r]
  BY DEF ApplyOp, CellOf
<1>3. ApplyOp(doc, op) = [r \in Register |-> ApplyOp(doc, op)[r]]
  BY DEF ApplyOp
<1>4. ASSUME NEW r \in Register
      PROVE  /\ ApplyOp(doc, op)[r] \in CellsUpTo(n)
             /\ ~ Newer(doc[r], ApplyOp(doc, op)[r])
             /\ r \in op.on => ~ Newer(op, ApplyOp(doc, op)[r])
  <2>1. Stamp(doc[r]) /\ Stamp(op) /\ CellOf(op) \in CellsUpTo(n)
    BY <1>1, Stamped
  <2>2. CASE r \in op.on /\ Newer(op, doc[r])
    <3>1. ApplyOp(doc, op)[r] = CellOf(op) /\ CellOf(op).c = op.c /\ CellOf(op).by = op.by
      BY <1>2, <2>2 DEF CellOf
    <3> QED BY <2>1, <2>2, <3>1 DEF Newer, Stamp
  <2>3. CASE ~ (r \in op.on /\ Newer(op, doc[r]))
    <3>1. ApplyOp(doc, op)[r] = doc[r]
      BY <1>2, <2>3
    <3> QED BY <1>1, <2>1, <2>3, <3>1 DEF Newer, Stamp
  <2> QED BY <2>2, <2>3
<1>5. ApplyOp(doc, op) \in [Register -> CellsUpTo(n)]
  BY <1>3, <1>4
<1> QED BY <1>2, <1>4, <1>5

\* f gives the document after the first i changes.
AppliesFrom(f, doc, ops, n) ==
    f = [i \in 0..n |-> IF i = 0 THEN doc ELSE ApplyOp(f[i - 1], ops[i])]

LEMMA ApplyOpsDefined ==
    ASSUME NEW doc, NEW ops, NEW len \in Nat
    PROVE  \E f : AppliesFrom(f, doc, ops, len)
<1> DEFINE Bad == {m \in Nat : ~ \E f : AppliesFrom(f, doc, ops, m)}
<1> SUFFICES ASSUME Bad # {} PROVE FALSE
  OBVIOUS
<1>1. PICK m \in Bad : \A q \in Bad : m <= q
  BY LeastNumber
<1>2. m # 0
  <2> DEFINE f == [i \in 0..0 |-> doc]
  <2>1. AppliesFrom(f, doc, ops, 0)
    BY DEF AppliesFrom
  <2> QED BY <2>1
<1>3. m \in Nat /\ m - 1 \in Nat /\ m - 1 \notin Bad
  BY <1>1, <1>2
<1>4. PICK f : AppliesFrom(f, doc, ops, m - 1)
  BY <1>3
<1> DEFINE g == [i \in 0..m |-> IF i = m THEN ApplyOp(f[m - 1], ops[m]) ELSE f[i]]
<1>5. f = [i \in 0..(m - 1) |-> IF i = 0 THEN doc ELSE ApplyOp(f[i - 1], ops[i])]
  BY <1>4 DEF AppliesFrom
<1>6. ASSUME NEW i \in 0..m
      PROVE  g[i] = IF i = 0 THEN doc ELSE ApplyOp(g[i - 1], ops[i])
  <2>1. CASE i = m
    <3>1. g[m - 1] = f[m - 1] /\ g[m] = ApplyOp(f[m - 1], ops[m])
      BY <1>3
    <3> QED BY <1>2, <2>1, <3>1
  <2>2. CASE i # m
    <3>1. i \in 0..(m - 1) /\ g[i] = f[i] /\ (i # 0 => g[i - 1] = f[i - 1])
      BY <1>3, <2>2
    <3>2. f[i] = IF i = 0 THEN doc ELSE ApplyOp(f[i - 1], ops[i])
      BY <1>5, <3>1
    <3> HIDE DEF g
    <3> QED BY <3>1, <3>2
  <2> QED BY <2>1, <2>2
<1>7. g = [i \in 0..m |-> g[i]]
  OBVIOUS
<1> HIDE DEF g
<1>8. [i \in 0..m |-> g[i]] = [i \in 0..m |-> IF i = 0 THEN doc ELSE ApplyOp(g[i - 1], ops[i])]
  BY <1>6
<1>9. AppliesFrom(g, doc, ops, m)
  BY <1>7, <1>8 DEF AppliesFrom
<1> QED BY <1>1, <1>9

\* What a merge returns: nothing gets older, every change is taken in, and a
\* register says what it said or what one of the changes wrote.
LEMMA ApplyOpsIs ==
    ASSUME NEW n \in Nat, NEW doc \in [Register -> CellsUpTo(n)], NEW ops \in Seq(OpsUpTo(n))
    PROVE  /\ ApplyOps(doc, ops) \in [Register -> CellsUpTo(n)]
           /\ \A r \in Register :
                /\ ~ Newer(doc[r], ApplyOps(doc, ops)[r])
                /\ \A j \in DOMAIN ops : r \in ops[j].on => ~ Newer(ops[j], ApplyOps(doc, ops)[r])
                /\ \/ ApplyOps(doc, ops)[r] = doc[r]
                   \/ \E j \in DOMAIN ops :
                        r \in ops[j].on /\ ApplyOps(doc, ops)[r] = CellOf(ops[j])
<1> DEFINE len == Len(ops)
           f == CHOOSE f : f = [i \in 0..Len(ops) |-> IF i = 0 THEN doc ELSE ApplyOp(f[i - 1], ops[i])]
<1>1. len \in Nat /\ DOMAIN ops = 1..len /\ \A j \in 1..len : ops[j] \in OpsUpTo(n)
  OBVIOUS
<1>2. ApplyOps(doc, ops) = f[len]
  BY DEF ApplyOps
<1>3. \E g : g = [i \in 0..Len(ops) |-> IF i = 0 THEN doc ELSE ApplyOp(g[i - 1], ops[i])]
  <2>1. Len(ops) \in Nat
    BY <1>1
  <2>2. PICK g : AppliesFrom(g, doc, ops, Len(ops))
    BY ONLY <2>1, ApplyOpsDefined
  <2> QED BY <2>2 DEF AppliesFrom
<1>4. f = [i \in 0..Len(ops) |-> IF i = 0 THEN doc ELSE ApplyOp(f[i - 1], ops[i])]
  BY <1>3
<1> HIDE DEF f
<1>5. f[0] = doc /\ \A i \in 1..len : f[i] = ApplyOp(f[i - 1], ops[i])
  BY <1>1, <1>4
<1> DEFINE Right(m) ==
      /\ f[m] \in [Register -> CellsUpTo(n)]
      /\ \A r \in Register :
           /\ ~ Newer(doc[r], f[m][r])
           /\ \A j \in 1..m : r \in ops[j].on => ~ Newer(ops[j], f[m][r])
           /\ f[m][r] = doc[r] \/ \E j \in 1..m : r \in ops[j].on /\ f[m][r] = CellOf(ops[j])
    Bad == {m \in 0..len : ~ Right(m)}
<1>6. Right(0)
  <2>1. \A r \in Register : doc[r] \in CellsUpTo(n) /\ Stamp(doc[r])
    BY Stamped
  <2>2. \A r \in Register : ~ Newer(doc[r], doc[r])
    BY <2>1, NewerOrders
  <2> QED BY <1>5, <2>2
<1>7. ASSUME NEW m \in 1..len, Right(m - 1) PROVE Right(m)
  <2> DEFINE d == f[m - 1]
             op == ops[m]
  <2>1. d \in [Register -> CellsUpTo(n)] /\ op \in OpsUpTo(n) /\ f[m] = ApplyOp(d, op) /\ m - 1 \in Nat
    BY <1>1, <1>5, <1>7
  <2>2. /\ f[m] \in [Register -> CellsUpTo(n)]
        /\ \A r \in Register :
             /\ f[m][r] = IF r \in op.on /\ Newer(op, d[r]) THEN CellOf(op) ELSE d[r]
             /\ ~ Newer(d[r], f[m][r])
             /\ r \in op.on => ~ Newer(op, f[m][r])
    <3> HIDE DEF d, op
    <3> QED BY <2>1, ApplyOpIs
  <2>3. ASSUME NEW r \in Register
        PROVE  /\ ~ Newer(doc[r], f[m][r])
               /\ \A j \in 1..m : r \in ops[j].on => ~ Newer(ops[j], f[m][r])
               /\ f[m][r] = doc[r] \/ \E j \in 1..m : r \in ops[j].on /\ f[m][r] = CellOf(ops[j])
    <3>1. /\ Stamp(doc[r]) /\ Stamp(d[r]) /\ Stamp(f[m][r])
          /\ \A j \in 1..len : Stamp(ops[j])
      <4>1. doc[r] \in CellsUpTo(n) /\ d[r] \in CellsUpTo(n) /\ f[m][r] \in CellsUpTo(n)
        <5> HIDE DEF d
        <5> QED BY <2>1, <2>2
      <4> QED BY <1>1, <4>1, Stamped
    <3>2. /\ ~ Newer(doc[r], d[r])
          /\ \A j \in 1..(m - 1) : r \in ops[j].on => ~ Newer(ops[j], d[r])
          /\ d[r] = doc[r] \/ \E j \in 1..(m - 1) : r \in ops[j].on /\ d[r] = CellOf(ops[j])
      BY <1>7
    <3>3. ~ Newer(d[r], f[m][r]) /\ (r \in op.on => ~ Newer(op, f[m][r]))
      BY <2>2
    <3>4. ~ Newer(doc[r], f[m][r])
      BY <3>1, <3>2, <3>3, NewerOrders
    <3>5. ASSUME NEW j \in 1..m, r \in ops[j].on PROVE ~ Newer(ops[j], f[m][r])
      <4>1. CASE j = m
        BY <3>3, <3>5, <4>1
      <4>2. CASE j # m
        <5>1. j \in 1..(m - 1) /\ j \in 1..len
          BY <1>1, <4>2
        <5>2. ~ Newer(ops[j], d[r])
          BY <3>2, <3>5, <5>1
        <5> QED BY <3>1, <3>3, <5>1, <5>2, NewerOrders
      <4> QED BY <4>1, <4>2
    <3>6. f[m][r] = doc[r] \/ \E j \in 1..m : r \in ops[j].on /\ f[m][r] = CellOf(ops[j])
      <4>1. f[m][r] = d[r] \/ (r \in op.on /\ f[m][r] = CellOf(op))
        BY <2>2
      <4>2. 1..(m - 1) \subseteq 1..m /\ m \in 1..m
        BY <1>1
      <4> HIDE DEF d
      <4> QED BY <3>2, <4>1, <4>2
    <3> QED BY <3>4, <3>5, <3>6
  <2> QED BY <2>2, <2>3
<1>8. Bad = {}
  <2> SUFFICES ASSUME Bad # {} PROVE FALSE
    OBVIOUS
  <2>1. Bad \in SUBSET Nat
    BY <1>1
  <2>2. PICK m \in Bad : \A q \in Bad : m <= q
    <3> HIDE DEF Bad
    <3> QED BY <2>1, LeastNumber
  <2> HIDE DEF Right
  <2>3. m # 0 /\ m \in 0..len
    BY <1>6, <2>2
  <2>4. m \in 1..len /\ m - 1 \in 0..len /\ ~ (m <= m - 1)
    BY <1>1, <2>3
  <2>5. Right(m - 1)
    BY <2>2, <2>4
  <2> QED BY <1>7, <2>2, <2>4, <2>5
<1>9. Right(len)
  <2> HIDE DEF Right
  <2>1. len \in 0..len
    BY <1>1
  <2> QED BY <1>8, <2>1
<1> QED BY <1>1, <1>2, <1>9

(***************************************************************************)
(* The batches a poll missed.                                              *)
(***************************************************************************)

Missed(n, seq) == {b \in batches : b.seq = n /\ n > seq}

\* f gives the changes of the missed batches up to the i-th.
GathersFrom(f, seq, n) ==
    f = [i \in 0..n |->
           IF i = 0 THEN <<>>
           ELSE IF Missed(i, seq) = {} THEN f[i - 1]
           ELSE f[i - 1] \o (CHOOSE b \in Missed(i, seq) : TRUE).ops]

LEMMA OpsAfterDefined ==
    ASSUME NEW seq, NEW len \in Nat
    PROVE  \E f : GathersFrom(f, seq, len)
<1> DEFINE next(i, x) == IF Missed(i, seq) = {} THEN x ELSE x \o (CHOOSE b \in Missed(i, seq) : TRUE).ops
           Bad == {m \in Nat : ~ \E f : GathersFrom(f, seq, m)}
<1> SUFFICES ASSUME Bad # {} PROVE FALSE
  OBVIOUS
<1>1. PICK m \in Bad : \A q \in Bad : m <= q
  BY LeastNumber
<1>2. m # 0
  <2> DEFINE f == [i \in 0..0 |-> <<>>]
  <2>1. GathersFrom(f, seq, 0)
    BY DEF GathersFrom
  <2> QED BY <2>1
<1>3. m \in Nat /\ m - 1 \in Nat /\ m - 1 \notin Bad
  BY <1>1, <1>2
<1>4. PICK f : GathersFrom(f, seq, m - 1)
  BY <1>3
<1> DEFINE g == [i \in 0..m |-> IF i = m THEN next(m, f[m - 1]) ELSE f[i]]
<1>5. f = [i \in 0..(m - 1) |-> IF i = 0 THEN <<>> ELSE next(i, f[i - 1])]
  BY <1>4 DEF GathersFrom
<1> HIDE DEF next
<1>6. ASSUME NEW i \in 0..m
      PROVE  g[i] = IF i = 0 THEN <<>> ELSE next(i, g[i - 1])
  <2>1. CASE i = m
    <3>1. g[m - 1] = f[m - 1] /\ g[m] = next(m, f[m - 1])
      BY <1>3
    <3> QED BY <1>2, <2>1, <3>1
  <2>2. CASE i # m
    <3>1. i \in 0..(m - 1) /\ g[i] = f[i] /\ (i # 0 => g[i - 1] = f[i - 1])
      BY <1>3, <2>2
    <3>2. f[i] = IF i = 0 THEN <<>> ELSE next(i, f[i - 1])
      BY <1>5, <3>1
    <3> HIDE DEF g
    <3> QED BY <3>1, <3>2
  <2> QED BY <2>1, <2>2
<1>7. g = [i \in 0..m |-> g[i]]
  OBVIOUS
<1> HIDE DEF g
<1>8. [i \in 0..m |-> g[i]] = [i \in 0..m |-> IF i = 0 THEN <<>> ELSE next(i, g[i - 1])]
  BY <1>6
<1>9. GathersFrom(g, seq, m)
  BY <1>7, <1>8 DEF GathersFrom, next
<1> QED BY <1>1, <1>9

\* What a poll gathers comes from batches it missed, and it has all of one
\* batch of every number it missed.
LEMMA OpsAfterIs ==
    ASSUME NEW T, NEW seq \in Nat, shared.seq \in Nat, \A b \in batches : b.ops \in Seq(T)
    PROVE  /\ OpsAfter(seq) \in Seq(T)
           /\ \A j \in DOMAIN OpsAfter(seq) : \E b \in batches :
                b.seq > seq /\ \E k \in DOMAIN b.ops : OpsAfter(seq)[j] = b.ops[k]
           /\ \A b \in batches : b.seq \in (seq + 1)..shared.seq => \E a \in batches :
                a.seq = b.seq /\ \A k \in DOMAIN a.ops : \E j \in DOMAIN OpsAfter(seq) :
                                   OpsAfter(seq)[j] = a.ops[k]
<1> DEFINE len == shared.seq
           chosen(i) == CHOOSE b \in Missed(i, seq) : TRUE
           f == CHOOSE f : f = [i \in 0..shared.seq |->
                  IF i = 0 THEN <<>>
                  ELSE IF {b \in batches : b.seq = i /\ i > seq} = {} THEN f[i - 1]
                  ELSE f[i - 1] \o (CHOOSE b \in {b \in batches : b.seq = i /\ i > seq} : TRUE).ops]
<1>1. OpsAfter(seq) = f[len]
  BY DEF OpsAfter
<1>2. \E g : g = [i \in 0..shared.seq |->
                  IF i = 0 THEN <<>>
                  ELSE IF {b \in batches : b.seq = i /\ i > seq} = {} THEN g[i - 1]
                  ELSE g[i - 1] \o (CHOOSE b \in {b \in batches : b.seq = i /\ i > seq} : TRUE).ops]
  <2>1. PICK g : GathersFrom(g, seq, shared.seq)
    BY OpsAfterDefined
  <2> QED BY <2>1 DEF GathersFrom, Missed
<1>3. f = [i \in 0..shared.seq |->
                  IF i = 0 THEN <<>>
                  ELSE IF {b \in batches : b.seq = i /\ i > seq} = {} THEN f[i - 1]
                  ELSE f[i - 1] \o (CHOOSE b \in {b \in batches : b.seq = i /\ i > seq} : TRUE).ops]
  BY <1>2
<1> HIDE DEF f
<1>4. /\ f[0] = <<>>
      /\ \A i \in 1..len : f[i] = IF Missed(i, seq) = {} THEN f[i - 1] ELSE f[i - 1] \o chosen(i).ops
  BY <1>3 DEF Missed
<1>5. \A i \in 1..len : Missed(i, seq) # {} =>
        chosen(i) \in batches /\ chosen(i).seq = i /\ i > seq /\ chosen(i).ops \in Seq(T)
  BY DEF Missed
<1> HIDE DEF chosen
<1> DEFINE Right(m) ==
      /\ f[m] \in Seq(T)
      /\ \A j \in DOMAIN f[m] : \E b \in batches : b.seq > seq /\ \E k \in DOMAIN b.ops : f[m][j] = b.ops[k]
      /\ \A i \in 1..m : Missed(i, seq) # {} =>
           \A k \in DOMAIN chosen(i).ops : \E j \in DOMAIN f[m] : f[m][j] = chosen(i).ops[k]
    Bad == {m \in 0..len : ~ Right(m)}
<1>6. Right(0)
  BY <1>4
<1>7. ASSUME NEW m \in 1..len, Right(m - 1) PROVE Right(m)
  <2> DEFINE d == f[m - 1]
  <2>1. d \in Seq(T) /\ m \in Nat /\ m - 1 \in Nat
    BY <1>7
  <2>2. CASE Missed(m, seq) = {}
    <3>1. f[m] = d /\ \A i \in 1..m : Missed(i, seq) # {} => i \in 1..(m - 1)
      BY <1>4, <2>1, <2>2
    <3> HIDE DEF d
    <3>2. f[m] = f[m - 1]
      BY <3>1 DEF d
    <3> QED BY <1>7, <3>1, <3>2
  <2>3. CASE Missed(m, seq) # {}
    <3> DEFINE more == chosen(m).ops
    <3>1. f[m] = d \o more /\ more \in Seq(T) /\ chosen(m) \in batches /\ chosen(m).seq > seq
      BY <1>4, <1>5, <2>3
    <3> HIDE DEF d, more
    <3>2. /\ d \o more \in Seq(T)
          /\ Len(d) \in Nat /\ Len(more) \in Nat /\ DOMAIN d = 1..Len(d) /\ DOMAIN more = 1..Len(more)
          /\ DOMAIN (d \o more) = 1..(Len(d) + Len(more))
          /\ \A j \in 1..Len(d) : (d \o more)[j] = d[j]
          /\ \A k \in 1..Len(more) : (d \o more)[Len(d) + k] = more[k]
          /\ \A j \in 1..(Len(d) + Len(more)) : j \notin 1..Len(d) => j - Len(d) \in 1..Len(more) /\ (d \o more)[j] = more[j - Len(d)]
      BY <2>1, <3>1
    <3>3. ASSUME NEW j \in DOMAIN f[m]
          PROVE  \E b \in batches : b.seq > seq /\ \E k \in DOMAIN b.ops : f[m][j] = b.ops[k]
      <4>1. CASE j \in 1..Len(d)
        <5>1. j \in DOMAIN f[m - 1] /\ f[m][j] = f[m - 1][j]
          BY <3>1, <3>2, <4>1 DEF d
        <5> QED BY <1>7, <5>1
      <4>2. CASE j \notin 1..Len(d)
        <5>1. j - Len(d) \in DOMAIN more /\ f[m][j] = more[j - Len(d)]
          BY <3>1, <3>2, <4>2
        <5> QED BY <3>1, <5>1 DEF more
      <4> QED BY <4>1, <4>2
    <3>4. ASSUME NEW i \in 1..m, Missed(i, seq) # {}, NEW k \in DOMAIN chosen(i).ops
          PROVE  \E j \in DOMAIN f[m] : f[m][j] = chosen(i).ops[k]
      <4>1. CASE i = m
        <5>1. k \in 1..Len(more) /\ chosen(i).ops[k] = more[k]
          BY <3>2, <3>4, <4>1 DEF more
        <5>2. Len(d) + k \in 1..(Len(d) + Len(more))
          BY <3>2, <5>1
        <5> QED BY <3>1, <3>2, <5>1, <5>2
      <4>2. CASE i # m
        <5>1. i \in 1..(m - 1)
          BY <2>1, <4>2
        <5>2. PICK j \in DOMAIN f[m - 1] : f[m - 1][j] = chosen(i).ops[k]
          BY <1>7, <3>4, <5>1
        <5>3. j \in 1..Len(d) /\ d[j] = f[m - 1][j]
          BY <3>2, <5>2 DEF d
        <5>4. j \in 1..(Len(d) + Len(more))
          BY <3>2, <5>3
        <5> QED BY <3>1, <3>2, <5>2, <5>3, <5>4
      <4> QED BY <4>1, <4>2
    <3>5. f[m] \in Seq(T)
      BY <3>1, <3>2
    <3> QED BY <3>3, <3>4, <3>5
  <2> QED BY <2>2, <2>3
<1>8. Bad = {}
  <2> SUFFICES ASSUME Bad # {} PROVE FALSE
    OBVIOUS
  <2>1. Bad \in SUBSET Nat
    OBVIOUS
  <2>2. PICK m \in Bad : \A q \in Bad : m <= q
    <3> HIDE DEF Bad
    <3> QED BY <2>1, LeastNumber
  <2> HIDE DEF Right
  <2>3. m # 0 /\ m \in 0..len
    BY <1>6, <2>2
  <2>4. m \in 1..len /\ m - 1 \in 0..len /\ ~ (m <= m - 1)
    BY <2>3
  <2>5. Right(m - 1)
    BY <2>2, <2>4
  <2> QED BY <1>7, <2>2, <2>4, <2>5
<1>9. Right(len)
  <2> HIDE DEF Right
  <2>1. len \in 0..len
    OBVIOUS
  <2> QED BY <1>8, <2>1
<1>10. ASSUME NEW b \in batches, b.seq \in (seq + 1)..shared.seq
       PROVE  \E a \in batches :
                a.seq = b.seq /\ \A k \in DOMAIN a.ops : \E j \in DOMAIN f[len] : f[len][j] = a.ops[k]
  <2>1. b \in Missed(b.seq, seq) /\ b.seq \in 1..len
    BY <1>10 DEF Missed
  <2>2. chosen(b.seq) \in batches /\ chosen(b.seq).seq = b.seq
    BY <1>5, <2>1
  <2> QED BY <1>9, <2>1, <2>2
<1> QED BY <1>1, <1>9, <1>10

(***************************************************************************)
(* Types: counters go up to the number of changes made, and every change   *)
(* anyone holds is one that was made.                                      *)
(***************************************************************************)

Edits == Cardinality(made)
Told == {m.op : m \in made}
Docs == [Register -> CellsUpTo(Edits)]

StudioRec == [doc : Docs, pending : Seq(Told), epoch : Nat, seq : Nat, clock : 0..Edits,
              revision : Nat \ {0}]
OutRec == [at : {"none", "sent", "refused", "asking"}, ops : Seq(Told), epoch : Nat]
PollRec == [at : {"copy", "ready"}, full : BOOLEAN, epoch : Nat, seq : Nat, doc : Docs,
            ops : Seq(Told), after : Nat, revision : Nat]
AskedRec == [at : {"asked"}, by : Studio, new : [Register -> Value], from : Nat, expected : Nat]
ReadRec == [at : {"read"}, by : Studio \cup {0}, new : [Register -> Value], expected : Nat,
            seq : Nat, epoch : Nat, keeps : BOOLEAN, revision : Nat]

MadeTypes ==
    /\ IsFiniteSet(made)
    /\ Edits \in 0..MaxEdits
    /\ made \subseteq [op : OpsUpTo(Edits), epoch : Nat]
ServerTypes ==
    /\ shared \in [epoch : Nat \ {0}, seq : Nat, doc : Docs]
    /\ \A b \in batches : b.seq \in 1..shared.seq /\ b.ops \in Seq(Told)
RecipeTypes == recipe \in [revision : Nat \ {0}, saved : [Register -> Value]]
StudioTypes == studio \in [Studio -> StudioRec]
OutTypes == out \in [Studio -> OutRec]
PollTypes == poll \in [Studio -> [0..Asks -> {Quiet} \cup PollRec]]
SaveTypes == save \in [Saver -> {Idle} \cup AskedRec \cup ReadRec]
BoundTypes == restarts \in 0..MaxRestarts /\ saves \in 0..MaxSaves /\ faults \in 0..MaxFaults

\* A Studio's clock is past every change it made.
Counted == \A m \in made : m.op.c <= studio[m.op.by].clock

Types ==
    /\ MadeTypes /\ ServerTypes /\ RecipeTypes /\ StudioTypes
    /\ OutTypes /\ PollTypes /\ SaveTypes /\ BoundTypes /\ Counted

\* Where no change is made the types stay.
LEMMA SameTypes ==
    ASSUME made' = made
    PROVE  /\ Edits' = Edits /\ Told' = Told /\ Docs' = Docs
           /\ StudioRec' = StudioRec /\ OutRec' = OutRec /\ PollRec' = PollRec
<1>1. Edits' = Edits /\ Told' = Told
  BY DEF Edits, Told
<1>2. Docs' = Docs
  BY <1>1 DEF Docs
<1> QED BY <1>1, <1>2 DEF StudioRec, OutRec, PollRec

LEMMA ToldIs ==
    ASSUME MadeTypes
    PROVE  Edits \in Nat /\ Edits <= MaxEdits /\ Told \subseteq OpsUpTo(Edits)
<1>1. MaxEdits \in Nat
  BY CoEditAssumption
<1>2. Edits \in Nat /\ Edits <= MaxEdits
  BY <1>1 DEF MadeTypes
<1>3. \A m \in made : m.op \in OpsUpTo(Edits)
  BY DEF MadeTypes
<1> QED BY <1>2, <1>3 DEF Told

\* What a merge of changes that were made returns.
LEMMA MergeIs ==
    ASSUME MadeTypes, NEW doc \in Docs, NEW ops \in Seq(Told)
    PROVE  /\ ApplyOps(doc, ops) \in Docs
           /\ \A r \in Register :
                /\ ~ Newer(doc[r], ApplyOps(doc, ops)[r])
                /\ \A j \in DOMAIN ops : r \in ops[j].on => ~ Newer(ops[j], ApplyOps(doc, ops)[r])
                /\ \/ ApplyOps(doc, ops)[r] = doc[r]
                   \/ \E j \in DOMAIN ops :
                        r \in ops[j].on /\ ApplyOps(doc, ops)[r] = CellOf(ops[j])
<1>1. Edits \in Nat /\ ops \in Seq(OpsUpTo(Edits)) /\ doc \in [Register -> CellsUpTo(Edits)]
  <2>1. Seq(Told) \subseteq Seq(OpsUpTo(Edits))
    BY ToldIs
  <2> QED BY <2>1, ToldIs DEF Docs
<1> QED BY ONLY <1>1, ApplyOpsIs DEF Docs

\* The largest counter of a document.
LEMMA MaxCounterIs ==
    ASSUME NEW n \in Nat, NEW doc \in [Register -> CellsUpTo(n)]
    PROVE  MaxCounter(doc) \in 0..n /\ \A r \in Register : doc[r].c <= MaxCounter(doc)
<1> DEFINE S == {doc[r].c : r \in Register}
<1>1. \A r \in Register : doc[r].c \in 0..n
  <2>1. \A r \in Register : doc[r] \in CellsUpTo(n)
    OBVIOUS
  <2> QED BY <2>1 DEF CellsUpTo
<1>2. S \in SUBSET (0..n) /\ S # {}
  BY <1>1, CoEditAssumption
<1>3. Max(S) \in S /\ \A q \in S : q <= Max(S)
  <2> HIDE DEF S
  <2> QED BY <1>2, MaxIs
<1>4. MaxCounter(doc) = Max(S)
  BY DEF MaxCounter
<1> QED BY <1>2, <1>3, <1>4

\* What a reply shows of the counters.
LEMMA ObservedIs ==
    ASSUME MadeTypes, NEW p \in PollRec
    PROVE  /\ Observed(p) \subseteq 0..Edits
           /\ p.full => \A r \in Register : \E c \in Observed(p) : p.doc[r].c <= c
           /\ ~ p.full => \A j \in DOMAIN p.ops : p.ops[j].c \in Observed(p)
<1>1. Edits \in Nat /\ p.doc \in [Register -> CellsUpTo(Edits)] /\ p.ops \in Seq(Told)
  BY ToldIs DEF PollRec, Docs
<1>2. MaxCounter(p.doc) \in 0..Edits /\ \A r \in Register : p.doc[r].c <= MaxCounter(p.doc)
  BY ONLY <1>1, MaxCounterIs
<1>3. \A j \in DOMAIN p.ops : p.ops[j].c \in 0..Edits
  <2>1. \A j \in DOMAIN p.ops : p.ops[j] \in OpsUpTo(Edits)
    BY <1>1, ToldIs
  <2>2. \A x \in 1..Edits : x \in 0..Edits
    BY <1>1
  <2> QED BY <2>1, <2>2 DEF OpsUpTo
<1> QED BY <1>2, <1>3 DEF Observed

LEMMA SeedIs ==
    ASSUME NEW n \in Nat, NEW saved \in [Register -> Value]
    PROVE  /\ Seed(saved) \in [Register -> CellsUpTo(n)]
           /\ \A r \in Register : Seed(saved)[r] = [v |-> saved[r], c |-> 0, by |-> 0]
BY DEF Seed, CellsUpTo

LEMMA BlankIs == Blank \in [Register -> Value] /\ Seed(Blank) \in [Register -> CellsUpTo(0)]
<1>1. 0 \in Value
  <2>1. MaxEdits \in Nat /\ MaxRestarts \in Nat
    BY CoEditAssumption
  <2> QED BY <2>1 DEF Value
<1>2. Blank \in [Register -> Value]
  BY <1>1 DEF Blank
<1> QED BY <1>2, SeedIs

LEMMA InitTypes == Init => Types
<1> SUFFICES ASSUME Init PROVE Types
  OBVIOUS
<1>1. IsFiniteSet(made) /\ Edits = 0
  BY FS_EmptySet DEF Init, Edits
<1>2. MaxEdits \in Nat /\ MaxRestarts \in Nat /\ MaxSaves \in Nat /\ MaxFaults \in Nat
  BY CoEditAssumption
<1>3. MadeTypes /\ BoundTypes /\ Counted
  BY <1>1, <1>2 DEF MadeTypes, BoundTypes, Counted, Init
<1>4. Seed(Blank) \in Docs
  BY <1>1, BlankIs DEF Docs
<1>5. ServerTypes /\ RecipeTypes
  BY <1>4, BlankIs DEF ServerTypes, RecipeTypes, Init
<1>6. StudioTypes
  <2>1. ASSUME NEW e \in Nat
        PROVE  [doc |-> Seed(Blank), pending |-> <<>>, seq |-> 0, epoch |-> e, clock |-> 0,
                revision |-> 1] \in StudioRec
    BY <1>1, <1>4 DEF StudioRec
  <2> QED BY <2>1 DEF StudioTypes, Init
<1>7. OutTypes
  <2>1. Unsent \in OutRec
    BY DEF Unsent, OutRec
  <2> QED BY <2>1 DEF OutTypes, Init
<1>8. PollTypes /\ SaveTypes
  BY DEF PollTypes, SaveTypes, Init
<1> QED BY <1>3, <1>5, <1>6, <1>7, <1>8 DEF Types

\* A change and what it does to the types: there is one more.
OpOf(s, on) == [on |-> on, v |-> Edits + 1, c |-> studio[s].clock + 1, by |-> s]

LEMMA EditMakes ==
    ASSUME Types, NEW s \in Studio, NEW on \in SUBSET Register, Edit(s, on)
    PROVE  /\ Edits' = Edits + 1 /\ MadeTypes' /\ OpOf(s, on) \in Told' /\ Told \subseteq Told'
           /\ CellsUpTo(Edits) \subseteq CellsUpTo(Edits')
           /\ Docs \subseteq Docs' /\ Seq(Told) \subseteq Seq(Told')
           /\ StudioRec \subseteq StudioRec' /\ OutRec \subseteq OutRec' /\ PollRec \subseteq PollRec'
           /\ made' = made \cup {[op |-> OpOf(s, on), epoch |-> Latest(1, {studio[s].epoch})]}
           /\ \A m \in made : ~ (m.op.by = s /\ m.op.c = studio[s].clock + 1)
<1> DEFINE op == OpOf(s, on)
           new == [op |-> op, epoch |-> Latest(1, {studio[s].epoch})]
<1>1. made' = made \cup {new} /\ Edits < MaxEdits
  BY DEF Edit, OpOf, Edits
<1>2. studio[s] \in StudioRec
  BY DEF Types, StudioTypes
<1>3. studio[s].clock \in 0..Edits /\ studio[s].epoch \in Nat
  BY <1>2 DEF StudioRec
<1>4. Edits \in Nat /\ MaxEdits \in Nat /\ MaxRestarts \in Nat /\ IsFiniteSet(made)
  BY CoEditAssumption, ToldIs DEF Types, MadeTypes
<1>5. \A m \in made : ~ (m.op.by = s /\ m.op.c = studio[s].clock + 1)
  <2>1. \A m \in made : m.op.c \in Nat /\ m.op.c <= studio[m.op.by].clock
    BY <1>4 DEF Types, MadeTypes, OpsUpTo, Counted
  <2> QED BY <1>3, <2>1
<1>6. new \notin made
  <2>1. new.op.by = s /\ new.op.c = studio[s].clock + 1
    BY DEF OpOf
  <2> HIDE DEF new
  <2> QED BY <1>5, <2>1
<1>7. IsFiniteSet(made') /\ Edits' = Edits + 1
  <2> HIDE DEF new
  <2> QED BY <1>1, <1>4, <1>6, FS_AddElement DEF Edits
<1>8. op \in OpsUpTo(Edits + 1) /\ OpsUpTo(Edits) \subseteq OpsUpTo(Edits + 1)
      /\ CellsUpTo(Edits) \subseteq CellsUpTo(Edits + 1)
  BY <1>1, <1>3, <1>4 DEF OpOf, OpsUpTo, CellsUpTo, Value
<1>9. Latest(1, {studio[s].epoch}) \in Nat
  <2>1. PICK n \in Nat : 1 \in 0..n /\ studio[s].epoch \in 0..n
    <3>1. CASE studio[s].epoch <= 1
      BY <1>3, <3>1
    <3>2. CASE ~ (studio[s].epoch <= 1)
      BY <1>3, <3>2
    <3> QED BY <3>1, <3>2
  <2>2. Latest(1, {studio[s].epoch}) \in 0..n
    BY <2>1, LatestIs
  <2> QED BY <2>2
<1>10. made' \subseteq [op : OpsUpTo(Edits + 1), epoch : Nat]
  <2>1. made \subseteq [op : OpsUpTo(Edits), epoch : Nat]
    BY DEF Types, MadeTypes
  <2> HIDE DEF op
  <2> QED BY <1>1, <1>8, <1>9, <2>1
<1>11. MadeTypes'
  BY <1>1, <1>4, <1>7, <1>10 DEF MadeTypes
<1>12. op \in Told' /\ Told \subseteq Told'
  <2>1. new \in made' /\ new.op = op /\ \A m \in made : m \in made'
    BY <1>1
  <2> HIDE DEF new, op
  <2> QED BY <2>1 DEF Told
<1>13. Docs \subseteq Docs' /\ Seq(Told) \subseteq Seq(Told') /\ 0..Edits \subseteq 0..Edits'
  BY <1>4, <1>7, <1>8, <1>12 DEF Docs
<1>14. StudioRec \subseteq StudioRec' /\ OutRec \subseteq OutRec' /\ PollRec \subseteq PollRec'
  BY <1>13 DEF StudioRec, OutRec, PollRec
<1> QED BY <1>1, <1>5, <1>7, <1>8, <1>11, <1>12, <1>13, <1>14

\* A change at the end of the others.
LEMMA AppendIs ==
    ASSUME NEW T, NEW ops \in Seq(T), NEW op \in T
    PROVE  /\ Append(ops, op) \in Seq(T)
           /\ DOMAIN Append(ops, op) = 1..(Len(ops) + 1) /\ DOMAIN ops = 1..Len(ops) /\ Len(ops) \in Nat
           /\ Append(ops, op)[Len(ops) + 1] = op
           /\ \A j \in 1..Len(ops) : Append(ops, op)[j] = ops[j]
           /\ ToSet(Append(ops, op)) = ToSet(ops) \cup {op}
<1>1. /\ Append(ops, op) \in Seq(T)
      /\ DOMAIN Append(ops, op) = 1..(Len(ops) + 1) /\ DOMAIN ops = 1..Len(ops) /\ Len(ops) \in Nat
      /\ Append(ops, op)[Len(ops) + 1] = op
      /\ \A j \in 1..Len(ops) : Append(ops, op)[j] = ops[j]
  OBVIOUS
<1>2. 1..(Len(ops) + 1) = 1..Len(ops) \cup {Len(ops) + 1}
  BY <1>1
<1>3. ToSet(Append(ops, op)) = {Append(ops, op)[j] : j \in 1..Len(ops) \cup {Len(ops) + 1}}
  BY <1>1, <1>2 DEF ToSet
<1>4. ToSet(ops) = {ops[j] : j \in 1..Len(ops)}
  BY <1>1 DEF ToSet
<1>5. ToSet(Append(ops, op)) = ToSet(ops) \cup {op}
  BY <1>1, <1>3, <1>4
<1> QED BY <1>1, <1>5

LEMMA EditTypes ==
    ASSUME Types, NEW s \in Studio, NEW on \in SUBSET Register, Edit(s, on)
    PROVE  Types'
<1> DEFINE op == OpOf(s, on)
           mine == [studio[s] EXCEPT !.doc = ApplyOp(@, op), !.clock = @ + 1, !.pending = Append(@, op)]
<1>1. /\ Edits' = Edits + 1 /\ MadeTypes' /\ op \in Told' /\ Told \subseteq Told'
      /\ CellsUpTo(Edits) \subseteq CellsUpTo(Edits')
      /\ Docs \subseteq Docs' /\ Seq(Told) \subseteq Seq(Told')
      /\ StudioRec \subseteq StudioRec' /\ OutRec \subseteq OutRec' /\ PollRec \subseteq PollRec'
      /\ made' = made \cup {[op |-> op, epoch |-> Latest(1, {studio[s].epoch})]}
  BY EditMakes
<1>2. studio' = [studio EXCEPT ![s] = mine] /\ UNCHANGED <<server, recipe, out, poll, save, restarts, saves, faults>>
  BY DEF Edit, OpOf, Edits, StudioTypes, Types
<1>3. studio \in [Studio -> StudioRec] /\ studio[s] \in StudioRec
  BY DEF Types, StudioTypes
<1>4. mine \in StudioRec' /\ mine.clock = studio[s].clock + 1
  <2>1. studio[s].doc \in Docs' /\ studio[s].pending \in Seq(Told') /\ op \in OpsUpTo(Edits')
        /\ Edits' \in Nat /\ studio[s].clock \in 0..Edits /\ Edits \in Nat
    <3>1. Told' \subseteq OpsUpTo(Edits') /\ Edits' \in Nat
      <4>1. Edits \in Nat /\ Edits' = Edits + 1
        BY <1>1, ToldIs DEF Types
      <4>2. \A m \in made' : m.op \in OpsUpTo(Edits')
        BY <1>1 DEF MadeTypes
      <4> QED BY <4>1, <4>2 DEF Told
    <3>2. Edits \in Nat
      BY ToldIs DEF Types
    <3> HIDE DEF op
    <3> QED BY <1>1, <1>3, <3>1, <3>2 DEF StudioRec
  <2>2. ApplyOp(studio[s].doc, op) \in Docs'
    <3> HIDE DEF op
    <3>1. studio[s].doc \in [Register -> CellsUpTo(Edits')]
      BY <2>1 DEF Docs
    <3>2. PICK n \in Nat : n = Edits'
      BY <2>1
    <3>3. studio[s].doc \in [Register -> CellsUpTo(n)] /\ op \in OpsUpTo(n)
      BY <2>1, <3>1, <3>2
    <3>4. ApplyOp(studio[s].doc, op) \in [Register -> CellsUpTo(n)]
      BY ONLY <3>2, <3>3, ApplyOpIs
    <3> QED BY <3>2, <3>4 DEF Docs
  <2>3. Append(studio[s].pending, op) \in Seq(Told')
    <3> HIDE DEF op
    <3> QED BY <1>1, <2>1, AppendIs
  <2>4. studio[s].clock + 1 \in 0..Edits'
    BY <1>1, <2>1
  <2> HIDE DEF op
  <2> QED BY <1>3, <2>2, <2>3, <2>4 DEF StudioRec
<1>5. StudioTypes'
  <2> HIDE DEF mine
  <2> QED BY <1>1, <1>2, <1>3, <1>4 DEF StudioTypes
<1>6. Counted'
  <2>1. \A t \in Studio : studio'[t].clock >= studio[t].clock
    <3>1. studio[s].clock \in Int /\ \A t \in Studio : studio[t].clock \in Int
      BY <1>3 DEF StudioRec
    <3> HIDE DEF mine
    <3> QED BY <1>2, <1>3, <1>4, <3>1
  <2>2. studio'[s].clock = studio[s].clock + 1
    <3> HIDE DEF mine
    <3> QED BY <1>2, <1>3, <1>4
  <2>3. op.by = s /\ op.c = studio[s].clock + 1
    BY DEF OpOf
  <2>4. ASSUME NEW m \in made PROVE m.op.c <= studio'[m.op.by].clock
    <3>1. m.op.by \in Studio /\ m.op.c \in Int /\ m.op.c <= studio[m.op.by].clock
      BY ToldIs DEF Types, MadeTypes, Counted, OpsUpTo
    <3>2. studio[m.op.by].clock \in Int /\ studio'[m.op.by].clock \in Int
      BY <1>1, <1>3, <1>5, <3>1 DEF StudioTypes, StudioRec
    <3> QED BY <2>1, <3>1, <3>2
  <2>5. op.c <= studio'[op.by].clock
    <3>1. studio[s].clock \in Int
      BY <1>3 DEF StudioRec
    <3> QED BY <2>2, <2>3, <3>1
  <2> HIDE DEF op
  <2> QED BY <1>1, <2>4, <2>5 DEF Counted
<1>7. ServerTypes' /\ RecipeTypes' /\ OutTypes' /\ PollTypes' /\ SaveTypes' /\ BoundTypes'
  <2>1. ServerTypes /\ RecipeTypes /\ OutTypes /\ PollTypes /\ SaveTypes /\ BoundTypes
    BY DEF Types
  <2>2. ServerTypes'
    BY <1>1, <1>2, <2>1 DEF ServerTypes, server
  <2>3. RecipeTypes' /\ SaveTypes' /\ BoundTypes'
    BY <1>2, <2>1 DEF RecipeTypes, SaveTypes, BoundTypes
  <2>4. OutTypes'
    BY <1>1, <1>2, <2>1 DEF OutTypes
  <2>5. PollTypes'
    BY <1>1, <1>2, <2>1 DEF PollTypes
  <2> QED BY <2>2, <2>3, <2>4, <2>5
<1> QED BY <1>1, <1>5, <1>6, <1>7 DEF Types

\* A part of the state that a step leaves alone keeps its type.
LEMMA RestTypes ==
    ASSUME Types, made' = made
    PROVE  /\ MadeTypes'
           /\ UNCHANGED server => ServerTypes'
           /\ UNCHANGED recipe => RecipeTypes'
           /\ UNCHANGED studio => StudioTypes' /\ Counted'
           /\ UNCHANGED out => OutTypes'
           /\ UNCHANGED poll => PollTypes'
           /\ UNCHANGED save => SaveTypes'
           /\ UNCHANGED <<restarts, saves, faults>> => BoundTypes'
<1> USE DEF Types
<1>1. MadeTypes'
  BY SameTypes DEF MadeTypes
<1>2. UNCHANGED server => ServerTypes'
  BY SameTypes DEF ServerTypes, server
<1>3. UNCHANGED recipe => RecipeTypes'
  BY DEF RecipeTypes
<1>4. UNCHANGED studio => StudioTypes' /\ Counted'
  BY SameTypes DEF StudioTypes, Counted
<1>5. UNCHANGED out => OutTypes'
  BY SameTypes DEF OutTypes
<1>6. UNCHANGED poll => PollTypes'
  BY SameTypes DEF PollTypes
<1>7. UNCHANGED save => SaveTypes'
  BY DEF SaveTypes
<1>8. UNCHANGED <<restarts, saves, faults>> => BoundTypes'
  BY DEF BoundTypes
<1> QED BY <1>1, <1>2, <1>3, <1>4, <1>5, <1>6, <1>7, <1>8

LEMMA PutStudio ==
    ASSUME Types, made' = made, NEW s \in Studio, NEW x \in StudioRec, x.clock >= studio[s].clock,
           studio' = [studio EXCEPT ![s] = x]
    PROVE  StudioTypes' /\ Counted'
<1>1. studio \in [Studio -> StudioRec]
  BY DEF Types, StudioTypes
<1>2. studio' \in [Studio -> StudioRec]
  BY <1>1
<1>3. StudioTypes'
  BY <1>2, SameTypes DEF StudioTypes
<1>4. ASSUME NEW m \in made PROVE m.op.c <= studio'[m.op.by].clock
  <2>1. m.op.by \in Studio /\ m.op.c \in Int /\ m.op.c <= studio[m.op.by].clock
    BY ToldIs DEF Types, MadeTypes, Counted, OpsUpTo
  <2>2. studio[m.op.by].clock \in Int /\ studio'[m.op.by].clock \in Int
    BY <1>1, <1>2, <2>1 DEF StudioRec
  <2>3. studio'[m.op.by].clock >= studio[m.op.by].clock
    BY <1>1, <2>1, <2>2
  <2> QED BY <2>1, <2>2, <2>3
<1>5. Counted'
  BY <1>4 DEF Counted
<1> QED BY <1>3, <1>5

LEMMA PutOut ==
    ASSUME Types, made' = made, NEW s \in Studio, NEW x \in OutRec, out' = [out EXCEPT ![s] = x]
    PROVE  OutTypes'
BY SameTypes DEF Types, OutTypes

LEMMA PutPoll ==
    ASSUME Types, made' = made, NEW s \in Studio, NEW i \in 0..Asks, NEW x \in {Quiet} \cup PollRec,
           poll' = [poll EXCEPT ![s][i] = x]
    PROVE  PollTypes'
<1>1. poll \in [Studio -> [0..Asks -> {Quiet} \cup PollRec]]
  BY DEF Types, PollTypes
<1>2. poll' \in [Studio -> [0..Asks -> {Quiet} \cup PollRec]]
  BY <1>1
<1> QED BY <1>2, SameTypes DEF PollTypes

LEMMA PutSave ==
    ASSUME Types, NEW q \in Saver, NEW x \in {Idle} \cup AskedRec \cup ReadRec,
           save' = [save EXCEPT ![q] = x]
    PROVE  SaveTypes'
BY DEF Types, SaveTypes

LEMMA FieldsAre ==
    ASSUME Types
    PROVE  /\ \A s \in Studio : studio[s] \in StudioRec /\ out[s] \in OutRec
           /\ \A s \in Studio, i \in 0..Asks :
                poll[s][i] \in {Quiet} \cup PollRec /\ (poll[s][i].at # "none" => poll[s][i] \in PollRec)
           /\ \A q \in Saver :
                /\ save[q] \in {Idle} \cup AskedRec \cup ReadRec
                /\ save[q].at = "asked" => save[q] \in AskedRec
                /\ save[q].at = "read" => save[q] \in ReadRec
           /\ shared.epoch \in Nat \ {0} /\ shared.seq \in Nat /\ shared.doc \in Docs
           /\ recipe.revision \in Nat \ {0} /\ recipe.saved \in [Register -> Value]
           /\ Edits \in Nat
<1>1. \A s \in Studio : studio[s] \in StudioRec /\ out[s] \in OutRec
  BY DEF Types, StudioTypes, OutTypes
<1>2. \A s \in Studio, i \in 0..Asks :
         poll[s][i] \in {Quiet} \cup PollRec /\ (poll[s][i].at # "none" => poll[s][i] \in PollRec)
  <2>1. ASSUME NEW s \in Studio, NEW i \in 0..Asks PROVE poll[s][i] \in {Quiet} \cup PollRec
    BY DEF Types, PollTypes
  <2>2. Quiet.at = "none"
    BY DEF Quiet
  <2> QED BY <2>1, <2>2
<1>3. \A q \in Saver :
                /\ save[q] \in {Idle} \cup AskedRec \cup ReadRec
                /\ save[q].at = "asked" => save[q] \in AskedRec
                /\ save[q].at = "read" => save[q] \in ReadRec
  <2>1. ASSUME NEW q \in Saver PROVE save[q] \in {Idle} \cup AskedRec \cup ReadRec
    BY DEF Types, SaveTypes
  <2>2. Idle.at = "idle" /\ (\A x \in AskedRec : x.at = "asked") /\ (\A x \in ReadRec : x.at = "read")
    BY DEF Idle, AskedRec, ReadRec
  <2> QED BY <2>1, <2>2
<1>4. /\ shared.epoch \in Nat \ {0} /\ shared.seq \in Nat /\ shared.doc \in Docs
      /\ recipe.revision \in Nat \ {0} /\ recipe.saved \in [Register -> Value]
  BY DEF Types, ServerTypes, RecipeTypes
<1> QED BY <1>1, <1>2, <1>3, <1>4, ToldIs DEF Types

\* One send after another.
LEMMA JoinIs ==
    ASSUME NEW T, NEW a \in Seq(T), NEW b \in Seq(T)
    PROVE  /\ a \o b \in Seq(T)
           /\ ToSet(a \o b) = ToSet(a) \cup ToSet(b)
           /\ \A j \in DOMAIN (a \o b) : (\E k \in DOMAIN a : (a \o b)[j] = a[k])
                                         \/ (\E k \in DOMAIN b : (a \o b)[j] = b[k])
<1>1. /\ a \o b \in Seq(T)
      /\ Len(a) \in Nat /\ Len(b) \in Nat /\ DOMAIN a = 1..Len(a) /\ DOMAIN b = 1..Len(b)
      /\ DOMAIN (a \o b) = 1..(Len(a) + Len(b))
      /\ \A j \in 1..Len(a) : (a \o b)[j] = a[j]
      /\ \A k \in 1..Len(b) : Len(a) + k \in 1..(Len(a) + Len(b)) /\ (a \o b)[Len(a) + k] = b[k]
      /\ \A j \in 1..(Len(a) + Len(b)) : j \notin 1..Len(a) => j - Len(a) \in 1..Len(b) /\ (a \o b)[j] = b[j - Len(a)]
  OBVIOUS
<1>2. 1..Len(a) \subseteq 1..(Len(a) + Len(b))
  BY <1>1
<1>3. \A j \in DOMAIN (a \o b) : (\E k \in DOMAIN a : (a \o b)[j] = a[k])
                                 \/ (\E k \in DOMAIN b : (a \o b)[j] = b[k])
  BY <1>1
<1>4. ToSet(a \o b) \subseteq ToSet(a) \cup ToSet(b)
  BY <1>3 DEF ToSet
<1>5. \A k \in DOMAIN a : \E j \in DOMAIN (a \o b) : (a \o b)[j] = a[k]
  BY <1>1, <1>2
<1>6. \A k \in DOMAIN b : \E j \in DOMAIN (a \o b) : (a \o b)[j] = b[k]
  BY <1>1
<1>7. ToSet(a) \cup ToSet(b) \subseteq ToSet(a \o b)
  BY <1>5, <1>6 DEF ToSet
<1> QED BY <1>1, <1>3, <1>4, <1>7

LEMMA SendTypes ==
    ASSUME Types, NEW s \in Studio, Send(s)
    PROVE  Types'
<1> DEFINE mine == [studio[s] EXCEPT !.pending = <<>>]
           sent == [at |-> "sent", ops |-> studio[s].pending, epoch |-> studio[s].epoch]
<1>1. made' = made /\ UNCHANGED <<server, recipe, poll, save, restarts, saves, faults>>
      /\ studio' = [studio EXCEPT ![s] = mine] /\ out' = [out EXCEPT ![s] = sent]
  BY DEF Send
<1>2. mine \in StudioRec /\ mine.clock >= studio[s].clock /\ sent \in OutRec
  <2>1. studio[s] \in StudioRec /\ studio[s].clock \in Int
    BY FieldsAre DEF StudioRec
  <2>2. <<>> \in Seq(Told)
    OBVIOUS
  <2>3. mine \in StudioRec
    BY <2>1, <2>2 DEF StudioRec
  <2>4. mine.clock = studio[s].clock
    BY <2>1 DEF StudioRec
  <2>5. sent \in OutRec
    BY <2>1 DEF StudioRec, OutRec
  <2> QED BY <2>1, <2>3, <2>4, <2>5
<1> HIDE DEF mine, sent
<1>3. StudioTypes' /\ Counted'
  BY <1>1, <1>2, PutStudio
<1>4. OutTypes'
  BY <1>1, <1>2, PutOut
<1> QED BY <1>1, <1>3, <1>4, RestTypes DEF Types

\* The merge at the server.
LEMMA MergeTypes ==
    ASSUME Types, made' = made, NEW s \in Studio, MergeAtServer(s)
    PROVE  ServerTypes' /\ OutTypes'
<1>1. out[s] \in OutRec /\ shared \in [epoch : Nat \ {0}, seq : Nat, doc : Docs]
  BY FieldsAre DEF Types, ServerTypes
<1>2. out[s].ops \in Seq(Told) /\ Unsent \in OutRec /\ shared.doc \in Docs /\ shared.seq \in Nat
  BY <1>1 DEF OutRec, Unsent
<1>3. ApplyOps(shared.doc, out[s].ops) \in Docs
  BY <1>2, MergeIs DEF Types
<1>4. shared' \in [epoch : Nat \ {0}, seq : Nat, doc : Docs] /\ shared'.seq = shared.seq + 1
  <2>1. shared' = [shared EXCEPT !.doc = ApplyOps(shared.doc, out[s].ops), !.seq = shared.seq + 1]
    BY DEF MergeAtServer
  <2>2. shared.seq + 1 \in Nat
    BY <1>2
  <2> QED BY <1>1, <1>3, <2>1, <2>2
<1>5. \A b \in batches : b.seq \in 1..shared.seq /\ b.ops \in Seq(Told)
  BY DEF Types, ServerTypes
<1>6. ASSUME NEW b \in batches' PROVE b.seq \in 1..shared'.seq /\ b.ops \in Seq(Told)
  <2>1. b \in batches \/ b = [seq |-> shared.seq + 1, ops |-> out[s].ops]
    BY <1>6 DEF MergeAtServer
  <2> QED BY <1>2, <1>4, <1>5, <2>1
<1>7. OutTypes'
  BY <1>2, PutOut DEF MergeAtServer
<1> QED BY <1>4, <1>6, <1>7, SameTypes DEF ServerTypes

LEMMA PushTypes ==
    ASSUME Types, NEW s \in Studio, Push(s)
    PROVE  Types'
BY MergeTypes, RestTypes DEF Push, Types

LEMMA RefuseTypes ==
    ASSUME Types, NEW s \in Studio, Refuse(s)
    PROVE  Types'
<1> DEFINE x == [out[s] EXCEPT !.at = "refused"]
<1>1. made' = made /\ UNCHANGED <<server, recipe, studio, poll, save, restarts, saves, faults>>
      /\ out' = [out EXCEPT ![s] = x]
  BY DEF Refuse
<1>2. x \in OutRec
  BY FieldsAre DEF OutRec
<1> HIDE DEF x
<1>3. OutTypes'
  BY <1>1, <1>2, PutOut
<1> QED BY <1>1, <1>3, RestTypes DEF Types

\* What goes again is a Studio's.
LEMMA ResentTypes ==
    ASSUME Types, made' = made, NEW s \in Studio,
           studio' = [studio EXCEPT ![s].pending = Resent(out[s].ops, @)]
    PROVE  StudioTypes' /\ Counted'
<1> DEFINE mine == [studio[s] EXCEPT !.pending = Resent(out[s].ops, @)]
<1>1. studio' = [studio EXCEPT ![s] = mine]
  OBVIOUS
<1>2. studio[s] \in StudioRec /\ studio[s].clock \in Int /\ out[s].ops \in Seq(Told)
      /\ studio[s].pending \in Seq(Told)
  BY FieldsAre DEF StudioRec, OutRec
<1>3. Resent(out[s].ops, studio[s].pending) \in Seq(Told)
  BY <1>2, JoinIs DEF Resent
<1>4. mine \in StudioRec
  BY <1>2, <1>3 DEF StudioRec
<1>5. mine.clock >= studio[s].clock
  <2>1. mine.clock = studio[s].clock
    BY <1>2 DEF StudioRec
  <2> QED BY <1>2, <2>1
<1> HIDE DEF mine
<1> QED BY <1>1, <1>4, <1>5, PutStudio

LEMMA FaultCounts ==
    ASSUME Types, faults < MaxFaults, faults' = faults + 1, UNCHANGED <<restarts, saves>>
    PROVE  BoundTypes'
<1>1. MaxFaults \in Nat /\ faults \in 0..MaxFaults
  BY CoEditAssumption DEF Types, BoundTypes
<1> QED BY <1>1 DEF Types, BoundTypes

LEMMA NotDeliveredTypes ==
    ASSUME Types, NEW s \in Studio, NotDelivered(s)
    PROVE  Types'
<1>1. made' = made /\ UNCHANGED <<server, recipe, poll, save, restarts, saves>>
      /\ out' = [out EXCEPT ![s] = Unsent]
  BY DEF NotDelivered
<1>2. StudioTypes' /\ Counted'
  BY <1>1, ResentTypes DEF NotDelivered
<1>3. OutTypes'
  <2>1. Unsent \in OutRec
    BY DEF OutRec, Unsent
  <2> QED BY <1>1, <2>1, PutOut
<1>4. BoundTypes'
  BY <1>1, FaultCounts DEF NotDelivered
<1> QED BY <1>1, <1>2, <1>3, <1>4, RestTypes DEF Types

LEMMA NotAnsweredTypes ==
    ASSUME Types, NEW s \in Studio, NotAnswered(s)
    PROVE  Types'
<1>1. made' = made /\ UNCHANGED <<recipe, poll, save, restarts, saves>>
  BY DEF NotAnswered
<1>2. StudioTypes' /\ Counted'
  BY <1>1, ResentTypes DEF NotAnswered
<1>3. ServerTypes' /\ OutTypes'
  BY <1>1, MergeTypes DEF NotAnswered
<1>4. BoundTypes'
  BY <1>1, FaultCounts DEF NotAnswered
<1> QED BY <1>1, <1>2, <1>3, <1>4, RestTypes DEF Types

\* What the server reads of the copy for a poll.
AskedFor(s, named) ==
    [at |-> IF named = shared.epoch THEN "copy" ELSE "ready",
     full |-> named # shared.epoch,
     epoch |-> shared.epoch, seq |-> shared.seq, doc |-> shared.doc,
     ops |-> <<>>, after |-> studio[s].seq,
     revision |-> IF studio[s].revision = recipe.revision THEN 0 ELSE recipe.revision]

LEMMA AskTypes ==
    ASSUME Types, made' = made, NEW s \in Studio, NEW i \in 0..Asks, NEW named, Ask(s, i, named)
    PROVE  PollTypes' /\ AskedFor(s, named) \in PollRec
<1>1. poll' = [poll EXCEPT ![s][i] = AskedFor(s, named)]
  BY DEF Ask, AskedFor
<1>2. AskedFor(s, named) \in PollRec
  <2>1. studio[s].seq \in Nat
    BY FieldsAre DEF StudioRec
  <2>2. <<>> \in Seq(Told)
    OBVIOUS
  <2> QED BY <2>1, <2>2, FieldsAre DEF AskedFor, PollRec
<1>3. AskedFor(s, named) \in {Quiet} \cup PollRec
  BY <1>2
<1> QED BY <1>1, <1>2, <1>3, PutPoll

LEMMA AskRegularlyTypes ==
    ASSUME Types, NEW s \in Studio, NEW i \in 0..Asks, AskRegularly(s, i)
    PROVE  Types'
<1>1. made' = made /\ UNCHANGED <<server, recipe, studio, out, save, restarts, saves, faults>>
  BY DEF AskRegularly
<1>2. PollTypes'
  BY <1>1, AskTypes DEF AskRegularly
<1> QED BY <1>1, <1>2, RestTypes DEF Types

LEMMA ZeroIsAPoll == 0 \in 0..Asks
<1>1. Asks \in Nat
  BY CoEditAssumption
<1> QED BY <1>1

LEMMA AskAfterRefusalTypes ==
    ASSUME Types, NEW s \in Studio, AskAfterRefusal(s)
    PROVE  Types'
<1>1. made' = made /\ UNCHANGED <<server, recipe, studio, save, restarts, saves, faults>>
  BY DEF AskAfterRefusal
<1>2. PollTypes'
  BY <1>1, ZeroIsAPoll, AskTypes DEF AskAfterRefusal
<1>3. OutTypes'
  <2>1. [Unsent EXCEPT !.at = "asking"] \in OutRec
    <3>1. Unsent \in [at : {"none", "asking"}, ops : Seq(Told), epoch : Nat]
      BY DEF Unsent
    <3>2. [Unsent EXCEPT !.at = "asking"] \in [at : {"none", "asking"}, ops : Seq(Told), epoch : Nat]
      BY <3>1
    <3> QED BY <3>2 DEF OutRec
  <2>2. out' = [out EXCEPT ![s] = [Unsent EXCEPT !.at = "asking"]]
    BY DEF AskAfterRefusal
  <2> QED BY <1>1, <2>1, <2>2, PutOut
<1> QED BY <1>1, <1>2, <1>3, RestTypes DEF Types

LEMMA OpsAfterTyped ==
    ASSUME Types, NEW seq \in Nat
    PROVE  OpsAfter(seq) \in Seq(Told)
<1>1. shared.seq \in Nat /\ \A b \in batches : b.ops \in Seq(Told)
  BY FieldsAre DEF Types, ServerTypes
<1> QED BY <1>1, OpsAfterIs

\* The three replies there are.
LEMMA ReplyIs ==
    ASSUME Types, NEW p \in PollRec
    PROVE  /\ Reply(p) \in {Quiet} \cup PollRec
           /\ \/ NotKept(p) /\ Reply(p) = [p EXCEPT !.at = "ready", !.full = TRUE, !.after = 0]
              \/ Reply(p) = Quiet
              \/ /\ ~ NotKept(p)
                 /\ Reply(p) = [p EXCEPT !.at = "ready", !.doc = Seed(Blank), !.after = 0, !.ops = OpsAfter(p.after)]
<1>1. [p EXCEPT !.at = "ready", !.full = TRUE, !.after = 0] \in PollRec
  BY DEF PollRec
<1>2. [p EXCEPT !.at = "ready", !.doc = Seed(Blank), !.after = 0, !.ops = OpsAfter(p.after)] \in PollRec
  <2>1. p.after \in Nat
    BY DEF PollRec
  <2>2. OpsAfter(p.after) \in Seq(Told)
    BY <2>1, OpsAfterTyped
  <2>3. Seed(Blank) \in Docs
    BY BlankIs, SeedIs, FieldsAre DEF Docs
  <2> QED BY <2>2, <2>3 DEF PollRec
<1>3. \/ NotKept(p) /\ Reply(p) = [p EXCEPT !.at = "ready", !.full = TRUE, !.after = 0]
      \/ Reply(p) = Quiet
      \/ /\ ~ NotKept(p)
         /\ Reply(p) = [p EXCEPT !.at = "ready", !.doc = Seed(Blank), !.after = 0, !.ops = OpsAfter(p.after)]
  BY DEF Reply
<1> QED BY <1>1, <1>2, <1>3

LEMMA ReadBatchesTypes ==
    ASSUME Types, NEW s \in Studio, NEW i \in 0..Asks, ReadBatches(s, i)
    PROVE  Types'
<1>1. made' = made /\ UNCHANGED <<server, recipe, studio, out, save, restarts, saves, faults>>
      /\ poll' = [poll EXCEPT ![s][i] = Reply(poll[s][i])]
  BY DEF ReadBatches, Types, PollTypes
<1>2. poll[s][i] \in PollRec
  BY FieldsAre DEF ReadBatches
<1>3. Reply(poll[s][i]) \in {Quiet} \cup PollRec
  BY <1>2, ReplyIs
<1>4. PollTypes'
  BY <1>1, <1>3, PutPoll
<1> QED BY <1>1, <1>4, RestTypes DEF Types

\* What a Studio is after it adopted a reply.
Adopted(s, p) ==
    [doc |-> IF p.full THEN p.doc ELSE ApplyOps(ApplyOps(studio[s].doc, p.ops), studio[s].pending),
     pending |-> IF p.full THEN <<>> ELSE studio[s].pending,
     epoch |-> p.epoch,
     seq |-> p.seq,
     clock |-> Latest(studio[s].clock, Observed(p)),
     revision |-> IF p.revision # 0 THEN p.revision ELSE studio[s].revision]

LEMMA AdoptedIs ==
    ASSUME Types, NEW s \in Studio, NEW p \in PollRec
    PROVE  /\ Adopted(s, p) \in StudioRec /\ Adopted(s, p).clock >= studio[s].clock
           /\ \A c \in Observed(p) : c <= Adopted(s, p).clock
<1>1. /\ studio[s].doc \in Docs /\ studio[s].pending \in Seq(Told) /\ studio[s].clock \in 0..Edits
      /\ studio[s].revision \in Nat \ {0} /\ Edits \in Nat
  BY FieldsAre DEF StudioRec
<1>2. /\ p.doc \in Docs /\ p.ops \in Seq(Told) /\ p.epoch \in Nat /\ p.seq \in Nat /\ p.revision \in Nat
      /\ p.full \in BOOLEAN
  BY DEF PollRec
<1>3. ApplyOps(studio[s].doc, p.ops) \in Docs
  BY <1>1, <1>2, MergeIs DEF Types
<1>4. ApplyOps(ApplyOps(studio[s].doc, p.ops), studio[s].pending) \in Docs
  BY <1>1, <1>3, MergeIs DEF Types
<1>5. Observed(p) \subseteq 0..Edits
  BY ObservedIs DEF Types
<1>6. /\ Latest(studio[s].clock, Observed(p)) \in 0..Edits
      /\ studio[s].clock <= Latest(studio[s].clock, Observed(p))
      /\ \A c \in Observed(p) : c <= Latest(studio[s].clock, Observed(p))
  BY <1>1, <1>5, LatestIs
<1>7. <<>> \in Seq(Told)
  OBVIOUS
<1>8. Adopted(s, p) \in StudioRec
  BY <1>1, <1>2, <1>4, <1>6, <1>7 DEF Adopted, StudioRec
<1>9. Adopted(s, p).clock = Latest(studio[s].clock, Observed(p))
  BY DEF Adopted
<1> QED BY <1>1, <1>6, <1>8, <1>9

LEMMA AfterPollTypes ==
    ASSUME Types, made' = made, NEW s \in Studio, NEW i \in 0..Asks, out' = AfterPoll(s, i)
    PROVE  OutTypes'
<1>1. Unsent \in OutRec
  BY DEF OutRec, Unsent
<1>2. CASE i = 0
  <2>1. out' = [out EXCEPT ![s] = Unsent]
    BY <1>2 DEF AfterPoll
  <2> QED BY <1>1, <2>1, PutOut
<1>3. CASE i # 0
  <2>1. out' = out
    BY <1>3 DEF AfterPoll
  <2> QED BY <2>1, RestTypes
<1> QED BY <1>2, <1>3

LEMMA AdoptTypes ==
    ASSUME Types, NEW s \in Studio, NEW i \in 0..Asks, Adopt(s, i)
    PROVE  Types'
<1>1. /\ made' = made /\ UNCHANGED <<server, recipe, save, restarts, saves, faults>>
      /\ studio' = [studio EXCEPT ![s] = Adopted(s, poll[s][i])]
      /\ poll' = [poll EXCEPT ![s][i] = Quiet] /\ out' = AfterPoll(s, i)
  BY DEF Adopt, Adopted
<1>2. poll[s][i] \in PollRec
  BY FieldsAre DEF Adopt
<1>3. StudioTypes' /\ Counted'
  <2>1. Adopted(s, poll[s][i]) \in StudioRec /\ Adopted(s, poll[s][i]).clock >= studio[s].clock
    BY <1>2, AdoptedIs
  <2> QED BY <1>1, <2>1, PutStudio
<1>4. PollTypes'
  <2>1. Quiet \in {Quiet} \cup PollRec
    OBVIOUS
  <2> QED BY <1>1, <2>1, PutPoll
<1>5. OutTypes'
  BY <1>1, AfterPollTypes
<1> QED BY <1>1, <1>3, <1>4, <1>5, RestTypes DEF Types

LEMMA PollFailsTypes ==
    ASSUME Types, NEW s \in Studio, NEW i \in 0..Asks, PollFails(s, i)
    PROVE  Types'
<1>1. /\ made' = made /\ UNCHANGED <<server, recipe, studio, save, restarts, saves>>
      /\ poll' = [poll EXCEPT ![s][i] = Quiet] /\ out' = AfterPoll(s, i)
  BY DEF PollFails
<1>2. PollTypes'
  <2>1. Quiet \in {Quiet} \cup PollRec
    OBVIOUS
  <2> QED BY <1>1, <2>1, PutPoll
<1>3. OutTypes'
  BY <1>1, AfterPollTypes
<1>4. BoundTypes'
  <2>1. CASE faults' = faults
    BY <1>1, <2>1, RestTypes
  <2>2. CASE faults' # faults
    <3>1. faults < MaxFaults /\ faults' = faults + 1
      BY <2>2 DEF PollFails
    <3> QED BY <1>1, <3>1, FaultCounts
  <2> QED BY <2>1, <2>2
<1> QED BY <1>1, <1>2, <1>3, <1>4, RestTypes DEF Types

LEMMA SaveAskTypes ==
    ASSUME Types, NEW q \in Saver, NEW s \in Studio, SaveAsk(q, s)
    PROVE  Types'
<1> DEFINE x == [at |-> "asked", by |-> s, new |-> Materialise(studio[s].doc),
                 from |-> studio[s].epoch, expected |-> studio[s].revision]
<1>1. /\ made' = made /\ UNCHANGED <<server, recipe, studio, out, poll, restarts, faults>>
      /\ save' = [save EXCEPT ![q] = x] /\ saves < MaxSaves /\ saves' = saves + 1
  BY DEF SaveAsk, browser
<1>2. x \in AskedRec
  <2>1. studio[s].doc \in [Register -> CellsUpTo(Edits)] /\ studio[s].epoch \in Nat /\ studio[s].revision \in Nat
    BY FieldsAre DEF StudioRec, Docs
  <2>2. Materialise(studio[s].doc) \in [Register -> Value]
    BY <2>1 DEF Materialise, CellsUpTo
  <2> QED BY <2>1, <2>2 DEF AskedRec
<1> HIDE DEF x
<1>3. SaveTypes'
  BY <1>1, <1>2, PutSave
<1>4. BoundTypes'
  <2>1. MaxSaves \in Nat
    BY CoEditAssumption
  <2> QED BY <1>1, <2>1 DEF Types, BoundTypes
<1> QED BY <1>1, <1>3, <1>4, RestTypes DEF Types

LEMMA SaveRefusedTypes ==
    ASSUME Types, NEW q \in Saver, SaveRefused(q)
    PROVE  Types'
<1>1. /\ made' = made /\ UNCHANGED <<server, recipe, studio, out, poll, restarts, saves, faults>>
      /\ save' = [save EXCEPT ![q] = Idle]
  BY DEF SaveRefused, browser
<1>2. SaveTypes'
  BY <1>1, PutSave
<1> QED BY <1>1, <1>2, RestTypes DEF Types

LEMMA ReadingIs ==
    ASSUME Types, NEW by \in Studio \cup {0}, NEW new \in [Register -> Value], NEW from, NEW expected \in Nat
    PROVE  Reading(by, new, from, expected) \in ReadRec
BY FieldsAre DEF Reading, ReadRec

LEMMA SaveReadTypes ==
    ASSUME Types, NEW q \in Saver, SaveRead(q)
    PROVE  Types'
<1> DEFINE a == save[q]
<1>1. /\ made' = made /\ UNCHANGED <<server, recipe, studio, out, poll, restarts, saves, faults>>
      /\ save' = [save EXCEPT ![q] = Reading(a.by, a.new, a.from, a.expected)]
  BY DEF SaveRead, browser, Types, SaveTypes
<1>2. a \in AskedRec
  BY FieldsAre DEF SaveRead
<1>3. Reading(a.by, a.new, a.from, a.expected) \in ReadRec
  <2>1. a.by \in Studio \cup {0} /\ a.new \in [Register -> Value] /\ a.expected \in Nat
    BY <1>2 DEF AskedRec
  <2> HIDE DEF a
  <2> QED BY <2>1, ReadingIs
<1>4. SaveTypes'
  BY <1>1, <1>3, PutSave
<1> QED BY <1>1, <1>4, RestTypes DEF Types

LEMMA ChangeOutsideTypes ==
    ASSUME Types, NEW q \in Saver, NEW r \in Register, ChangeOutside(q, r)
    PROVE  Types'
<1> DEFINE new == [recipe.saved EXCEPT ![r] = MaxEdits + restarts + 1]
<1>1. /\ made' = made /\ UNCHANGED <<server, recipe, studio, out, poll, saves, faults>>
      /\ save' = [save EXCEPT ![q] = Reading(0, new, 0, 0)]
      /\ restarts < MaxRestarts /\ restarts' = restarts + 1
  BY DEF ChangeOutside, browser
<1>2. MaxEdits \in Nat /\ MaxRestarts \in Nat /\ restarts \in 0..MaxRestarts
  BY CoEditAssumption DEF Types, BoundTypes
<1>3. new \in [Register -> Value]
  <2>1. MaxEdits + restarts + 1 \in Value
    BY <1>1, <1>2 DEF Value
  <2> QED BY <2>1, FieldsAre
<1> HIDE DEF new
<1>4. Reading(0, new, 0, 0) \in ReadRec
  BY <1>3, ReadingIs
<1>5. SaveTypes'
  BY <1>1, <1>4, PutSave
<1>6. BoundTypes'
  BY <1>1, <1>2 DEF Types, BoundTypes
<1> QED BY <1>1, <1>5, <1>6, RestTypes DEF Types

LEMMA SaveWriteTypes ==
    ASSUME Types, NEW q \in Saver, SaveWrite(q)
    PROVE  Types'
<1> DEFINE r == save[q]
           changed == r.new # recipe.saved
<1>1. /\ made' = made /\ UNCHANGED <<out, poll, restarts, saves, faults>>
      /\ save' = [save EXCEPT ![q] = Idle]
      /\ recipe' = IF changed THEN [revision |-> r.revision + 1, saved |-> r.new] ELSE recipe
      /\ shared' = IF changed THEN CopyAfter(q) ELSE shared
      /\ batches' = IF changed THEN BatchesAfter(q) ELSE batches
      /\ studio' = IF r.by = 0 THEN studio
                   ELSE [studio EXCEPT ![r.by].revision = recipe'.revision]
  BY DEF SaveWrite
<1>2. r \in ReadRec
  BY FieldsAre DEF SaveWrite
<1>3. /\ r.new \in [Register -> Value] /\ r.revision \in Nat /\ r.epoch \in Nat /\ r.by \in Studio \cup {0}
      /\ r.seq \in Nat
  BY <1>2 DEF ReadRec
<1>4. shared \in [epoch : Nat \ {0}, seq : Nat, doc : Docs] /\ recipe \in [revision : Nat \ {0}, saved : [Register -> Value]]
  BY DEF Types, ServerTypes, RecipeTypes
<1>5. recipe' \in [revision : Nat \ {0}, saved : [Register -> Value]]
  <2>1. r.revision + 1 \in Nat \ {0}
    BY <1>3
  <2> HIDE DEF r
  <2> QED BY <1>1, <1>3, <1>4, <2>1
<1>6. CopyAfter(q) \in [epoch : Nat \ {0}, seq : Nat, doc : Docs] /\ CopyAfter(q).seq = shared.seq
  <2>1. r.epoch + 1 \in Nat \ {0}
    BY <1>3
  <2>2. Seed(r.new) \in Docs
    BY <1>3, SeedIs, FieldsAre DEF Docs
  <2>3. CopyAfter(q) = IF r.keeps THEN shared ELSE [shared EXCEPT !.epoch = r.epoch + 1, !.doc = Seed(r.new)]
    BY DEF CopyAfter
  <2> HIDE DEF r
  <2> QED BY <1>4, <2>1, <2>2, <2>3
<1>7. ServerTypes'
  <2>1. shared' \in [epoch : Nat \ {0}, seq : Nat, doc : Docs] /\ shared'.seq = shared.seq
    BY <1>1, <1>4, <1>6
  <2>2. batches' \subseteq batches
    BY <1>1 DEF BatchesAfter
  <2> QED BY <1>1, <2>1, <2>2, SameTypes DEF Types, ServerTypes
<1>8. StudioTypes' /\ Counted'
  <2>1. CASE r.by = 0
    BY <1>1, <2>1, RestTypes
  <2>2. CASE r.by # 0
    <3> DEFINE x == [studio[r.by] EXCEPT !.revision = recipe'.revision]
    <3>1. r.by \in Studio /\ studio' = [studio EXCEPT ![r.by] = x]
      BY <1>1, <1>3, <2>2
    <3>2. studio[r.by] \in StudioRec /\ recipe'.revision \in Nat \ {0}
      BY <1>5, <3>1, FieldsAre
    <3>3. x \in StudioRec
      BY <3>2 DEF StudioRec
    <3>4. x.clock = studio[r.by].clock /\ studio[r.by].clock \in Int
      BY <3>2 DEF StudioRec
    <3>5. x.clock >= studio[r.by].clock
      BY <3>4
    <3> HIDE DEF x, r
    <3>6. studio' \in [Studio -> StudioRec]
      BY <3>1, <3>3 DEF Types, StudioTypes
    <3>7. StudioTypes'
      BY <1>1, <3>6, SameTypes DEF StudioTypes
    <3>8. \A t \in Studio : studio'[t].clock = studio[t].clock
      BY <3>1, <3>4 DEF Types, StudioTypes
    <3>9. \A m \in made : m.op.by \in Studio
      BY DEF Types, MadeTypes, OpsUpTo
    <3> QED BY <1>1, <3>7, <3>8, <3>9 DEF Types, Counted
  <2> QED BY <2>1, <2>2
<1>9. SaveTypes'
  BY <1>1, PutSave
<1>10. RecipeTypes'
  BY <1>5 DEF RecipeTypes
<1> QED BY <1>1, <1>7, <1>8, <1>9, <1>10, RestTypes DEF Types

LEMMA DiscardTypes ==
    ASSUME Types, DiscardUnsaved
    PROVE  Types'
<1>1. /\ made' = made /\ UNCHANGED <<recipe, studio, out, poll, save, saves, faults>>
      /\ restarts < MaxRestarts /\ restarts' = restarts + 1 /\ batches' = {}
      /\ shared' = [shared EXCEPT !.epoch = shared.epoch + 1, !.doc = Seed(recipe.saved)]
  BY DEF DiscardUnsaved, browser
<1>2. shared \in [epoch : Nat \ {0}, seq : Nat, doc : Docs]
  BY DEF Types, ServerTypes
<1>3. Seed(recipe.saved) \in Docs /\ shared.epoch + 1 \in Nat \ {0}
  <2>1. recipe.saved \in [Register -> Value] /\ Edits \in Nat /\ shared.epoch \in Nat
    BY FieldsAre
  <2>2. Seed(recipe.saved) \in Docs
    BY <2>1, SeedIs DEF Docs
  <2> QED BY <2>1, <2>2
<1>4. ServerTypes'
  <2>1. shared' \in [epoch : Nat \ {0}, seq : Nat, doc : Docs]
    BY <1>1, <1>2, <1>3
  <2> QED BY <1>1, <2>1, SameTypes DEF ServerTypes
<1>5. BoundTypes'
  <2>1. MaxRestarts \in Nat
    BY CoEditAssumption
  <2> QED BY <1>1, <2>1 DEF Types, BoundTypes
<1> QED BY <1>1, <1>4, <1>5, RestTypes DEF Types

LEMMA StutterTypes ==
    ASSUME Types, UNCHANGED vars
    PROVE  Types'
<1>1. made' = made /\ UNCHANGED <<server, recipe, studio, out, poll, save, restarts, saves, faults>>
  BY DEF vars, browser
<1> QED BY <1>1, RestTypes DEF Types

LEMMA StepTypes == Types /\ [Next]_vars => Types'
<1> SUFFICES ASSUME Types, [Next]_vars PROVE Types'
  OBVIOUS
<1>1. CASE \E s \in Studio, i \in 0..Asks : PollStep(s, i)
  BY <1>1, AskRegularlyTypes, ReadBatchesTypes, AdoptTypes, PollFailsTypes DEF PollStep
<1>2. CASE \E s \in Studio : SendStep(s) \/ NotDelivered(s) \/ NotAnswered(s)
  BY <1>2, SendTypes, PushTypes, RefuseTypes, AskAfterRefusalTypes, NotDeliveredTypes, NotAnsweredTypes
     DEF SendStep
<1>3. CASE \E s \in Studio, on \in (SUBSET Register) \ {{}} : Edit(s, on)
  BY <1>3, EditTypes
<1>4. CASE \E q \in Saver : SaveStep(q)
  BY <1>4, SaveRefusedTypes, SaveReadTypes, SaveWriteTypes DEF SaveStep
<1>5. CASE \E q \in Saver, s \in Studio : SaveAsk(q, s)
  BY <1>5, SaveAskTypes
<1>6. CASE \E q \in Saver, r \in Register : ChangeOutside(q, r)
  BY <1>6, ChangeOutsideTypes
<1>7. CASE DiscardUnsaved
  BY <1>7, DiscardTypes
<1>8. CASE UNCHANGED vars
  BY <1>8, StutterTypes
<1> QED BY <1>1, <1>2, <1>3, <1>4, <1>5, <1>6, <1>7, <1>8 DEF Next

(***************************************************************************)
(* What each step does to each Studio.                                     *)
(***************************************************************************)

\* Nothing but the revision changes at Studio t.
Stays(t) ==
    /\ studio'[t].doc = studio[t].doc /\ studio'[t].pending = studio[t].pending
    /\ studio'[t].epoch = studio[t].epoch /\ studio'[t].seq = studio[t].seq
    /\ studio'[t].clock = studio[t].clock
    /\ out'[t] = out[t] /\ poll'[t] = poll[t]

OthersStay(s) == \A t \in Studio \ {s} : Stays(t)

LEMMA EditAt ==
    ASSUME Types, NEW s \in Studio, NEW on \in SUBSET Register, Edit(s, on)
    PROVE  /\ OthersStay(s)
           /\ studio'[s].doc = ApplyOp(studio[s].doc, OpOf(s, on))
           /\ studio'[s].pending = Append(studio[s].pending, OpOf(s, on))
           /\ studio'[s].clock = studio[s].clock + 1
           /\ studio'[s].epoch = studio[s].epoch /\ studio'[s].seq = studio[s].seq
           /\ out' = out /\ poll' = poll /\ UNCHANGED <<server, recipe, save, restarts, saves>>
<1>1. studio \in [Studio -> StudioRec] /\ studio[s] \in StudioRec
  BY DEF Types, StudioTypes
<1>2. /\ studio' = [studio EXCEPT ![s] = [studio[s] EXCEPT !.doc = ApplyOp(@, OpOf(s, on)), !.clock = @ + 1,
                                            !.pending = Append(@, OpOf(s, on))]]
      /\ out' = out /\ poll' = poll /\ UNCHANGED <<server, recipe, save, restarts, saves>>
  BY <1>1 DEF Edit, OpOf, Edits
<1>3. studio'[s] = [studio[s] EXCEPT !.doc = ApplyOp(@, OpOf(s, on)), !.clock = @ + 1,
                                      !.pending = Append(@, OpOf(s, on))]
  BY <1>1, <1>2
<1>4. OthersStay(s)
  BY <1>1, <1>2 DEF OthersStay, Stays
<1> QED BY <1>1, <1>2, <1>3, <1>4 DEF StudioRec

LEMMA SendAt ==
    ASSUME Types, NEW s \in Studio, Send(s)
    PROVE  /\ OthersStay(s)
           /\ studio'[s].doc = studio[s].doc /\ studio'[s].pending = <<>>
           /\ studio'[s].clock = studio[s].clock
           /\ studio'[s].epoch = studio[s].epoch /\ studio'[s].seq = studio[s].seq
           /\ out[s].at = "none" /\ out'[s].at = "sent" /\ out'[s].ops = studio[s].pending
           /\ out'[s].epoch = studio[s].epoch
           /\ poll' = poll /\ made' = made /\ UNCHANGED <<server, recipe, save, restarts, saves>>
<1>1. studio \in [Studio -> StudioRec] /\ studio[s] \in StudioRec /\ out \in [Studio -> OutRec]
  BY DEF Types, StudioTypes, OutTypes
<1>2. /\ studio' = [studio EXCEPT ![s] = [studio[s] EXCEPT !.pending = <<>>]]
      /\ out' = [out EXCEPT ![s] = [at |-> "sent", ops |-> studio[s].pending, epoch |-> studio[s].epoch]]
      /\ out[s].at = "none"
      /\ poll' = poll /\ made' = made /\ UNCHANGED <<server, recipe, save, restarts, saves>>
  BY <1>1 DEF Send
<1>3. studio'[s] = [studio[s] EXCEPT !.pending = <<>>]
  BY <1>1, <1>2
<1>4. OthersStay(s)
  BY <1>1, <1>2 DEF OthersStay, Stays
<1> QED BY <1>1, <1>2, <1>3, <1>4 DEF StudioRec

\* The send ends and nothing else changes at the Studio.
LEMMA PushAt ==
    ASSUME Types, NEW s \in Studio, Push(s)
    PROVE  /\ OthersStay(s) /\ studio' = studio /\ out'[s] = Unsent /\ out[s].epoch = shared.epoch
           /\ poll' = poll /\ made' = made /\ UNCHANGED <<recipe, save, restarts, saves>>
BY DEF Push, MergeAtServer, SameEpoch, OthersStay, Stays, Types, OutTypes

LEMMA RefuseAt ==
    ASSUME Types, NEW s \in Studio, Refuse(s)
    PROVE  /\ OthersStay(s) /\ studio' = studio
           /\ out[s].at = "sent" /\ out[s].epoch # shared.epoch
           /\ out'[s].at = "refused" /\ out'[s].ops = out[s].ops /\ out'[s].epoch = out[s].epoch
           /\ poll' = poll /\ made' = made /\ UNCHANGED <<server, recipe, save, restarts, saves>>
<1>1. out \in [Studio -> OutRec] /\ out[s] \in OutRec
  BY DEF Types, OutTypes
<1>2. out'[s] = [out[s] EXCEPT !.at = "refused"]
  BY <1>1 DEF Refuse
<1>3. OthersStay(s)
  BY <1>1 DEF Refuse, OthersStay, Stays
<1> QED BY <1>1, <1>2, <1>3 DEF Refuse, SameEpoch, OutRec

\* What goes again.
LEMMA ResentAt ==
    ASSUME Types, NEW s \in Studio, studio' = [studio EXCEPT ![s].pending = Resent(out[s].ops, @)]
    PROVE  /\ \A t \in Studio \ {s} : studio'[t] = studio[t]
           /\ studio'[s].doc = studio[s].doc /\ studio'[s].pending = out[s].ops \o studio[s].pending
           /\ studio'[s].clock = studio[s].clock
           /\ studio'[s].epoch = studio[s].epoch /\ studio'[s].seq = studio[s].seq
           /\ ToSet(studio'[s].pending) = ToSet(out[s].ops) \cup ToSet(studio[s].pending)
<1>1. studio \in [Studio -> StudioRec] /\ studio[s] \in StudioRec /\ out[s] \in OutRec
  BY DEF Types, StudioTypes, OutTypes
<1>2. studio'[s] = [studio[s] EXCEPT !.pending = Resent(out[s].ops, @)]
  BY <1>1
<1>3. studio'[s].pending = out[s].ops \o studio[s].pending
  BY <1>1, <1>2 DEF StudioRec, Resent
<1>4. out[s].ops \in Seq(Told) /\ studio[s].pending \in Seq(Told)
  BY <1>1 DEF StudioRec, OutRec
<1>5. ToSet(studio'[s].pending) = ToSet(out[s].ops) \cup ToSet(studio[s].pending)
  <2>1. ToSet(out[s].ops \o studio[s].pending) = ToSet(out[s].ops) \cup ToSet(studio[s].pending)
    BY ONLY <1>4, JoinIs
  <2> QED BY ONLY <1>3, <2>1
<1> QED BY <1>1, <1>2, <1>3, <1>5 DEF StudioRec

LEMMA NotDeliveredAt ==
    ASSUME Types, NEW s \in Studio, NotDelivered(s)
    PROVE  /\ OthersStay(s)
           /\ studio'[s].doc = studio[s].doc /\ studio'[s].pending = out[s].ops \o studio[s].pending
           /\ studio'[s].clock = studio[s].clock
           /\ studio'[s].epoch = studio[s].epoch /\ studio'[s].seq = studio[s].seq
           /\ ToSet(studio'[s].pending) = ToSet(out[s].ops) \cup ToSet(studio[s].pending)
           /\ out'[s] = Unsent /\ out[s].at = "sent"
           /\ Mishaps = {} => out[s].epoch = studio[s].epoch
           /\ poll' = poll /\ made' = made /\ UNCHANGED <<server, recipe, save, restarts, saves>>
<1>1. /\ studio' = [studio EXCEPT ![s].pending = Resent(out[s].ops, @)] /\ out' = [out EXCEPT ![s] = Unsent]
      /\ out[s].at = "sent" /\ (Mishaps = {} => out[s].epoch = studio[s].epoch)
      /\ poll' = poll /\ made' = made /\ UNCHANGED <<server, recipe, save, restarts, saves>>
  BY DEF NotDelivered
<1>2. out'[s] = Unsent /\ \A t \in Studio \ {s} : out'[t] = out[t]
  BY <1>1 DEF Types, OutTypes
<1>3. /\ \A t \in Studio \ {s} : studio'[t] = studio[t]
      /\ studio'[s].doc = studio[s].doc /\ studio'[s].pending = out[s].ops \o studio[s].pending
      /\ studio'[s].clock = studio[s].clock
      /\ studio'[s].epoch = studio[s].epoch /\ studio'[s].seq = studio[s].seq
      /\ ToSet(studio'[s].pending) = ToSet(out[s].ops) \cup ToSet(studio[s].pending)
  BY <1>1, ResentAt
<1>4. OthersStay(s)
  BY <1>1, <1>2, <1>3 DEF OthersStay, Stays
<1> QED BY <1>1, <1>2, <1>3, <1>4

LEMMA NotAnsweredAt ==
    ASSUME Types, NEW s \in Studio, NotAnswered(s)
    PROVE  /\ OthersStay(s)
           /\ studio'[s].doc = studio[s].doc /\ studio'[s].pending = out[s].ops \o studio[s].pending
           /\ studio'[s].clock = studio[s].clock
           /\ studio'[s].epoch = studio[s].epoch /\ studio'[s].seq = studio[s].seq
           /\ ToSet(studio'[s].pending) = ToSet(out[s].ops) \cup ToSet(studio[s].pending)
           /\ out'[s] = Unsent /\ out[s].at = "sent" /\ out[s].epoch = shared.epoch
           /\ poll' = poll /\ made' = made /\ UNCHANGED <<recipe, save, restarts, saves>>
<1>1. /\ studio' = [studio EXCEPT ![s].pending = Resent(out[s].ops, @)] /\ out' = [out EXCEPT ![s] = Unsent]
      /\ out[s].at = "sent" /\ out[s].epoch = shared.epoch
      /\ poll' = poll /\ made' = made /\ UNCHANGED <<recipe, save, restarts, saves>>
  BY DEF NotAnswered, MergeAtServer, SameEpoch
<1>2. out'[s] = Unsent /\ \A t \in Studio \ {s} : out'[t] = out[t]
  BY <1>1 DEF Types, OutTypes
<1>3. /\ \A t \in Studio \ {s} : studio'[t] = studio[t]
      /\ studio'[s].doc = studio[s].doc /\ studio'[s].pending = out[s].ops \o studio[s].pending
      /\ studio'[s].clock = studio[s].clock
      /\ studio'[s].epoch = studio[s].epoch /\ studio'[s].seq = studio[s].seq
      /\ ToSet(studio'[s].pending) = ToSet(out[s].ops) \cup ToSet(studio[s].pending)
  BY <1>1, ResentAt
<1>4. OthersStay(s)
  BY <1>1, <1>2, <1>3 DEF OthersStay, Stays
<1> QED BY <1>1, <1>2, <1>3, <1>4

\* One poll of a Studio changes.
LEMMA PollAt ==
    ASSUME Types, NEW s \in Studio, NEW i \in 0..Asks, NEW x, poll' = [poll EXCEPT ![s][i] = x]
    PROVE  /\ poll'[s][i] = x
           /\ \A k \in 0..Asks : k # i => poll'[s][k] = poll[s][k]
           /\ \A t \in Studio \ {s} : poll'[t] = poll[t]
BY DEF Types, PollTypes

LEMMA AskRegularlyAt ==
    ASSUME Types, NEW s \in Studio, NEW i \in 0..Asks, AskRegularly(s, i)
    PROVE  /\ OthersStay(s) /\ studio' = studio /\ out' = out /\ i # 0
           /\ poll'[s][i] = AskedFor(s, studio[s].epoch)
           /\ \A k \in 0..Asks : k # i => poll'[s][k] = poll[s][k]
           /\ made' = made /\ UNCHANGED <<server, recipe, save, restarts, saves>>
<1>1. /\ poll' = [poll EXCEPT ![s][i] = AskedFor(s, studio[s].epoch)] /\ studio' = studio /\ out' = out /\ i # 0
      /\ made' = made /\ UNCHANGED <<server, recipe, save, restarts, saves>>
  BY DEF AskRegularly, Ask, AskedFor
<1>2. /\ poll'[s][i] = AskedFor(s, studio[s].epoch)
      /\ \A k \in 0..Asks : k # i => poll'[s][k] = poll[s][k]
      /\ \A t \in Studio \ {s} : poll'[t] = poll[t]
  BY <1>1, PollAt
<1>3. OthersStay(s)
  BY <1>1, <1>2 DEF OthersStay, Stays
<1> QED BY <1>1, <1>2, <1>3

LEMMA AskAfterRefusalAt ==
    ASSUME Types, NEW s \in Studio, AskAfterRefusal(s)
    PROVE  /\ OthersStay(s) /\ studio' = studio
           /\ out[s].at = "refused" /\ out'[s].at = "asking" /\ out'[s].ops = <<>>
           /\ poll'[s][0] = AskedFor(s, 0)
           /\ \A k \in 0..Asks : k # 0 => poll'[s][k] = poll[s][k]
           /\ made' = made /\ UNCHANGED <<server, recipe, save, restarts, saves>>
<1>1. /\ poll' = [poll EXCEPT ![s][0] = AskedFor(s, 0)] /\ studio' = studio /\ out[s].at = "refused"
      /\ out' = [out EXCEPT ![s] = [Unsent EXCEPT !.at = "asking"]]
      /\ made' = made /\ UNCHANGED <<server, recipe, save, restarts, saves>>
  BY DEF AskAfterRefusal, Ask, AskedFor
<1>2. /\ poll'[s][0] = AskedFor(s, 0)
      /\ \A k \in 0..Asks : k # 0 => poll'[s][k] = poll[s][k]
      /\ \A t \in Studio \ {s} : poll'[t] = poll[t]
  BY <1>1, PollAt, ZeroIsAPoll
<1>3. out'[s] = [Unsent EXCEPT !.at = "asking"] /\ \A t \in Studio \ {s} : out'[t] = out[t]
  BY <1>1 DEF Types, OutTypes
<1>4. OthersStay(s)
  BY <1>1, <1>2, <1>3 DEF OthersStay, Stays
<1>5. out'[s].at = "asking" /\ out'[s].ops = <<>>
  BY <1>3 DEF Unsent
<1> QED BY <1>1, <1>2, <1>4, <1>5

LEMMA ReadBatchesAt ==
    ASSUME Types, NEW s \in Studio, NEW i \in 0..Asks, ReadBatches(s, i)
    PROVE  /\ OthersStay(s) /\ studio' = studio /\ out' = out /\ poll[s][i].at = "copy"
           /\ poll[s][i] \in PollRec /\ poll'[s][i] = Reply(poll[s][i])
           /\ \A k \in 0..Asks : k # i => poll'[s][k] = poll[s][k]
           /\ made' = made /\ UNCHANGED <<server, recipe, save, restarts, saves>>
<1>1. /\ poll' = [poll EXCEPT ![s][i] = Reply(poll[s][i])] /\ studio' = studio /\ out' = out
      /\ poll[s][i].at = "copy"
      /\ made' = made /\ UNCHANGED <<server, recipe, save, restarts, saves>>
  BY DEF ReadBatches, Types, PollTypes
<1>2. /\ poll'[s][i] = Reply(poll[s][i])
      /\ \A k \in 0..Asks : k # i => poll'[s][k] = poll[s][k]
      /\ \A t \in Studio \ {s} : poll'[t] = poll[t]
  BY <1>1, PollAt
<1>3. OthersStay(s)
  BY <1>1, <1>2 DEF OthersStay, Stays
<1>4. poll[s][i] \in PollRec
  BY <1>1, FieldsAre
<1> QED BY <1>1, <1>2, <1>3, <1>4

LEMMA AfterPollAt ==
    ASSUME Types, NEW s \in Studio, NEW i \in 0..Asks, out' = AfterPoll(s, i)
    PROVE  /\ \A t \in Studio \ {s} : out'[t] = out[t]
           /\ i # 0 => out' = out
           /\ i = 0 => out'[s] = Unsent
BY DEF AfterPoll, Types, OutTypes

LEMMA AdoptAt ==
    ASSUME Types, NEW s \in Studio, NEW i \in 0..Asks, Adopt(s, i)
    PROVE  /\ OthersStay(s) /\ studio'[s] = Adopted(s, poll[s][i])
           /\ poll[s][i] \in PollRec /\ poll[s][i].at = "ready" /\ poll'[s][i] = Quiet
           /\ \A k \in 0..Asks : k # i => poll'[s][k] = poll[s][k]
           /\ i # 0 => out' = out
           /\ i = 0 => out'[s] = Unsent
           /\ Mishaps = {} => ~ Overtaken(s, i) /\ ~ WouldErase(s, i)
           /\ made' = made /\ UNCHANGED <<server, recipe, save, restarts, saves>>
<1>1. /\ studio' = [studio EXCEPT ![s] = Adopted(s, poll[s][i])]
      /\ poll' = [poll EXCEPT ![s][i] = Quiet] /\ out' = AfterPoll(s, i)
      /\ poll[s][i].at = "ready"
      /\ (Mishaps = {} => ~ Overtaken(s, i) /\ ~ WouldErase(s, i))
      /\ made' = made /\ UNCHANGED <<server, recipe, save, restarts, saves>>
  BY DEF Adopt, Adopted
<1>2. /\ poll'[s][i] = Quiet
      /\ \A k \in 0..Asks : k # i => poll'[s][k] = poll[s][k]
      /\ \A t \in Studio \ {s} : poll'[t] = poll[t]
  BY <1>1, PollAt
<1>3. /\ \A t \in Studio \ {s} : out'[t] = out[t]
      /\ i # 0 => out' = out
      /\ i = 0 => out'[s] = Unsent
  BY <1>1, AfterPollAt
<1>4. studio'[s] = Adopted(s, poll[s][i]) /\ \A t \in Studio \ {s} : studio'[t] = studio[t]
  BY <1>1 DEF Types, StudioTypes
<1>5. OthersStay(s)
  BY <1>2, <1>3, <1>4 DEF OthersStay, Stays
<1>6. poll[s][i] \in PollRec
  BY <1>1, FieldsAre
<1> QED BY <1>1, <1>2, <1>3, <1>4, <1>5, <1>6

LEMMA PollFailsAt ==
    ASSUME Types, NEW s \in Studio, NEW i \in 0..Asks, PollFails(s, i)
    PROVE  /\ OthersStay(s) /\ studio' = studio
           /\ poll[s][i].at # "none" /\ poll'[s][i] = Quiet
           /\ \A k \in 0..Asks : k # i => poll'[s][k] = poll[s][k]
           /\ i # 0 => out' = out
           /\ i = 0 => out'[s] = Unsent
           /\ made' = made /\ UNCHANGED <<server, recipe, save, restarts, saves>>
<1>1. /\ poll' = [poll EXCEPT ![s][i] = Quiet] /\ out' = AfterPoll(s, i) /\ studio' = studio
      /\ poll[s][i].at # "none"
      /\ made' = made /\ UNCHANGED <<server, recipe, save, restarts, saves>>
  BY DEF PollFails
<1>2. /\ poll'[s][i] = Quiet
      /\ \A k \in 0..Asks : k # i => poll'[s][k] = poll[s][k]
      /\ \A t \in Studio \ {s} : poll'[t] = poll[t]
  BY <1>1, PollAt
<1>3. /\ \A t \in Studio \ {s} : out'[t] = out[t]
      /\ i # 0 => out' = out
      /\ i = 0 => out'[s] = Unsent
  BY <1>1, AfterPollAt
<1>4. OthersStay(s)
  BY <1>1, <1>2, <1>3 DEF OthersStay, Stays
<1> QED BY <1>1, <1>2, <1>3, <1>4

\* The steps that no Studio takes.
AtServer ==
    \/ \E q \in Saver : SaveStep(q)
    \/ \E q \in Saver, s \in Studio : SaveAsk(q, s)
    \/ \E q \in Saver, r \in Register : ChangeOutside(q, r)
    \/ DiscardUnsaved
    \/ UNCHANGED vars

LEMMA AtServerAt ==
    ASSUME Types, AtServer
    PROVE  made' = made /\ \A t \in Studio : Stays(t)
<1>1. CASE \E q \in Saver : SaveRefused(q) \/ SaveRead(q)
  BY <1>1 DEF SaveRefused, SaveRead, browser, Stays
<1>2. CASE \E q \in Saver, s \in Studio : SaveAsk(q, s)
  BY <1>2 DEF SaveAsk, browser, Stays
<1>3. CASE \E q \in Saver, r \in Register : ChangeOutside(q, r)
  BY <1>3 DEF ChangeOutside, browser, Stays
<1>4. CASE DiscardUnsaved
  BY <1>4 DEF DiscardUnsaved, browser, Stays
<1>5. CASE UNCHANGED vars
  BY <1>5 DEF vars, browser, Stays
<1>6. CASE \E q \in Saver : SaveWrite(q)
  <2>1. PICK q \in Saver : SaveWrite(q)
    BY <1>6
  <2>2. made' = made /\ out' = out /\ poll' = poll
    BY <2>1 DEF SaveWrite
  <2>3. ASSUME NEW t \in Studio
        PROVE  studio'[t] = studio[t] \/ studio'[t] = [studio[t] EXCEPT !.revision = recipe'.revision]
    BY <2>1 DEF SaveWrite, Types, StudioTypes
  <2>4. ASSUME NEW t \in Studio PROVE Stays(t)
    <3>1. studio[t] \in StudioRec
      BY FieldsAre
    <3>2. /\ studio'[t].doc = studio[t].doc /\ studio'[t].pending = studio[t].pending
          /\ studio'[t].epoch = studio[t].epoch /\ studio'[t].seq = studio[t].seq
          /\ studio'[t].clock = studio[t].clock
      BY <2>3, <3>1 DEF StudioRec
    <3> QED BY <2>2, <3>2 DEF Stays
  <2> QED BY <2>2, <2>4
<1> QED BY <1>1, <1>2, <1>3, <1>4, <1>5, <1>6 DEF AtServer, SaveStep

\* Every step is one of these.
LEMMA StepsAre ==
    ASSUME [Next]_vars
    PROVE  \/ \E s \in Studio, on \in (SUBSET Register) \ {{}} : Edit(s, on)
           \/ \E s \in Studio : \/ Send(s) \/ Push(s) \/ Refuse(s) \/ AskAfterRefusal(s)
                                \/ NotDelivered(s) \/ NotAnswered(s)
           \/ \E s \in Studio, i \in 0..Asks :
                AskRegularly(s, i) \/ ReadBatches(s, i) \/ Adopt(s, i) \/ PollFails(s, i)
           \/ AtServer
BY DEF Next, PollStep, SendStep, AtServer

(***************************************************************************)
(* Clocks: a Studio sends and keeps only its own changes, and its clock is *)
(* not behind anything it shows.                                           *)
(***************************************************************************)

Own(s) == \A op \in ToSet(studio[s].pending) \cup ToSet(out[s].ops) : op.by = s
Heard(s) == \A r \in Register : studio[s].doc[r].c <= studio[s].clock
Clocks == \A s \in Studio : Own(s) /\ Heard(s)

LEMMA NothingIn == ToSet(<<>>) = {} /\ ToSet(Unsent.ops) = {} /\ Unsent.at = "none"
<1>1. DOMAIN <<>> = {}
  OBVIOUS
<1>2. ToSet(<<>>) = {}
  BY <1>1 DEF ToSet
<1> QED BY <1>2 DEF Unsent

LEMMA InSet ==
    ASSUME NEW ops, NEW j \in DOMAIN ops
    PROVE  ops[j] \in ToSet(ops)
BY DEF ToSet

LEMMA StaysClocks ==
    ASSUME Clocks, NEW t \in Studio, Stays(t)
    PROVE  Own(t)' /\ Heard(t)'
BY DEF Clocks, Own, Heard, Stays

\* The counters of cells and changes are numbers.
LEMMA CellIs ==
    ASSUME MadeTypes
    PROVE  /\ \A doc \in Docs : \A r \in Register : doc[r].c \in Nat /\ doc[r].by \in Nat /\ Stamp(doc[r])
           /\ \A op \in Told : /\ op.c \in Nat \ {0} /\ op.by \in Studio /\ op.by \in Nat /\ Stamp(op)
                               /\ op.on \subseteq Register
                               /\ CellOf(op).c = op.c /\ CellOf(op).by = op.by /\ Stamp(CellOf(op))
<1>1. Edits \in Nat /\ Told \subseteq OpsUpTo(Edits)
  BY ToldIs
<1>2. /\ \A x \in CellsUpTo(Edits) : Stamp(x) /\ x.c <= Edits
      /\ \A op \in OpsUpTo(Edits) : Stamp(op) /\ CellOf(op) \in CellsUpTo(Edits) /\ op.c <= Edits
                                     /\ CellOf(op).c = op.c /\ CellOf(op).by = op.by
                                     /\ 1 <= op.c /\ op.on \subseteq Register
  BY <1>1, Stamped
<1>3. \A doc \in Docs : \A r \in Register : doc[r] \in CellsUpTo(Edits)
  BY DEF Docs
<1>4. \A doc \in Docs : \A r \in Register : doc[r].c \in Nat /\ doc[r].by \in Nat /\ Stamp(doc[r])
  BY <1>2, <1>3 DEF Stamp
<1>5. \A op \in Told : op \in OpsUpTo(Edits) /\ op.by \in Studio
  BY <1>1 DEF OpsUpTo
<1> QED BY <1>2, <1>4, <1>5 DEF Stamp

LEMMA EditClocks ==
    ASSUME Types, Clocks, NEW s \in Studio, NEW on \in SUBSET Register, Edit(s, on)
    PROVE  Own(s)' /\ Heard(s)' /\ \A r \in on : studio'[s].doc[r] = CellOf(OpOf(s, on))
<1> DEFINE op == OpOf(s, on)
<1>1. /\ studio'[s].doc = ApplyOp(studio[s].doc, op)
      /\ studio'[s].pending = Append(studio[s].pending, op)
      /\ studio'[s].clock = studio[s].clock + 1 /\ out' = out
  BY EditAt
<1>2. /\ studio[s].doc \in Docs /\ studio[s].pending \in Seq(Told) /\ studio[s].clock \in Nat
  BY FieldsAre DEF StudioRec
<1>3. op.by = s /\ op.c = studio[s].clock + 1 /\ op.on = on
  BY DEF OpOf
<1>4. \A r \in Register : studio[s].doc[r].c \in Nat /\ studio[s].doc[r].c <= studio[s].clock
  BY <1>2, CellIs DEF Types, Clocks, Heard
<1>5. ToSet(studio'[s].pending) = ToSet(studio[s].pending) \cup {op}
  <2>1. studio[s].pending \in Seq(Told \cup {op}) /\ op \in Told \cup {op}
    BY <1>2
  <2> HIDE DEF op
  <2>2. ToSet(Append(studio[s].pending, op)) = ToSet(studio[s].pending) \cup {op}
    BY ONLY <2>1, AppendIs
  <2> QED BY <1>1, <2>2
<1>6. Own(s)'
  <2> HIDE DEF op
  <2> QED BY <1>1, <1>3, <1>5 DEF Clocks, Own
<1>7. \A r \in Register : Newer(op, studio[s].doc[r])
  <2> HIDE DEF op
  <2> QED BY <1>2, <1>3, <1>4 DEF Newer
<1>8. \A r \in Register : studio'[s].doc[r] = IF r \in on THEN CellOf(op) ELSE studio[s].doc[r]
  <2> HIDE DEF op
  <2> QED BY <1>1, <1>3, <1>7 DEF ApplyOp, CellOf
<1>9. CellOf(op).c = op.c
  BY DEF CellOf
<1>10. ASSUME NEW r \in Register PROVE studio'[s].doc[r].c <= studio'[s].clock
  <2>1. CASE r \in on
    <3> HIDE DEF op
    <3> QED BY <1>1, <1>2, <1>3, <1>8, <1>9, <2>1
  <2>2. CASE r \notin on
    <3>1. studio'[s].doc[r].c = studio[s].doc[r].c
      BY <1>8, <2>2
    <3> QED BY <1>1, <1>2, <1>4, <3>1
  <2> QED BY <2>1, <2>2
<1>11. Heard(s)'
  BY <1>10 DEF Heard
<1> QED BY <1>6, <1>8, <1>11

\* What a Studio shows after it adopted a reply.
LEMMA AdoptedShows ==
    ASSUME Types, NEW s \in Studio, NEW p \in PollRec, ~ p.full
    PROVE  \A r \in Register :
             /\ ~ Newer(studio[s].doc[r], Adopted(s, p).doc[r])
             /\ \A j \in DOMAIN p.ops : r \in p.ops[j].on => ~ Newer(p.ops[j], Adopted(s, p).doc[r])
             /\ \/ Adopted(s, p).doc[r] = studio[s].doc[r]
                \/ \E j \in DOMAIN p.ops : r \in p.ops[j].on /\ Adopted(s, p).doc[r] = CellOf(p.ops[j])
                \/ \E j \in DOMAIN studio[s].pending :
                     r \in studio[s].pending[j].on /\ Adopted(s, p).doc[r] = CellOf(studio[s].pending[j])
<1> DEFINE doc == studio[s].doc
           mid == ApplyOps(doc, p.ops)
           end == ApplyOps(mid, studio[s].pending)
<1>1. doc \in Docs /\ studio[s].pending \in Seq(Told) /\ p.ops \in Seq(Told) /\ MadeTypes
  BY FieldsAre DEF StudioRec, PollRec, Types
<1>2. Adopted(s, p).doc = end
  BY DEF Adopted
<1>3. /\ mid \in Docs
      /\ \A r \in Register :
           /\ ~ Newer(doc[r], mid[r])
           /\ \A j \in DOMAIN p.ops : r \in p.ops[j].on => ~ Newer(p.ops[j], mid[r])
           /\ \/ mid[r] = doc[r]
              \/ \E j \in DOMAIN p.ops : r \in p.ops[j].on /\ mid[r] = CellOf(p.ops[j])
  BY <1>1, MergeIs
<1>4. /\ end \in Docs
      /\ \A r \in Register :
           /\ ~ Newer(mid[r], end[r])
           /\ \/ end[r] = mid[r]
              \/ \E j \in DOMAIN studio[s].pending :
                   r \in studio[s].pending[j].on /\ end[r] = CellOf(studio[s].pending[j])
  <2> HIDE DEF mid
  <2> QED BY <1>1, <1>3, MergeIs
<1>5. \A j \in DOMAIN p.ops : p.ops[j] \in Told
  BY <1>1
<1> HIDE DEF doc, mid, end
<1>6. ASSUME NEW r \in Register
      PROVE  /\ ~ Newer(doc[r], end[r])
             /\ \A j \in DOMAIN p.ops : r \in p.ops[j].on => ~ Newer(p.ops[j], end[r])
  <2>1. Stamp(doc[r]) /\ Stamp(mid[r]) /\ Stamp(end[r]) /\ \A j \in DOMAIN p.ops : Stamp(p.ops[j])
    BY <1>1, <1>3, <1>4, <1>5, CellIs
  <2>2. ~ Newer(doc[r], end[r])
    BY <1>3, <1>4, <2>1, NewerOrders
  <2>3. ASSUME NEW j \in DOMAIN p.ops, r \in p.ops[j].on PROVE ~ Newer(p.ops[j], end[r])
    BY <1>3, <1>4, <2>1, <2>3, NewerOrders
  <2> QED BY <2>2, <2>3
<1>7. ASSUME NEW r \in Register
      PROVE  \/ end[r] = doc[r]
             \/ \E j \in DOMAIN p.ops : r \in p.ops[j].on /\ end[r] = CellOf(p.ops[j])
             \/ \E j \in DOMAIN studio[s].pending :
                   r \in studio[s].pending[j].on /\ end[r] = CellOf(studio[s].pending[j])
  BY <1>3, <1>4
<1> QED BY <1>2, <1>6, <1>7 DEF doc

LEMMA AdoptClocks ==
    ASSUME Types, Clocks, NEW s \in Studio, NEW i \in 0..Asks, Adopt(s, i)
    PROVE  Own(s)' /\ Heard(s)'
<1> DEFINE p == poll[s][i]
<1>1. /\ studio'[s] = Adopted(s, p) /\ p \in PollRec /\ (i # 0 => out' = out) /\ (i = 0 => out'[s] = Unsent)
  BY AdoptAt
<1> HIDE DEF p
<1>2. /\ Adopted(s, p) \in StudioRec /\ Adopted(s, p).clock >= studio[s].clock
      /\ \A c \in Observed(p) : c <= Adopted(s, p).clock
  BY <1>1, AdoptedIs
<1>3. /\ Observed(p) \subseteq 0..Edits
      /\ p.full => \A r \in Register : \E c \in Observed(p) : p.doc[r].c <= c
      /\ ~ p.full => \A j \in DOMAIN p.ops : p.ops[j].c \in Observed(p)
  BY <1>1, ObservedIs DEF Types
<1>4. /\ studio[s].clock \in Nat /\ Adopted(s, p).clock \in Nat /\ studio[s].doc \in Docs
      /\ Adopted(s, p).doc \in Docs /\ studio[s].pending \in Seq(Told) /\ p.ops \in Seq(Told) /\ p.doc \in Docs
  <2>1. studio[s] \in StudioRec /\ Edits \in Nat
    BY FieldsAre
  <2>2. Adopted(s, p).clock \in Nat /\ Adopted(s, p).doc \in Docs
    BY <1>2, <2>1 DEF StudioRec
  <2>3. studio[s].clock \in Nat /\ studio[s].doc \in Docs /\ studio[s].pending \in Seq(Told)
    BY <2>1 DEF StudioRec
  <2>4. p.ops \in Seq(Told) /\ p.doc \in Docs
    BY <1>1 DEF PollRec
  <2> QED BY <2>2, <2>3, <2>4
<1>5. ToSet(studio'[s].pending) \subseteq ToSet(studio[s].pending) /\ ToSet(out'[s].ops) \subseteq ToSet(out[s].ops)
  <2>1. studio'[s].pending = <<>> \/ studio'[s].pending = studio[s].pending
    BY <1>1 DEF Adopted
  <2> QED BY <1>1, <2>1, NothingIn
<1>6. Own(s)'
  BY <1>5 DEF Clocks, Own
<1>7. ASSUME NEW r \in Register PROVE Adopted(s, p).doc[r].c <= Adopted(s, p).clock
  <2>1. CASE p.full
    <3>1. Adopted(s, p).doc = p.doc
      BY <2>1 DEF Adopted
    <3>2. PICK c \in Observed(p) : p.doc[r].c <= c
      BY <1>3, <2>1
    <3>3. c \in Int /\ p.doc[r].c \in Int /\ c <= Adopted(s, p).clock
      BY <1>2, <1>3, <1>4, <3>2, CellIs DEF Types
    <3> QED BY <1>4, <3>1, <3>2, <3>3
  <2>2. CASE ~ p.full
    <3>1. \/ Adopted(s, p).doc[r] = studio[s].doc[r]
          \/ \E j \in DOMAIN p.ops : r \in p.ops[j].on /\ Adopted(s, p).doc[r] = CellOf(p.ops[j])
          \/ \E j \in DOMAIN studio[s].pending :
               r \in studio[s].pending[j].on /\ Adopted(s, p).doc[r] = CellOf(studio[s].pending[j])
      BY <1>1, <2>2, AdoptedShows
    <3>2. CASE Adopted(s, p).doc[r] = studio[s].doc[r]
      <4>1. studio[s].doc[r].c \in Nat /\ studio[s].doc[r].c <= studio[s].clock
        BY <1>4, CellIs DEF Types, Clocks, Heard
      <4> QED BY <1>2, <1>4, <3>2, <4>1
    <3>3. ASSUME NEW j \in DOMAIN p.ops, Adopted(s, p).doc[r] = CellOf(p.ops[j])
          PROVE  Adopted(s, p).doc[r].c <= Adopted(s, p).clock
      BY <1>2, <1>3, <2>2, <3>3 DEF CellOf
    <3>4. ASSUME NEW j \in DOMAIN studio[s].pending, Adopted(s, p).doc[r] = CellOf(studio[s].pending[j])
          PROVE  Adopted(s, p).doc[r].c <= Adopted(s, p).clock
      <4> DEFINE op == studio[s].pending[j]
      <4>1. op \in Told /\ op.by = s
        <5>1. op \in ToSet(studio[s].pending)
          BY InSet
        <5> QED BY <1>4, <5>1 DEF Clocks, Own
      <4>2. op.c <= studio[s].clock /\ op.c \in Nat
        BY <4>1, CellIs DEF Types, Counted, Told
      <4>3. Adopted(s, p).doc[r].c = op.c
        BY <3>4 DEF CellOf
      <4> HIDE DEF op
      <4> QED BY <1>2, <1>4, <4>2, <4>3
    <3> QED BY <3>1, <3>2, <3>3, <3>4
  <2> QED BY <2>1, <2>2
<1>8. Heard(s)'
  BY <1>1, <1>7 DEF Heard
<1> QED BY <1>6, <1>8

\* A step of a Studio that neither edits nor adopts.
LEMMA QuietClocks ==
    ASSUME Clocks, NEW s \in Studio, studio'[s].doc = studio[s].doc, studio'[s].clock = studio[s].clock,
           ToSet(studio'[s].pending) \cup ToSet(out'[s].ops)
             \subseteq ToSet(studio[s].pending) \cup ToSet(out[s].ops)
    PROVE  Own(s)' /\ Heard(s)'
BY DEF Clocks, Own, Heard

LEMMA SendClocks ==
    ASSUME Types, Clocks, NEW s \in Studio,
           \/ Send(s) \/ Push(s) \/ Refuse(s) \/ AskAfterRefusal(s) \/ NotDelivered(s) \/ NotAnswered(s)
    PROVE  OthersStay(s) /\ Own(s)' /\ Heard(s)'
<1>1. CASE Send(s)
  BY <1>1, SendAt, NothingIn, QuietClocks
<1>2. CASE Push(s)
  BY <1>2, PushAt, NothingIn, QuietClocks
<1>3. CASE Refuse(s)
  BY <1>3, RefuseAt, QuietClocks
<1>4. CASE AskAfterRefusal(s)
  BY <1>4, AskAfterRefusalAt, NothingIn, QuietClocks
<1>5. CASE NotDelivered(s)
  BY <1>5, NotDeliveredAt, NothingIn, QuietClocks
<1>6. CASE NotAnswered(s)
  BY <1>6, NotAnsweredAt, NothingIn, QuietClocks
<1> QED BY <1>1, <1>2, <1>3, <1>4, <1>5, <1>6

LEMMA PollClocks ==
    ASSUME Types, Clocks, NEW s \in Studio, NEW i \in 0..Asks,
           AskRegularly(s, i) \/ ReadBatches(s, i) \/ Adopt(s, i) \/ PollFails(s, i)
    PROVE  OthersStay(s) /\ Own(s)' /\ Heard(s)'
<1>1. CASE AskRegularly(s, i)
  BY <1>1, AskRegularlyAt, QuietClocks
<1>2. CASE ReadBatches(s, i)
  BY <1>2, ReadBatchesAt, QuietClocks
<1>3. CASE Adopt(s, i)
  BY <1>3, AdoptAt, AdoptClocks
<1>4. CASE PollFails(s, i)
  <2>1. ToSet(out'[s].ops) \subseteq ToSet(out[s].ops)
    BY <1>4, PollFailsAt, NothingIn
  <2>2. studio' = studio /\ OthersStay(s)
    BY <1>4, PollFailsAt
  <2> QED BY <2>1, <2>2, QuietClocks
<1> QED BY <1>1, <1>2, <1>3, <1>4

LEMMA StepClocks == Types /\ Clocks /\ [Next]_vars => Clocks'
<1> SUFFICES ASSUME Types, Clocks, [Next]_vars PROVE Clocks'
  OBVIOUS
<1>1. ASSUME NEW s \in Studio, OthersStay(s), Own(s)', Heard(s)' PROVE Clocks'
  BY <1>1, StaysClocks DEF OthersStay, Clocks
<1>2. CASE \E s \in Studio, on \in (SUBSET Register) \ {{}} : Edit(s, on)
  <2>1. PICK s \in Studio, on \in SUBSET Register : Edit(s, on)
    BY <1>2
  <2>2. OthersStay(s)
    BY <2>1, EditAt
  <2>3. Own(s)' /\ Heard(s)'
    BY <2>1, EditClocks
  <2> QED BY <1>1, <2>2, <2>3
<1>3. CASE \E s \in Studio : \/ Send(s) \/ Push(s) \/ Refuse(s) \/ AskAfterRefusal(s)
                             \/ NotDelivered(s) \/ NotAnswered(s)
  BY <1>1, <1>3, SendClocks
<1>4. CASE \E s \in Studio, i \in 0..Asks :
             AskRegularly(s, i) \/ ReadBatches(s, i) \/ Adopt(s, i) \/ PollFails(s, i)
  BY <1>1, <1>4, PollClocks
<1>5. CASE AtServer
  BY <1>5, AtServerAt, StaysClocks DEF Clocks
<1> QED BY <1>2, <1>3, <1>4, <1>5, StepsAre

LEMMA InitClocks == Init => Clocks
<1> SUFFICES ASSUME Init, NEW s \in Studio PROVE Own(s) /\ Heard(s)
  BY DEF Clocks
<1>1. studio[s].pending = <<>> /\ out[s].ops = <<>> /\ studio[s].clock = 0 /\ studio[s].doc = Seed(Blank)
  BY DEF Init, Unsent
<1>2. Own(s)
  BY <1>1, NothingIn DEF Own
<1>3. \A r \in Register : Seed(Blank)[r].c = 0
  <2>1. ASSUME NEW r \in Register PROVE Seed(Blank)[r].c = 0
    <3>1. Seed(Blank)[r] = [v |-> Blank[r], c |-> 0, by |-> 0]
      BY DEF Seed
    <3> QED BY ONLY <3>1
  <2> QED BY ONLY <2>1
<1> QED BY <1>1, <1>2, <1>3 DEF Heard

(***************************************************************************)
(* Epochs: every fresh start was asked for by a restart or a save.         *)
(***************************************************************************)

Busy == {q \in Saver : save[q].at # "idle"}

Starts ==
    /\ IsFiniteSet(Busy)
    /\ shared.epoch + Cardinality(Busy) <= 1 + restarts + saves
    /\ \A q \in Saver : save[q].at = "read" =>
         save[q].epoch + Cardinality(Busy) <= 1 + restarts + saves

LEMMA InitStarts == Init => Starts
<1> SUFFICES ASSUME Init PROVE Starts
  OBVIOUS
<1>1. \A q \in Saver : save[q].at = "idle"
  BY DEF Init, Idle
<1>2. Busy = {}
  BY <1>1 DEF Busy
<1>3. IsFiniteSet(Busy) /\ Cardinality(Busy) = 0
  BY <1>2, FS_EmptySet
<1> QED BY <1>1, <1>3 DEF Starts, Init

\* A request begins.
LEMMA BeginStarts ==
    ASSUME Types, Starts, NEW q \in Saver, save[q].at = "idle", NEW x, x.at # "idle",
           save' = [save EXCEPT ![q] = x], shared' = shared,
           x.at = "read" => x.epoch = shared.epoch,
           NEW a \in Nat, NEW b \in Nat, restarts' = a, saves' = b, a + b = restarts + saves + 1
    PROVE  Starts'
<1>1. save'[q] = x /\ \A p \in Saver \ {q} : save'[p] = save[p]
  BY DEF Types, SaveTypes
<1>2. Busy' = Busy \cup {q} /\ q \notin Busy
  BY <1>1 DEF Busy
<1>3. IsFiniteSet(Busy') /\ Cardinality(Busy') = Cardinality(Busy) + 1 /\ Cardinality(Busy) \in Nat
  BY <1>2, FS_AddElement, FS_CardinalityType DEF Starts
<1>4. shared.epoch \in Nat /\ restarts \in Nat /\ saves \in Nat
  BY FieldsAre DEF Types, BoundTypes
<1> DEFINE bound == 1 + restarts + saves
           later == 1 + a + b
<1>a. bound \in Nat /\ later = bound + 1
  BY <1>4
<1>b. shared.epoch + Cardinality(Busy) <= bound
  BY DEF Starts
<1> HIDE DEF bound, later
<1>5. shared.epoch + Cardinality(Busy') <= later
  BY <1>3, <1>4, <1>a, <1>b
<1>6. ASSUME NEW p \in Saver, save'[p].at = "read"
      PROVE  save'[p].epoch + Cardinality(Busy') <= later
  <2>1. CASE p = q
    BY <1>1, <1>5, <1>6, <2>1
  <2>2. CASE p # q
    <3>1. save'[p] = save[p] /\ save[p].epoch \in Nat
      BY <1>1, <1>6, <2>2, FieldsAre DEF ReadRec
    <3>2. save[p].epoch + Cardinality(Busy) <= bound
      BY <1>6, <3>1 DEF Starts, bound
    <3> QED BY <1>3, <1>a, <3>1, <3>2
  <2> QED BY <2>1, <2>2
<1> QED BY <1>3, <1>5, <1>6 DEF Starts, later

\* A request ends, and may have started the copy again.
LEMMA EndStarts ==
    ASSUME Types, Starts, NEW q \in Saver, save[q].at # "idle",
           save' = [save EXCEPT ![q] = Idle], UNCHANGED <<restarts, saves>>,
           \/ shared'.epoch = shared.epoch
           \/ save[q].at = "read" /\ shared'.epoch = save[q].epoch + 1
    PROVE  Starts'
<1>1. save'[q] = Idle /\ \A p \in Saver \ {q} : save'[p] = save[p]
  BY DEF Types, SaveTypes
<1>2. Busy' = Busy \ {q} /\ q \in Busy
  BY <1>1 DEF Busy, Idle
<1>3. IsFiniteSet(Busy') /\ Cardinality(Busy') = Cardinality(Busy) - 1 /\ Cardinality(Busy) \in Nat
  BY <1>2, FS_RemoveElement, FS_CardinalityType DEF Starts
<1>4. shared.epoch \in Nat /\ restarts \in Nat /\ saves \in Nat
  BY FieldsAre DEF Types, BoundTypes
<1>5. shared'.epoch + Cardinality(Busy') <= 1 + restarts' + saves'
  <2>1. CASE shared'.epoch = shared.epoch
    BY <1>3, <1>4, <2>1 DEF Starts
  <2>2. CASE save[q].at = "read" /\ shared'.epoch = save[q].epoch + 1
    <3>1. save[q].epoch \in Nat /\ save[q].epoch + Cardinality(Busy) <= 1 + restarts + saves
      BY <2>2, FieldsAre DEF ReadRec, Starts
    <3> QED BY <1>3, <1>4, <2>2, <3>1
  <2> QED BY <2>1, <2>2
<1>6. ASSUME NEW p \in Saver, save'[p].at = "read"
      PROVE  save'[p].epoch + Cardinality(Busy') <= 1 + restarts' + saves'
  <2>1. p # q
    BY <1>1, <1>6 DEF Idle
  <2>2. save'[p] = save[p] /\ save[p].epoch \in Nat
    BY <1>1, <1>6, <2>1, FieldsAre DEF ReadRec
  <2>3. save[p].epoch + Cardinality(Busy) <= 1 + restarts + saves
    BY <1>6, <2>2 DEF Starts
  <2> QED BY <1>3, <1>4, <2>2, <2>3
<1> QED BY <1>3, <1>5, <1>6 DEF Starts

LEMMA StepStarts == Types /\ Starts /\ [Next]_vars => Starts'
<1> SUFFICES ASSUME Types, Starts, [Next]_vars PROVE Starts'
  OBVIOUS
<1>1. ASSUME shared'.epoch = shared.epoch, save' = save, UNCHANGED <<restarts, saves>> PROVE Starts'
  <2>1. Busy' = Busy
    BY <1>1 DEF Busy
  <2> QED BY <1>1, <2>1 DEF Starts
<1>2. CASE \E s \in Studio, on \in (SUBSET Register) \ {{}} : Edit(s, on)
  <2>1. PICK s \in Studio, on \in SUBSET Register : Edit(s, on)
    BY <1>2
  <2>2. UNCHANGED <<shared, save, restarts, saves>>
    BY <2>1 DEF Edit, server
  <2> QED BY <1>1, <2>2
<1>3. CASE \E s \in Studio : \/ Send(s) \/ Push(s) \/ Refuse(s) \/ AskAfterRefusal(s)
                             \/ NotDelivered(s) \/ NotAnswered(s)
  <2>1. PICK s \in Studio : \/ Send(s) \/ Push(s) \/ Refuse(s) \/ AskAfterRefusal(s)
                             \/ NotDelivered(s) \/ NotAnswered(s)
    BY <1>3
  <2>2. ASSUME MergeAtServer(s) PROVE shared'.epoch = shared.epoch
    BY <2>2 DEF MergeAtServer, Types, ServerTypes
  <2>3. shared'.epoch = shared.epoch /\ UNCHANGED <<save, restarts, saves>>
    BY <2>1, <2>2 DEF Send, Push, Refuse, AskAfterRefusal, NotDelivered, NotAnswered, server
  <2> QED BY <1>1, <2>3
<1>4. CASE \E s \in Studio, i \in 0..Asks :
             AskRegularly(s, i) \/ ReadBatches(s, i) \/ Adopt(s, i) \/ PollFails(s, i)
  <2>1. PICK s \in Studio, i \in 0..Asks :
             AskRegularly(s, i) \/ ReadBatches(s, i) \/ Adopt(s, i) \/ PollFails(s, i)
    BY <1>4
  <2>2. UNCHANGED <<shared, save, restarts, saves>>
    BY <2>1 DEF AskRegularly, ReadBatches, Adopt, PollFails, server
  <2> QED BY <1>1, <2>2
<1>5. CASE \E q \in Saver : SaveRefused(q)
  BY <1>5, EndStarts DEF SaveRefused, server
<1>6. CASE \E q \in Saver : SaveRead(q)
  <2>1. PICK q \in Saver : SaveRead(q)
    BY <1>6
  <2> DEFINE x == Reading(save[q].by, save[q].new, save[q].from, save[q].expected)
  <2>2. save' = [save EXCEPT ![q] = x] /\ save[q].at = "asked" /\ UNCHANGED <<shared, restarts, saves>>
    BY <2>1 DEF SaveRead, server, Types, SaveTypes
  <2>3. x.at = "read" /\ x.epoch = shared.epoch
    BY DEF Reading
  <2> HIDE DEF x
  <2>4. save'[q] = x /\ \A p \in Saver \ {q} : save'[p] = save[p]
    BY <2>2 DEF Types, SaveTypes
  <2>5. Busy' = Busy
    BY <2>2, <2>3, <2>4 DEF Busy
  <2> QED BY <2>2, <2>3, <2>4, <2>5 DEF Starts
<1>7. CASE \E q \in Saver : SaveWrite(q)
  <2>1. PICK q \in Saver : SaveWrite(q)
    BY <1>7
  <2>2. save[q].at = "read" /\ save' = [save EXCEPT ![q] = Idle] /\ UNCHANGED <<restarts, saves>>
    BY <2>1 DEF SaveWrite
  <2>3. shared'.epoch = shared.epoch \/ shared'.epoch = save[q].epoch + 1
    BY <2>1 DEF SaveWrite, CopyAfter, Types, ServerTypes
  <2> QED BY <2>2, <2>3, EndStarts
<1>8. CASE \E q \in Saver, s \in Studio : SaveAsk(q, s)
  <2>1. PICK q \in Saver, s \in Studio : SaveAsk(q, s)
    BY <1>8
  <2> DEFINE x == [at |-> "asked", by |-> s, new |-> Materialise(studio[s].doc),
                   from |-> studio[s].epoch, expected |-> studio[s].revision]
  <2>2. save' = [save EXCEPT ![q] = x] /\ save[q].at = "idle" /\ x.at = "asked" /\ shared' = shared
        /\ restarts' = restarts /\ saves' = saves + 1
    BY <2>1 DEF SaveAsk, server
  <2>3. restarts \in Nat /\ saves + 1 \in Nat /\ restarts + (saves + 1) = restarts + saves + 1
    BY DEF Types, BoundTypes
  <2> HIDE DEF x
  <2> QED BY <2>2, <2>3, BeginStarts
<1>9. CASE \E q \in Saver, r \in Register : ChangeOutside(q, r)
  <2>1. PICK q \in Saver, r \in Register : ChangeOutside(q, r)
    BY <1>9
  <2> DEFINE x == Reading(0, [recipe.saved EXCEPT ![r] = MaxEdits + restarts + 1], 0, 0)
  <2>2. save' = [save EXCEPT ![q] = x] /\ save[q].at = "idle" /\ shared' = shared
        /\ restarts' = restarts + 1 /\ saves' = saves
    BY <2>1 DEF ChangeOutside, server
  <2>3. x.at = "read" /\ x.epoch = shared.epoch
    BY DEF Reading
  <2>4. restarts + 1 \in Nat /\ saves \in Nat /\ (restarts + 1) + saves = restarts + saves + 1
    BY DEF Types, BoundTypes
  <2> HIDE DEF x
  <2> QED BY <2>2, <2>3, <2>4, BeginStarts
<1>10. CASE DiscardUnsaved
  <2>1. shared'.epoch = shared.epoch + 1 /\ restarts' = restarts + 1 /\ save' = save /\ saves' = saves
    BY <1>10 DEF DiscardUnsaved, Types, ServerTypes
  <2>2. Busy' = Busy /\ Cardinality(Busy) \in Nat
    BY <2>1, FS_CardinalityType DEF Busy, Starts
  <2>3. shared.epoch \in Nat /\ restarts \in Nat /\ saves \in Nat
    BY FieldsAre DEF Types, BoundTypes
  <2>4. \A q \in Saver : save[q].at = "read" => save[q].epoch \in Nat
    BY FieldsAre DEF ReadRec
  <2> QED BY <2>1, <2>2, <2>3, <2>4 DEF Starts
<1>11. CASE UNCHANGED vars
  BY <1>1, <1>11 DEF vars, server
<1> QED BY <1>2, <1>3, <1>4, <1>5, <1>6, <1>7, <1>8, <1>9, <1>10, <1>11, StepsAre DEF AtServer, SaveStep

(***************************************************************************)
(* What holds whatever happens.                                            *)
(***************************************************************************)

\* Counters, clocks and epochs stay within their bounds, whatever mishaps there are.
Counting == Types /\ Clocks /\ Starts

LEMMA CountingHolds == Spec => []Counting
<1>1. Init => Counting
  BY InitTypes, InitClocks, InitStarts DEF Counting
<1>2. Counting /\ [Next]_vars => Counting'
  BY StepTypes, StepClocks, StepStarts DEF Counting
<1> QED BY <1>1, <1>2, PTL DEF Spec

LEMMA CountingIsTyped == Counting => TypeOK
<1> SUFFICES ASSUME Counting PROVE TypeOK
  OBVIOUS
<1> USE DEF Counting
<1>1. MaxEdits \in Nat /\ MaxRestarts \in Nat /\ MaxSaves \in Nat /\ Edits \in Nat /\ Edits <= MaxEdits
  BY CoEditAssumption, ToldIs DEF Types
<1>2. CellsUpTo(Edits) \subseteq Cell /\ Docs \subseteq Doc
  BY <1>1 DEF CellsUpTo, Cell, Docs, Doc
<1>3. Told \subseteq Change
  <2>1. OpsUpTo(Edits) \subseteq Change
    BY <1>1 DEF OpsUpTo, Change
  <2> QED BY <2>1, ToldIs DEF Types
<1>4. Seq(Told) \subseteq Seq(Change)
  BY <1>3
<1>5. shared \in [epoch : 1..(MaxRestarts + MaxSaves + 1), seq : Nat, doc : Doc]
  <2>1. shared \in [epoch : Nat \ {0}, seq : Nat, doc : Doc]
    BY <1>2 DEF Types, ServerTypes
  <2>2. shared.epoch <= 1 + restarts + saves
    <3>1. Cardinality(Busy) \in Nat
      BY FS_CardinalityType DEF Starts
    <3> QED BY <2>1, <3>1 DEF Starts, Types, BoundTypes
  <2>3. shared.epoch \in 1..(MaxRestarts + MaxSaves + 1)
    <3>1. restarts \in 0..MaxRestarts /\ saves \in 0..MaxSaves
      BY DEF Types, BoundTypes
    <3> QED BY <1>1, <2>1, <2>2, <3>1
  <2> QED BY <2>1, <2>3
<1>6. \A b \in batches : b.seq \in 1..shared.seq /\ b.ops \in Seq(Change)
  BY <1>4 DEF Types, ServerTypes
<1>7. ASSUME NEW s \in Studio
      PROVE  studio[s] \in [doc : Doc, pending : Seq(Change), epoch : Nat, seq : Nat,
                            clock : 0..MaxEdits, revision : Nat \ {0}]
  <2>1. studio[s] \in StudioRec
    BY FieldsAre
  <2>2. 0..Edits \subseteq 0..MaxEdits
    BY <1>1
  <2> QED BY <1>2, <1>4, <2>1, <2>2 DEF StudioRec
<1>8. ASSUME NEW s \in Studio
      PROVE  out[s].at \in {"none", "sent", "refused", "asking"} /\ out[s].ops \in Seq(Change)
  <2>1. out[s] \in OutRec
    BY FieldsAre
  <2> QED BY <1>4, <2>1 DEF OutRec
<1>9. ASSUME NEW s \in Studio, NEW i \in 0..Asks PROVE poll[s][i].at \in {"none", "copy", "ready"}
  <2>1. poll[s][i] \in {Quiet} \cup PollRec
    BY FieldsAre
  <2> QED BY <2>1 DEF Quiet, PollRec
<1>10. ASSUME NEW q \in Saver PROVE save[q].at \in {"idle", "asked", "read"}
  <2>1. save[q] \in {Idle} \cup AskedRec \cup ReadRec
    BY FieldsAre
  <2> QED BY <2>1 DEF Idle, AskedRec, ReadRec
<1> QED BY <1>5, <1>6, <1>7, <1>8, <1>9, <1>10 DEF TypeOK, Types, RecipeTypes, BoundTypes

\* Counters, clocks, epochs and revisions keep their types and stay within the bounds that the changes,
\* restarts and saves made so far give them, whatever order the steps come in and
\* whatever mishaps there are (coedit.py, use-recipe-editing.ts).
THEOREM CountersHold == Spec => []TypeOK
BY CountingHolds, CountingIsTyped, PTL

\* An edit is past every stamp its Studio has seen, so it shows at once where it
\* is made, whatever mishaps there are (use-recipe-editing.ts: tick, observe).
THEOREM EditsWinAtHome == Spec => EditsShowAtOnce
<1>1. ASSUME Counting, [Next]_vars
      PROVE  [\A m \in made' \ made : \A r \in m.op.on : studio'[m.op.by].doc[r].v = m.op.v]_vars
  <2> USE <1>1 DEF Counting
  <2>1. ASSUME NEW s \in Studio, NEW on \in SUBSET Register, Edit(s, on),
               NEW m \in made' \ made, NEW r \in m.op.on
        PROVE  studio'[m.op.by].doc[r].v = m.op.v
    <3>1. m = [op |-> OpOf(s, on), epoch |-> Latest(1, {studio[s].epoch})]
      BY <2>1, EditMakes
    <3>2. m.op = OpOf(s, on)
      BY <3>1
    <3>3. m.op.by = s /\ m.op.on = on
      BY <3>2 DEF OpOf
    <3>4. studio'[s].doc[r] = CellOf(OpOf(s, on))
      BY <2>1, <3>3, EditClocks
    <3> QED BY <3>2, <3>3, <3>4 DEF CellOf
  <2>2. ASSUME made' = made
        PROVE  \A m \in made' \ made : \A r \in m.op.on : studio'[m.op.by].doc[r].v = m.op.v
    BY <2>2
  <2>3. CASE \E s \in Studio, on \in (SUBSET Register) \ {{}} : Edit(s, on)
    BY <2>1, <2>3
  <2>4. CASE \E s \in Studio : \/ Send(s) \/ Push(s) \/ Refuse(s) \/ AskAfterRefusal(s)
                               \/ NotDelivered(s) \/ NotAnswered(s)
    BY <2>2, <2>4, SendAt, PushAt, RefuseAt, AskAfterRefusalAt, NotDeliveredAt, NotAnsweredAt
  <2>5. CASE \E s \in Studio, i \in 0..Asks :
               AskRegularly(s, i) \/ ReadBatches(s, i) \/ Adopt(s, i) \/ PollFails(s, i)
    BY <2>2, <2>5, AskRegularlyAt, ReadBatchesAt, AdoptAt, PollFailsAt
  <2>6. CASE AtServer
    BY <2>2, <2>6, AtServerAt
  <2> QED BY <2>3, <2>4, <2>5, <2>6, StepsAre
<1> QED BY <1>1, CountingHolds, PTL DEF Spec, EditsShowAtOnce

(***************************************************************************)
(* Saves, where they do not overlap: what a save read is still so when it  *)
(* writes.                                                                 *)
(***************************************************************************)

Saving ==
    /\ \A p, q \in Saver : save[p].at = "read" /\ save[q].at = "read" => p = q
    /\ \A q \in Saver : save[q].at = "read" =>
         /\ save[q].epoch = shared.epoch
         /\ save[q].revision = recipe.revision
         /\ save[q].expected \in {0, recipe.revision}

\* The copy starts again from what is saved; batches up to the n-th go.
Fresh(n) ==
    /\ shared'.epoch = shared.epoch + 1
    /\ shared'.seq = shared.seq
    /\ shared'.doc = Seed(recipe'.saved)
    /\ batches' = {b \in batches : b.seq > n}

LEMMA SaveWriteIs ==
    ASSUME Types, Saving, NEW q \in Saver, SaveWrite(q)
    PROVE  /\ save[q] \in ReadRec /\ save[q].at = "read" /\ save' = [save EXCEPT ![q] = Idle]
           /\ UNCHANGED <<restarts, saves>>
           /\ \/ recipe' = recipe /\ UNCHANGED server
              \/ /\ recipe' = [revision |-> recipe.revision + 1, saved |-> save[q].new]
                 /\ save[q].keeps => UNCHANGED server
                 /\ ~ save[q].keeps => Fresh(save[q].seq)
<1>1. /\ save[q].at = "read" /\ save' = [save EXCEPT ![q] = Idle] /\ UNCHANGED <<restarts, saves>>
  BY DEF SaveWrite
<1>2. save[q] \in ReadRec /\ save[q].epoch = shared.epoch /\ save[q].revision = recipe.revision
  BY <1>1, FieldsAre DEF Saving
<1>3. CASE save[q].new = recipe.saved
  <2>1. recipe' = recipe /\ shared' = shared /\ batches' = batches
    BY <1>3 DEF SaveWrite
  <2> QED BY <1>1, <1>2, <2>1 DEF server
<1>4. CASE save[q].new # recipe.saved
  <2>1. /\ recipe' = [revision |-> save[q].revision + 1, saved |-> save[q].new]
        /\ shared' = CopyAfter(q) /\ batches' = BatchesAfter(q)
    BY <1>4 DEF SaveWrite
  <2>2. recipe' = [revision |-> recipe.revision + 1, saved |-> save[q].new]
    BY <1>2, <2>1
  <2>3. CASE save[q].keeps
    BY <1>1, <1>2, <2>1, <2>2, <2>3 DEF CopyAfter, BatchesAfter, server
  <2>4. CASE ~ save[q].keeps
    <3>1. shared' = [shared EXCEPT !.epoch = save[q].epoch + 1, !.doc = Seed(save[q].new)]
          /\ batches' = {b \in batches : b.seq > save[q].seq}
      BY <2>1, <2>4 DEF CopyAfter, BatchesAfter
    <3>2. shared \in [epoch : Nat \ {0}, seq : Nat, doc : Docs]
      BY DEF Types, ServerTypes
    <3>3. shared'.epoch = shared.epoch + 1 /\ shared'.seq = shared.seq /\ shared'.doc = Seed(save[q].new)
      BY <1>2, <3>1, <3>2
    <3>4. recipe'.saved = save[q].new
      BY <2>2
    <3>5. Fresh(save[q].seq)
      BY <3>1, <3>3, <3>4 DEF Fresh
    <3> QED BY <1>1, <1>2, <2>2, <2>4, <3>5
  <2> QED BY <2>3, <2>4
<1> QED BY <1>3, <1>4

\* No save begins to read before another has written.
SavesInTurn == "saves overlap" \notin Mishaps

LEMMA InTurn == Mishaps = {} => SavesInTurn
BY DEF SavesInTurn

LEMMA DiscardIs ==
    ASSUME Types, DiscardUnsaved
    PROVE  Fresh(shared.seq) /\ recipe' = recipe /\ save' = save
           /\ (SavesInTurn => \A q \in Saver : save[q].at # "read")
<1>1. /\ shared' = [shared EXCEPT !.epoch = @ + 1, !.doc = Seed(recipe.saved)] /\ batches' = {}
      /\ recipe' = recipe /\ save' = save
      /\ (SavesInTurn => \A q \in Saver : save[q].at # "read")
  BY DEF DiscardUnsaved, Alone, SavesInTurn
<1>2. /\ shared \in [epoch : Nat \ {0}, seq : Nat, doc : Docs]
      /\ \A b \in batches : b.seq \in 1..shared.seq
  BY DEF Types, ServerTypes
<1>3. batches' = {b \in batches : b.seq > shared.seq}
  BY <1>1, <1>2
<1> QED BY <1>1, <1>2, <1>3 DEF Fresh

LEMMA MergeIsAt ==
    ASSUME Types, NEW s \in Studio, MergeAtServer(s)
    PROVE  /\ shared'.epoch = shared.epoch /\ shared'.seq = shared.seq + 1
           /\ shared'.doc = ApplyOps(shared.doc, out[s].ops)
           /\ out[s].epoch = shared.epoch /\ out[s].at = "sent"
BY DEF MergeAtServer, SameEpoch, Types, ServerTypes

LEMMA StepSaving ==
    ASSUME SavesInTurn, Types, Saving, [Next]_vars
    PROVE  Saving'
<1>1. ASSUME shared'.epoch = shared.epoch, save' = save, recipe' = recipe PROVE Saving'
  BY <1>1 DEF Saving
<1>2. CASE \E s \in Studio, on \in (SUBSET Register) \ {{}} : Edit(s, on)
  BY <1>1, <1>2 DEF Edit, server
<1>3. CASE \E s \in Studio : \/ Send(s) \/ Push(s) \/ Refuse(s) \/ AskAfterRefusal(s)
                             \/ NotDelivered(s) \/ NotAnswered(s)
  <2>1. PICK s \in Studio : \/ Send(s) \/ Push(s) \/ Refuse(s) \/ AskAfterRefusal(s)
                             \/ NotDelivered(s) \/ NotAnswered(s)
    BY <1>3
  <2>2. shared'.epoch = shared.epoch /\ UNCHANGED <<save, recipe>>
    BY <2>1, MergeIsAt DEF Send, Push, Refuse, AskAfterRefusal, NotDelivered, NotAnswered, server
  <2> QED BY <1>1, <2>2
<1>4. CASE \E s \in Studio, i \in 0..Asks :
             AskRegularly(s, i) \/ ReadBatches(s, i) \/ Adopt(s, i) \/ PollFails(s, i)
  <2>1. PICK s \in Studio, i \in 0..Asks :
          AskRegularly(s, i) \/ ReadBatches(s, i) \/ Adopt(s, i) \/ PollFails(s, i)
    BY <1>4
  <2>2. UNCHANGED <<server, save, recipe>>
    BY <2>1 DEF AskRegularly, ReadBatches, Adopt, PollFails
  <2> QED BY <1>1, <2>2 DEF server
<1>5. CASE UNCHANGED vars
  BY <1>1, <1>5 DEF vars, server
<1>6. CASE DiscardUnsaved
  <2>1. save' = save /\ \A q \in Saver : save[q].at # "read"
    BY <1>6, DiscardIs
  <2> QED BY <2>1 DEF Saving
<1>7. ASSUME NEW q \in Saver, NEW x, save' = [save EXCEPT ![q] = x], x.at # "read",
             UNCHANGED <<server, recipe>>
      PROVE  Saving'
  <2>1. save'[q] = x /\ \A p \in Saver \ {q} : save'[p] = save[p]
    BY <1>7 DEF Types, SaveTypes
  <2>2. \A p \in Saver : save'[p].at = "read" => p # q /\ save'[p] = save[p]
    BY <1>7, <2>1
  <2> QED BY <1>7, <2>2 DEF Saving, server
<1>8. ASSUME NEW q \in Saver, NEW x, save' = [save EXCEPT ![q] = x], \A p \in Saver : save[p].at # "read",
             x.epoch = shared.epoch, x.revision = recipe.revision, x.expected \in {0, recipe.revision},
             UNCHANGED <<server, recipe>>
      PROVE  Saving'
  <2>1. save'[q] = x /\ \A p \in Saver \ {q} : save'[p] = save[p]
    BY <1>8 DEF Types, SaveTypes
  <2>2. \A p \in Saver : save'[p].at = "read" => p = q
    BY <1>8, <2>1
  <2> QED BY <1>8, <2>1, <2>2 DEF Saving, server
<1>9. CASE \E q \in Saver : SaveRefused(q)
  <2>1. PICK q \in Saver : SaveRefused(q)
    BY <1>9
  <2>2. save' = [save EXCEPT ![q] = Idle] /\ UNCHANGED <<server, recipe>>
    BY <2>1 DEF SaveRefused
  <2>3. Idle.at # "read"
    BY DEF Idle
  <2> QED BY <1>7, <2>2, <2>3
<1>10. CASE \E q \in Saver, s \in Studio : SaveAsk(q, s)
  <2>1. PICK q \in Saver, s \in Studio : SaveAsk(q, s)
    BY <1>10
  <2> DEFINE x == [at |-> "asked", by |-> s, new |-> Materialise(studio[s].doc),
                   from |-> studio[s].epoch, expected |-> studio[s].revision]
  <2>2. save' = [save EXCEPT ![q] = x] /\ UNCHANGED <<server, recipe>> /\ x.at = "asked"
    BY <2>1 DEF SaveAsk
  <2> HIDE DEF x
  <2> QED BY <1>7, <2>2
<1>11. CASE \E q \in Saver : SaveRead(q)
  <2>1. PICK q \in Saver : SaveRead(q)
    BY <1>11
  <2> DEFINE x == Reading(save[q].by, save[q].new, save[q].from, save[q].expected)
  <2>2. /\ save' = [save EXCEPT ![q] = x] /\ UNCHANGED <<server, recipe>>
        /\ \A p \in Saver : save[p].at # "read"
        /\ save[q].expected \in {0, recipe.revision}
    BY <2>1 DEF SaveRead, Alone, SavesInTurn, CheckSave, Types, SaveTypes
  <2>3. x.epoch = shared.epoch /\ x.revision = recipe.revision /\ x.expected = save[q].expected
    BY DEF Reading
  <2> HIDE DEF x
  <2> QED BY <1>8, <2>2, <2>3
<1>12. CASE \E q \in Saver, r \in Register : ChangeOutside(q, r)
  <2>1. PICK q \in Saver, r \in Register : ChangeOutside(q, r)
    BY <1>12
  <2> DEFINE x == Reading(0, [recipe.saved EXCEPT ![r] = MaxEdits + restarts + 1], 0, 0)
  <2>2. /\ save' = [save EXCEPT ![q] = x] /\ UNCHANGED <<server, recipe>>
        /\ \A p \in Saver : save[p].at # "read"
    BY <2>1 DEF ChangeOutside, Alone, SavesInTurn
  <2>3. x.epoch = shared.epoch /\ x.revision = recipe.revision /\ x.expected = 0
    BY DEF Reading
  <2> HIDE DEF x
  <2> QED BY <1>8, <2>2, <2>3
<1>13. CASE \E q \in Saver : SaveWrite(q)
  <2>1. PICK q \in Saver : SaveWrite(q)
    BY <1>13
  <2>2. save[q].at = "read" /\ save' = [save EXCEPT ![q] = Idle]
    BY <2>1, SaveWriteIs
  <2>3. save'[q] = Idle /\ \A p \in Saver \ {q} : save'[p] = save[p]
    BY <2>2 DEF Types, SaveTypes
  <2>4. \A p \in Saver : save'[p].at # "read"
    BY <2>2, <2>3 DEF Saving, Idle
  <2> QED BY <2>4 DEF Saving
<1> QED BY <1>2, <1>3, <1>4, <1>5, <1>6, <1>9, <1>10, <1>11, <1>12, <1>13, StepsAre DEF AtServer, SaveStep

LEMMA SavingHolds == ASSUME SavesInTurn PROVE Spec => []Saving
<1>1. Init => Saving
  BY DEF Init, Saving, Idle
<1>2. Counting /\ Saving /\ [Next]_vars => Saving'
  BY StepSaving DEF Counting
<1> QED BY <1>1, <1>2, CountingHolds, PTL DEF Spec

(***************************************************************************)
(* Epochs of what is under way: nothing is ahead of the copy, and a        *)
(* refused send is of an epoch that is over.                               *)
(***************************************************************************)

SendInTime(s) ==
    /\ studio[s].epoch \in 1..shared.epoch
    /\ out[s].at \in {"none", "asking"} => out[s].ops = <<>>
    /\ out[s].at \in {"sent", "refused"} => out[s].epoch <= studio[s].epoch
    /\ out[s].at = "refused" => out[s].epoch < shared.epoch
    /\ poll[s][0].at # "none" => out[s].at = "asking"

PollInTime(s, i) ==
    poll[s][i].at # "none" =>
        /\ poll[s][i].epoch <= shared.epoch
        /\ poll[s][i].seq <= shared.seq
        /\ poll[s][i].at = "copy" => ~ poll[s][i].full
        /\ ~ poll[s][i].full => poll[s][i].epoch <= studio[s].epoch

InTime(s) == SendInTime(s) /\ \A i \in 0..Asks : PollInTime(s, i)

\* From any batch that is kept on, all are kept.
Contiguous == \A b \in batches : \A n \in b.seq..shared.seq : \E a \in batches : a.seq = n

Timely == Contiguous /\ \A s \in Studio : InTime(s)

LEMMA InitTimely == ASSUME Mishaps = {} PROVE Init => Timely
<1> SUFFICES ASSUME Init PROVE Timely
  OBVIOUS
<1>1. Contiguous
  BY DEF Init, Contiguous
<1>2. ASSUME NEW s \in Studio PROVE InTime(s)
  <2>1. studio[s].epoch = 1 /\ out[s] = Unsent /\ shared.epoch = 1
    BY DEF Init, EditsEarly
  <2>2. \A i \in 0..Asks : poll[s][i].at = "none"
    BY DEF Init, Quiet
  <2> QED BY <2>1, <2>2, ZeroIsAPoll DEF InTime, SendInTime, PollInTime, Unsent
<1> QED BY <1>1, <1>2 DEF Timely

\* The copy only moves on.
MovesOn == /\ shared'.epoch \in Nat /\ shared'.epoch >= shared.epoch
           /\ shared'.seq \in Nat /\ shared'.seq >= shared.seq

LEMMA ServerStep ==
    ASSUME Mishaps = {}, Types, Saving, [Next]_vars
    PROVE  \/ UNCHANGED server
           \/ \E s \in Studio : (Push(s) \/ NotAnswered(s)) /\ MergeAtServer(s)
           \/ AtServer /\ \E n \in Nat : Fresh(n)
<1>1. CASE \E s \in Studio, on \in (SUBSET Register) \ {{}} : Edit(s, on)
  BY <1>1 DEF Edit
<1>2. CASE \E s \in Studio : \/ Send(s) \/ Push(s) \/ Refuse(s) \/ AskAfterRefusal(s)
                             \/ NotDelivered(s) \/ NotAnswered(s)
  BY <1>2 DEF Send, Push, Refuse, AskAfterRefusal, NotDelivered, NotAnswered
<1>3. CASE \E s \in Studio, i \in 0..Asks :
             AskRegularly(s, i) \/ ReadBatches(s, i) \/ Adopt(s, i) \/ PollFails(s, i)
  BY <1>3 DEF AskRegularly, ReadBatches, Adopt, PollFails
<1>4. CASE \/ \E q \in Saver : SaveRefused(q) \/ SaveRead(q)
           \/ \E q \in Saver, s \in Studio : SaveAsk(q, s)
           \/ \E q \in Saver, r \in Register : ChangeOutside(q, r)
           \/ UNCHANGED vars
  BY <1>4 DEF SaveRefused, SaveRead, SaveAsk, ChangeOutside, vars
<1>5. CASE DiscardUnsaved
  BY <1>5, DiscardIs, FieldsAre DEF AtServer
<1>6. CASE \E q \in Saver : SaveWrite(q)
  <2>1. PICK q \in Saver : SaveWrite(q)
    BY <1>6
  <2>2. UNCHANGED server \/ (save[q] \in ReadRec /\ Fresh(save[q].seq))
    BY <2>1, SaveWriteIs
  <2>3. AtServer
    BY <1>6 DEF AtServer, SaveStep
  <2> QED BY <2>2, <2>3 DEF ReadRec
<1> QED BY <1>1, <1>2, <1>3, <1>4, <1>5, <1>6, StepsAre DEF AtServer, SaveStep

LEMMA ServerMovesOn ==
    ASSUME Mishaps = {}, Types, Saving, [Next]_vars
    PROVE  MovesOn
<1>1. shared.epoch \in Nat /\ shared.seq \in Nat
  BY FieldsAre
<1>2. CASE UNCHANGED server
  BY <1>1, <1>2 DEF MovesOn, server
<1>3. CASE \E s \in Studio : MergeAtServer(s)
  <2>1. shared'.epoch = shared.epoch /\ shared'.seq = shared.seq + 1
    BY <1>3, MergeIsAt
  <2> QED BY <1>1, <2>1 DEF MovesOn
<1>4. CASE \E n \in Nat : Fresh(n)
  BY <1>1, <1>4 DEF MovesOn, Fresh
<1> QED BY <1>2, <1>3, <1>4, ServerStep

LEMMA StepContiguous ==
    ASSUME Mishaps = {}, Types, Saving, Contiguous, [Next]_vars
    PROVE  Contiguous'
<1>1. shared.seq \in Nat /\ \A b \in batches : b.seq \in 1..shared.seq
  BY FieldsAre DEF Types, ServerTypes
<1>2. CASE UNCHANGED server
  BY <1>2 DEF Contiguous, server
<1>3. CASE \E s \in Studio : MergeAtServer(s)
  <2>1. PICK s \in Studio : MergeAtServer(s)
    BY <1>3
  <2> DEFINE new == [seq |-> shared.seq + 1, ops |-> out[s].ops]
             first == shared.seq + 1 - KeepBatches
  <2>2. /\ batches' = {b \in batches \cup {new} : b.seq > first} /\ shared'.seq = shared.seq + 1
        /\ new.seq = shared.seq + 1
    BY <2>1, MergeIsAt DEF MergeAtServer
  <2>3. first \in Int /\ shared.seq + 1 > first
    <3>1. KeepBatches \in Nat \ {0}
      BY CoEditAssumption
    <3> QED BY <1>1, <3>1
  <2>4. new \in batches'
    <3> HIDE DEF new, first
    <3> QED BY <1>1, <2>2, <2>3
  <2> HIDE DEF new, first
  <2>5. ASSUME NEW b \in batches', NEW n \in b.seq..(shared.seq + 1)
        PROVE  \E a \in batches' : a.seq = n
    <3>1. CASE n = shared.seq + 1
      BY <2>2, <2>4, <3>1
    <3>2. CASE n # shared.seq + 1
      <4>1. b.seq \in Int /\ b.seq > first /\ (b \in batches \/ b = new)
        BY <1>1, <2>2
      <4>2. n \in b.seq..shared.seq /\ b \in batches /\ n > first
        BY <1>1, <2>2, <2>3, <2>5, <3>2, <4>1
      <4>3. PICK a \in batches : a.seq = n
        BY <4>2 DEF Contiguous
      <4> QED BY <2>2, <4>2, <4>3
    <3> QED BY <3>1, <3>2
  <2> QED BY <2>2, <2>5 DEF Contiguous
<1>4. CASE \E n \in Nat : Fresh(n)
  <2>1. PICK n \in Nat : Fresh(n)
    BY <1>4
  <2>2. ASSUME NEW b \in batches', NEW k \in b.seq..shared.seq
        PROVE  \E a \in batches' : a.seq = k
    <3>1. b \in batches /\ b.seq > n /\ b.seq \in Int
      BY <1>1, <2>1 DEF Fresh
    <3>2. PICK a \in batches : a.seq = k
      BY <2>2, <3>1 DEF Contiguous
    <3>3. a.seq > n
      BY <1>1, <3>1, <3>2
    <3> QED BY <2>1, <3>2, <3>3 DEF Fresh
  <2> QED BY <2>1, <2>2 DEF Contiguous, Fresh
<1> QED BY <1>2, <1>3, <1>4, ServerStep

\* What stays is still in time.
LEMMA StaysInTime ==
    ASSUME Types, NEW t \in Studio, InTime(t), Stays(t), MovesOn
    PROVE  InTime(t)'
<1>1. /\ studio[t].epoch \in Nat /\ shared.epoch \in Nat /\ shared.seq \in Nat
  BY FieldsAre DEF StudioRec
<1>2. out[t].epoch \in Nat
  BY FieldsAre DEF OutRec
<1>3. SendInTime(t)'
  BY <1>1, <1>2 DEF InTime, SendInTime, Stays, MovesOn
<1>4. ASSUME NEW i \in 0..Asks PROVE PollInTime(t, i)'
  <2>1. poll'[t] = poll[t] /\ studio'[t].epoch = studio[t].epoch
    BY DEF Stays
  <2>2. poll[t][i].at # "none" => poll[t][i].epoch \in Nat /\ poll[t][i].seq \in Nat
    BY FieldsAre DEF PollRec
  <2> QED BY <1>1, <2>1, <2>2 DEF InTime, PollInTime, MovesOn
<1> QED BY <1>3, <1>4 DEF InTime

\* A poll of a Studio that stays while its epoch does not go back.
LEMMA OtherPolls ==
    ASSUME Types, NEW s \in Studio, InTime(s), MovesOn, NEW k \in 0..Asks, poll'[s][k] = poll[s][k],
           studio'[s].epoch \in Nat, studio'[s].epoch >= studio[s].epoch
    PROVE  PollInTime(s, k)'
<1>1. /\ studio[s].epoch \in Nat /\ shared.epoch \in Nat /\ shared.seq \in Nat
  BY FieldsAre DEF StudioRec
<1>2. poll[s][k].at # "none" => poll[s][k].epoch \in Nat /\ poll[s][k].seq \in Nat
  BY FieldsAre DEF PollRec
<1> QED BY <1>1, <1>2 DEF InTime, PollInTime, MovesOn

LEMMA SendInTimeAfter ==
    ASSUME Mishaps = {}, Types, NEW s \in Studio, InTime(s), MovesOn,
           \/ Send(s) \/ Push(s) \/ Refuse(s) \/ NotDelivered(s) \/ NotAnswered(s)
    PROVE  InTime(s)'
<1>1. /\ studio[s].epoch \in Nat /\ shared.epoch \in Nat /\ shared.seq \in Nat /\ out[s].epoch \in Nat
  BY FieldsAre DEF StudioRec, OutRec
<1>2. poll' = poll /\ studio'[s].epoch = studio[s].epoch
  BY SendAt, PushAt, RefuseAt, NotDeliveredAt, NotAnsweredAt
<1>3. \A k \in 0..Asks : PollInTime(s, k)'
  BY <1>1, <1>2, OtherPolls
<1>4. Unsent.at = "none" /\ Unsent.ops = <<>>
  BY DEF Unsent
<1>5. SendInTime(s)'
  <2>1. CASE Send(s)
    <3>1. out[s].at = "none" /\ out'[s].at = "sent" /\ out'[s].epoch = studio[s].epoch
      BY <2>1, SendAt
    <3> QED BY <1>1, <1>2, <3>1 DEF InTime, SendInTime, MovesOn
  <2>2. CASE Push(s) \/ NotDelivered(s) \/ NotAnswered(s)
    <3>1. out[s].at = "sent" /\ out'[s] = Unsent
      BY <2>2, PushAt, MergeIsAt, NotDeliveredAt, NotAnsweredAt DEF Push
    <3> QED BY <1>1, <1>2, <1>4, <3>1 DEF InTime, SendInTime, MovesOn
  <2>3. CASE Refuse(s)
    <3>1. /\ out[s].at = "sent" /\ out[s].epoch # shared.epoch /\ UNCHANGED server
          /\ out'[s].at = "refused" /\ out'[s].ops = out[s].ops /\ out'[s].epoch = out[s].epoch
      BY <2>3, RefuseAt
    <3>2. shared' = shared
      BY <3>1 DEF server
    <3> QED BY <1>1, <1>2, <3>1, <3>2 DEF InTime, SendInTime
  <2> QED BY <2>1, <2>2, <2>3
<1> QED BY <1>3, <1>5 DEF InTime

\* What the server reads for a poll.
LEMMA AskedForIs ==
    ASSUME Types, NEW s \in Studio, NEW named
    PROVE  LET p == AskedFor(s, named) IN
           /\ p.at \in {"copy", "ready"} /\ (p.at = "copy" <=> named = shared.epoch)
           /\ p.full = (named # shared.epoch)
           /\ p.epoch = shared.epoch /\ p.seq = shared.seq /\ p.doc = shared.doc
           /\ p.ops = <<>> /\ p.after = studio[s].seq
BY DEF AskedFor

LEMMA AskInTime ==
    ASSUME Types, NEW s \in Studio, InTime(s), NEW i \in 0..Asks, NEW named,
           poll'[s][i] = AskedFor(s, named), UNCHANGED server, studio' = studio,
           named \in {0, studio[s].epoch}
    PROVE  PollInTime(s, i)'
<1>1. /\ studio[s].epoch \in Nat /\ shared.epoch \in Nat \ {0} /\ shared.seq \in Nat
  BY FieldsAre DEF StudioRec
<1>2. /\ poll'[s][i].epoch = shared.epoch /\ poll'[s][i].seq = shared.seq
      /\ poll'[s][i].full = (named # shared.epoch)
      /\ (poll'[s][i].at = "copy" <=> named = shared.epoch)
  BY AskedForIs
<1>3. shared' = shared
  BY DEF server
<1>4. poll'[s][i].at = "copy" => ~ poll'[s][i].full
  BY <1>2
<1>5. ~ poll'[s][i].full => poll'[s][i].epoch <= studio[s].epoch
  <2>1. ~ poll'[s][i].full => named = shared.epoch
    BY <1>2
  <2> QED BY <1>1, <1>2, <2>1
<1> QED BY <1>1, <1>2, <1>3, <1>4, <1>5 DEF PollInTime

LEMMA ReplyInTime ==
    ASSUME Types, NEW p \in PollRec, p.at = "copy", ~ p.full
    PROVE  Reply(p).at # "none" =>
             /\ Reply(p) \in PollRec /\ Reply(p).at = "ready"
             /\ Reply(p).epoch = p.epoch /\ Reply(p).seq = p.seq
             /\ \/ /\ NotKept(p) /\ Reply(p).full /\ Reply(p).doc = p.doc
                \/ /\ ~ NotKept(p) /\ ~ Reply(p).full /\ Reply(p).ops = OpsAfter(p.after)
<1>1. /\ Reply(p) \in {Quiet} \cup PollRec
      /\ \/ NotKept(p) /\ Reply(p) = [p EXCEPT !.at = "ready", !.full = TRUE, !.after = 0]
         \/ Reply(p) = Quiet
         \/ /\ ~ NotKept(p)
            /\ Reply(p) = [p EXCEPT !.at = "ready", !.doc = Seed(Blank), !.after = 0, !.ops = OpsAfter(p.after)]
  BY ReplyIs
<1>2. Quiet.at = "none"
  BY DEF Quiet
<1>3. SUFFICES ASSUME Reply(p) # Quiet
               PROVE  /\ Reply(p) \in PollRec /\ Reply(p).at = "ready"
                      /\ Reply(p).epoch = p.epoch /\ Reply(p).seq = p.seq
                      /\ \/ /\ NotKept(p) /\ Reply(p).full /\ Reply(p).doc = p.doc
                         \/ /\ ~ NotKept(p) /\ ~ Reply(p).full /\ Reply(p).ops = OpsAfter(p.after)
  BY <1>2
<1>4. Reply(p) \in PollRec
  BY <1>1, <1>3
<1>5. CASE NotKept(p) /\ Reply(p) = [p EXCEPT !.at = "ready", !.full = TRUE, !.after = 0]
  <2> DEFINE x == [p EXCEPT !.at = "ready", !.full = TRUE, !.after = 0]
  <2>1. x.at = "ready" /\ x.full = TRUE /\ x.epoch = p.epoch /\ x.seq = p.seq /\ x.doc = p.doc
    BY DEF PollRec
  <2> QED BY <1>4, <1>5, <2>1
<1>6. CASE /\ ~ NotKept(p)
           /\ Reply(p) = [p EXCEPT !.at = "ready", !.doc = Seed(Blank), !.after = 0, !.ops = OpsAfter(p.after)]
  <2> DEFINE x == [p EXCEPT !.at = "ready", !.doc = Seed(Blank), !.after = 0, !.ops = OpsAfter(p.after)]
  <2>1. x.at = "ready" /\ x.full = p.full /\ x.epoch = p.epoch /\ x.seq = p.seq /\ x.ops = OpsAfter(p.after)
    BY DEF PollRec
  <2> QED BY <1>4, <1>6, <2>1
<1> QED BY <1>1, <1>3, <1>5, <1>6

LEMMA PollInTimeAfter ==
    ASSUME Mishaps = {}, Types, NEW s \in Studio, InTime(s), MovesOn, NEW i \in 0..Asks,
           AskRegularly(s, i) \/ ReadBatches(s, i) \/ Adopt(s, i) \/ PollFails(s, i)
    PROVE  InTime(s)'
<1>1. /\ studio[s].epoch \in Nat /\ shared.epoch \in Nat \ {0} /\ shared.seq \in Nat /\ out[s].epoch \in Nat
  BY FieldsAre DEF StudioRec, OutRec
<1>2. UNCHANGED server /\ \A k \in 0..Asks : k # i => poll'[s][k] = poll[s][k]
  BY AskRegularlyAt, ReadBatchesAt, AdoptAt, PollFailsAt
<1>3. shared' = shared
  BY <1>2 DEF server
<1>4. Unsent.at = "none" /\ Unsent.ops = <<>> /\ Quiet.at = "none"
  BY DEF Unsent, Quiet
<1>5. CASE AskRegularly(s, i)
  <2>1. studio' = studio /\ out' = out /\ i # 0 /\ poll'[s][i] = AskedFor(s, studio[s].epoch)
    BY <1>5, AskRegularlyAt
  <2>2. PollInTime(s, i)'
    BY <1>2, <2>1, AskInTime
  <2>3. \A k \in 0..Asks : k # i => PollInTime(s, k)'
    BY <1>1, <1>2, <2>1, OtherPolls
  <2>4. SendInTime(s)'
    BY <1>2, <1>3, <2>1, ZeroIsAPoll DEF InTime, SendInTime
  <2> QED BY <2>2, <2>3, <2>4 DEF InTime
<1>6. CASE ReadBatches(s, i)
  <2> DEFINE p == poll[s][i]
  <2>1. /\ studio' = studio /\ out' = out /\ p.at = "copy" /\ p \in PollRec /\ poll'[s][i] = Reply(p)
    BY <1>6, ReadBatchesAt
  <2>2. ~ p.full /\ p.epoch <= shared.epoch /\ p.seq <= shared.seq /\ p.epoch <= studio[s].epoch
    BY <2>1 DEF InTime, PollInTime
  <2> HIDE DEF p
  <2>3. Reply(p).at # "none" => /\ Reply(p).at = "ready" /\ Reply(p).epoch = p.epoch /\ Reply(p).seq = p.seq
    BY <2>1, <2>2, ReplyInTime
  <2>4. PollInTime(s, i)'
    BY <1>3, <2>1, <2>2, <2>3 DEF PollInTime
  <2>5. \A k \in 0..Asks : k # i => PollInTime(s, k)'
    BY <1>1, <1>2, <2>1, OtherPolls
  <2>6. SendInTime(s)'
    <3>1. poll'[s][0].at # "none" => poll[s][0].at # "none"
      <4>1. CASE i = 0
        BY <2>1, <4>1 DEF p
      <4>2. CASE i # 0
        BY <1>2, <4>2, ZeroIsAPoll
      <4> QED BY <4>1, <4>2
    <3> QED BY <1>3, <2>1, <3>1 DEF InTime, SendInTime
  <2> QED BY <2>4, <2>5, <2>6 DEF InTime
<1>7. CASE Adopt(s, i)
  <2> DEFINE p == poll[s][i]
  <2>1. /\ studio'[s] = Adopted(s, p) /\ p \in PollRec /\ p.at = "ready" /\ poll'[s][i] = Quiet
        /\ (i # 0 => out' = out) /\ (i = 0 => out'[s] = Unsent) /\ ~ Overtaken(s, i)
    BY <1>7, AdoptAt
  <2>2. p.epoch \in Nat /\ p.epoch <= shared.epoch /\ p.epoch >= studio[s].epoch
    <3>1. p.epoch \in Nat /\ p.epoch <= shared.epoch
      BY <2>1 DEF InTime, PollInTime, PollRec
    <3>2. ~ (p.epoch < studio[s].epoch)
      BY <2>1 DEF Overtaken
    <3> QED BY <1>1, <3>1, <3>2
  <2>3. studio'[s].epoch = p.epoch
    BY <2>1 DEF Adopted
  <2> HIDE DEF p
  <2>4. \A k \in 0..Asks : k # i => PollInTime(s, k)'
    BY <1>2, <2>2, <2>3, OtherPolls
  <2>5. PollInTime(s, i)'
    BY <1>4, <2>1 DEF PollInTime
  <2>6. SendInTime(s)'
    <3>1. studio'[s].epoch \in 1..shared'.epoch /\ studio'[s].epoch >= studio[s].epoch
      BY <1>1, <1>3, <2>2, <2>3 DEF InTime, SendInTime
    <3>2. CASE i = 0
      BY <1>4, <2>1, <3>1, <3>2 DEF SendInTime
    <3>3. CASE i # 0
      <4>1. out' = out /\ poll'[s][0] = poll[s][0]
        BY <1>2, <2>1, <3>3, ZeroIsAPoll
      <4> QED BY <1>1, <1>3, <2>2, <2>3, <3>1, <4>1 DEF InTime, SendInTime
    <3> QED BY <3>2, <3>3
  <2> QED BY <2>4, <2>5, <2>6 DEF InTime
<1>8. CASE PollFails(s, i)
  <2>1. studio' = studio /\ poll'[s][i] = Quiet /\ (i # 0 => out' = out) /\ (i = 0 => out'[s] = Unsent)
    BY <1>8, PollFailsAt
  <2>2. \A k \in 0..Asks : k # i => PollInTime(s, k)'
    BY <1>1, <1>2, <2>1, OtherPolls
  <2>3. PollInTime(s, i)'
    BY <1>4, <2>1 DEF PollInTime
  <2>4. SendInTime(s)'
    <3>1. CASE i = 0
      BY <1>3, <1>4, <2>1, <3>1 DEF InTime, SendInTime
    <3>2. CASE i # 0
      <4>1. out' = out /\ poll'[s][0] = poll[s][0]
        BY <1>2, <2>1, <3>2, ZeroIsAPoll
      <4> QED BY <1>3, <2>1, <4>1 DEF InTime, SendInTime
    <3> QED BY <3>1, <3>2
  <2> QED BY <2>2, <2>3, <2>4 DEF InTime
<1> QED BY <1>5, <1>6, <1>7, <1>8

LEMMA StepTimely ==
    ASSUME Mishaps = {}, Types, Saving, Timely, [Next]_vars
    PROVE  Timely'
<1>1. MovesOn /\ Contiguous'
  BY ServerMovesOn, StepContiguous DEF Timely
<1>2. \A s \in Studio : InTime(s)
  BY DEF Timely
<1>3. ASSUME NEW s \in Studio, OthersStay(s), InTime(s)' PROVE \A t \in Studio : InTime(t)'
  BY <1>1, <1>2, <1>3, StaysInTime DEF OthersStay
<1>4. CASE \E s \in Studio, on \in (SUBSET Register) \ {{}} : Edit(s, on)
  <2>1. PICK s \in Studio, on \in SUBSET Register : Edit(s, on)
    BY <1>4
  <2>2. /\ OthersStay(s) /\ studio'[s].epoch = studio[s].epoch /\ out' = out /\ poll' = poll /\ UNCHANGED server
    BY <2>1, EditAt
  <2>3. InTime(s)'
    BY <1>2, <2>2 DEF InTime, SendInTime, PollInTime, server
  <2> QED BY <1>1, <1>3, <2>2, <2>3 DEF Timely
<1>5. CASE \E s \in Studio : Send(s) \/ Push(s) \/ Refuse(s) \/ NotDelivered(s) \/ NotAnswered(s)
  <2>1. PICK s \in Studio : Send(s) \/ Push(s) \/ Refuse(s) \/ NotDelivered(s) \/ NotAnswered(s)
    BY <1>5
  <2>2. OthersStay(s)
    BY <2>1, SendAt, PushAt, RefuseAt, NotDeliveredAt, NotAnsweredAt
  <2>3. InTime(s)'
    BY <1>1, <1>2, <2>1, SendInTimeAfter
  <2> QED BY <1>1, <1>3, <2>2, <2>3 DEF Timely
<1>6. CASE \E s \in Studio : AskAfterRefusal(s)
  <2>1. PICK s \in Studio : AskAfterRefusal(s)
    BY <1>6
  <2>2. /\ OthersStay(s) /\ studio' = studio /\ UNCHANGED server
        /\ out[s].at = "refused" /\ out'[s].at = "asking" /\ out'[s].ops = <<>>
        /\ poll'[s][0] = AskedFor(s, 0)
        /\ \A k \in 0..Asks : k # 0 => poll'[s][k] = poll[s][k]
    BY <2>1, AskAfterRefusalAt
  <2>3. studio[s].epoch \in Nat /\ InTime(s)
    BY <1>2, FieldsAre DEF StudioRec
  <2>4. PollInTime(s, 0)'
    BY <2>2, <2>3, ZeroIsAPoll, AskInTime
  <2>5. \A k \in 0..Asks : k # 0 => PollInTime(s, k)'
    BY <1>1, <2>2, <2>3, OtherPolls
  <2>6. SendInTime(s)'
    BY <2>2, <2>3 DEF InTime, SendInTime, server
  <2>7. InTime(s)'
    BY <2>4, <2>5, <2>6 DEF InTime
  <2> QED BY <1>1, <1>3, <2>2, <2>7 DEF Timely
<1>7. CASE \E s \in Studio, i \in 0..Asks :
             AskRegularly(s, i) \/ ReadBatches(s, i) \/ Adopt(s, i) \/ PollFails(s, i)
  <2>1. PICK s \in Studio, i \in 0..Asks :
             AskRegularly(s, i) \/ ReadBatches(s, i) \/ Adopt(s, i) \/ PollFails(s, i)
    BY <1>7
  <2>2. OthersStay(s)
    BY <2>1, AskRegularlyAt, ReadBatchesAt, AdoptAt, PollFailsAt
  <2>3. InTime(s)'
    BY <1>1, <1>2, <2>1, PollInTimeAfter
  <2> QED BY <1>1, <1>3, <2>2, <2>3 DEF Timely
<1>8. CASE AtServer
  BY <1>1, <1>2, <1>8, AtServerAt, StaysInTime DEF Timely
<1> QED BY <1>4, <1>5, <1>6, <1>7, <1>8, StepsAre

(***************************************************************************)
(* Whose changes are where: what a Studio has not delivered was made in    *)
(* the epoch it is in, and what it is sending in the epoch it sends it for.*)
(***************************************************************************)

Wrote(ops, epoch) == \A op \in ToSet(ops) : [op |-> op, epoch |-> epoch] \in made
WroteAll(s) == Wrote(studio[s].pending, studio[s].epoch) /\ Wrote(out[s].ops, out[s].epoch)

Authored ==
    /\ \A s \in Studio : WroteAll(s)
    /\ \A m \in made : m.epoch \in 1..studio[m.op.by].epoch
    /\ \A m, n \in made : m.op.by = n.op.by /\ m.op.c = n.op.c => m = n

\* What a Studio has made and not yet delivered.
Held(s) == ToSet(studio[s].pending) \cup ToSet(out[s].ops)

LEMMA InitAuthored == Init => Authored
<1> SUFFICES ASSUME Init PROVE Authored
  OBVIOUS
<1>1. made = {}
  BY DEF Init
<1>2. ASSUME NEW s \in Studio PROVE WroteAll(s)
  <2>1. studio[s].pending = <<>> /\ out[s].ops = <<>>
    BY DEF Init, Unsent
  <2> QED BY <2>1, NothingIn DEF WroteAll, Wrote
<1> QED BY <1>1, <1>2 DEF Authored

LEMMA MadeIs ==
    ASSUME Types, NEW m \in made
    PROVE  /\ m = [op |-> m.op, epoch |-> m.epoch] /\ m.epoch \in Nat /\ m.op \in Told
           /\ m.op.by \in Studio /\ m.op.c \in Nat \ {0} /\ m.op.on \subseteq Register
<1>1. m \in [op : OpsUpTo(Edits), epoch : Nat]
  BY DEF Types, MadeTypes
<1>2. m.op \in Told
  BY DEF Told
<1> QED BY <1>1, <1>2, CellIs DEF Types

\* The first epoch a page can be in is the one it opened in.
LEMMA LatestOfTwo ==
    ASSUME NEW e \in Nat \ {0}
    PROVE  Latest(1, {e}) = e
<1>1. {1, e} \in SUBSET (0..e) /\ {1, e} # {}
  OBVIOUS
<1>2. Max({1, e}) \in {1, e} /\ \A q \in {1, e} : q <= Max({1, e})
  BY <1>1, MaxIs
<1>3. {1} \cup {e} = {1, e}
  OBVIOUS
<1> QED BY <1>2, <1>3 DEF Latest

LEMMA EditAuthored ==
    ASSUME Mishaps = {}, Types, Timely, Authored, NEW s \in Studio, NEW on \in SUBSET Register, Edit(s, on)
    PROVE  /\ Authored' /\ \A t \in Studio : Held(t) \subseteq Held(t)'
           /\ \A m \in made' \ made : m.op \in Held(m.op.by)'
<1> DEFINE op == OpOf(s, on)
           new == [op |-> op, epoch |-> studio[s].epoch]
<1>1. studio[s].epoch \in Nat \ {0}
  <2>1. shared.epoch \in Nat
    BY FieldsAre
  <2> QED BY <2>1 DEF Timely, InTime, SendInTime
<1>2. made' = made \cup {new} /\ \A m \in made : ~ (m.op.by = s /\ m.op.c = studio[s].clock + 1)
  <2>1. Latest(1, {studio[s].epoch}) = studio[s].epoch
    BY <1>1, LatestOfTwo
  <2> QED BY <2>1, EditMakes
<1>3. op.by = s /\ op.c = studio[s].clock + 1 /\ new.op = op /\ new.epoch = studio[s].epoch
  BY DEF OpOf
<1>4. /\ OthersStay(s) /\ studio'[s].pending = Append(studio[s].pending, op)
      /\ studio'[s].epoch = studio[s].epoch /\ out' = out
  BY EditAt
<1> HIDE DEF op, new
<1>5. ToSet(studio'[s].pending) = ToSet(studio[s].pending) \cup {op}
  <2>1. studio[s].pending \in Seq(Told \cup {op}) /\ op \in Told \cup {op}
    <3>1. studio[s].pending \in Seq(Told)
      BY FieldsAre DEF StudioRec
    <3> QED BY <3>1
  <2>2. ToSet(Append(studio[s].pending, op)) = ToSet(studio[s].pending) \cup {op}
    BY ONLY <2>1, AppendIs
  <2> QED BY <1>4, <2>2
<1>6. ASSUME NEW t \in Studio PROVE WroteAll(t)'
  <2>1. CASE t = s
    BY <1>2, <1>4, <1>5, <2>1 DEF Authored, WroteAll, Wrote, new
  <2>2. CASE t # s
    BY <1>2, <1>4, <2>2 DEF Authored, WroteAll, Wrote, OthersStay, Stays
  <2> QED BY <2>1, <2>2
<1>7. \A t \in Studio : studio'[t].epoch = studio[t].epoch
  BY <1>4 DEF OthersStay, Stays
<1>8. ASSUME NEW m \in made' PROVE m.epoch \in 1..studio'[m.op.by].epoch
  <2>1. CASE m \in made
    BY <1>7, <2>1, MadeIs DEF Authored
  <2>2. CASE m = new
    BY <1>1, <1>3, <1>4, <2>2
  <2> QED BY <1>2, <2>1, <2>2
<1>9. ASSUME NEW m \in made', NEW n \in made', m.op.by = n.op.by, m.op.c = n.op.c PROVE m = n
  BY <1>2, <1>3, <1>9 DEF Authored
<1>10. ASSUME NEW t \in Studio PROVE Held(t) \subseteq Held(t)'
  <2>1. CASE t = s
    BY <1>4, <1>5, <2>1 DEF Held
  <2>2. CASE t # s
    BY <1>4, <2>2 DEF Held, OthersStay, Stays
  <2> QED BY <2>1, <2>2
<1>11. ASSUME NEW m \in made' \ made PROVE m.op \in Held(m.op.by)'
  <2>1. m = new
    BY <1>2
  <2>2. m.op = op /\ m.op.by = s
    BY <1>3, <2>1
  <2> QED BY <1>5, <2>2 DEF Held
<1> QED BY <1>6, <1>8, <1>9, <1>10, <1>11 DEF Authored

\* What any other step does to a Studio's epoch and undelivered changes.
HoldsOn(s) ==
    /\ studio'[s].epoch \in Nat /\ studio'[s].epoch >= studio[s].epoch
    /\ WroteAll(s)'

LEMMA StaysHoldsOn ==
    ASSUME Types, Authored, made' = made, NEW t \in Studio, Stays(t)
    PROVE  HoldsOn(t) /\ Held(t)' = Held(t)
<1>1. studio[t].epoch \in Nat
  BY FieldsAre DEF StudioRec
<1> QED BY <1>1 DEF HoldsOn, Stays, Authored, WroteAll, Wrote, Held

LEMMA AuthoredFrom ==
    ASSUME Types, Authored, made' = made, \A t \in Studio : HoldsOn(t)
    PROVE  Authored'
<1>1. \A t \in Studio : studio[t].epoch \in Nat
  BY FieldsAre DEF StudioRec
<1>2. ASSUME NEW m \in made PROVE m.epoch \in 1..studio'[m.op.by].epoch
  <2>1. m.op.by \in Studio /\ m.epoch \in 1..studio[m.op.by].epoch
    BY MadeIs DEF Authored
  <2> QED BY <1>1, <2>1 DEF HoldsOn
<1> QED BY <1>2 DEF Authored, HoldsOn

LEMMA SendHoldsOn ==
    ASSUME Mishaps = {}, Types, Timely, Authored, NEW s \in Studio,
           \/ Send(s) \/ Push(s) \/ Refuse(s) \/ AskAfterRefusal(s) \/ NotDelivered(s) \/ NotAnswered(s)
    PROVE  made' = made /\ OthersStay(s) /\ HoldsOn(s)
<1>1. /\ studio[s].epoch \in Nat /\ shared.epoch \in Nat /\ out[s].epoch \in Nat
  BY FieldsAre DEF StudioRec, OutRec
<1>2. InTime(s) /\ WroteAll(s)
  BY DEF Timely, Authored
<1>3. CASE Send(s)
  BY <1>1, <1>2, <1>3, SendAt, NothingIn DEF HoldsOn, WroteAll, Wrote
<1>4. CASE Push(s)
  BY <1>1, <1>2, <1>4, PushAt, NothingIn DEF HoldsOn, WroteAll, Wrote
<1>5. CASE Refuse(s)
  BY <1>1, <1>2, <1>5, RefuseAt DEF HoldsOn, WroteAll, Wrote
<1>6. CASE AskAfterRefusal(s)
  BY <1>1, <1>2, <1>6, AskAfterRefusalAt, NothingIn DEF HoldsOn, WroteAll, Wrote
<1>7. CASE NotDelivered(s) \/ NotAnswered(s)
  <2>1. out[s].epoch = studio[s].epoch
    <3>1. CASE NotDelivered(s)
      BY <3>1, NotDeliveredAt
    <3>2. CASE NotAnswered(s)
      <4>1. out[s].at = "sent" /\ out[s].epoch = shared.epoch
        BY <3>2, NotAnsweredAt
      <4> QED BY <1>1, <1>2, <4>1 DEF InTime, SendInTime
    <3> QED BY <1>7, <3>1, <3>2
  <2>2. /\ ToSet(studio'[s].pending) = ToSet(out[s].ops) \cup ToSet(studio[s].pending)
        /\ studio'[s].epoch = studio[s].epoch /\ out'[s] = Unsent /\ made' = made /\ OthersStay(s)
    BY <1>7, NotDeliveredAt, NotAnsweredAt
  <2> QED BY <1>1, <1>2, <2>1, <2>2, NothingIn DEF HoldsOn, WroteAll, Wrote
<1> QED BY <1>3, <1>4, <1>5, <1>6, <1>7

LEMMA PollHoldsOn ==
    ASSUME Mishaps = {}, Types, Timely, Authored, NEW s \in Studio, NEW i \in 0..Asks,
           AskRegularly(s, i) \/ ReadBatches(s, i) \/ Adopt(s, i) \/ PollFails(s, i)
    PROVE  made' = made /\ OthersStay(s) /\ HoldsOn(s)
<1>1. /\ studio[s].epoch \in Nat /\ shared.epoch \in Nat /\ out[s].epoch \in Nat
  BY FieldsAre DEF StudioRec, OutRec
<1>2. InTime(s) /\ WroteAll(s)
  BY DEF Timely, Authored
<1>3. CASE AskRegularly(s, i)
  BY <1>1, <1>2, <1>3, AskRegularlyAt DEF HoldsOn, WroteAll, Wrote
<1>4. CASE ReadBatches(s, i)
  BY <1>1, <1>2, <1>4, ReadBatchesAt DEF HoldsOn, WroteAll, Wrote
<1>5. CASE PollFails(s, i)
  BY <1>1, <1>2, <1>5, PollFailsAt, NothingIn DEF HoldsOn, WroteAll, Wrote
<1>6. CASE Adopt(s, i)
  <2> DEFINE p == poll[s][i]
  <2>1. /\ studio'[s] = Adopted(s, p) /\ p \in PollRec /\ p.at = "ready"
        /\ (i # 0 => out' = out) /\ (i = 0 => out'[s] = Unsent) /\ ~ Overtaken(s, i)
        /\ made' = made /\ OthersStay(s)
    BY <1>6, AdoptAt
  <2>2. /\ p.epoch \in Nat /\ p.epoch >= studio[s].epoch /\ p.full \in BOOLEAN
        /\ (~ p.full => p.epoch = studio[s].epoch)
    <3>1. p.epoch \in Nat /\ p.full \in BOOLEAN
      BY <2>1 DEF PollRec
    <3>2. ~ (p.epoch < studio[s].epoch)
      BY <2>1 DEF Overtaken
    <3>3. ~ p.full => p.epoch <= studio[s].epoch
      BY <1>2, <2>1 DEF InTime, PollInTime
    <3> QED BY <1>1, <3>1, <3>2, <3>3
  <2> HIDE DEF p
  <2>3. studio'[s].epoch = p.epoch /\ studio'[s].pending = IF p.full THEN <<>> ELSE studio[s].pending
    BY <2>1 DEF Adopted
  <2>5. \A op \in ToSet(studio'[s].pending) : [op |-> op, epoch |-> studio'[s].epoch] \in made
    <3>1. CASE p.full
      BY <2>3, <3>1, NothingIn
    <3>2. CASE ~ p.full
      BY <1>2, <2>2, <2>3, <3>2 DEF WroteAll, Wrote
    <3> QED BY <3>1, <3>2
  <2>6. \A op \in ToSet(out'[s].ops) : [op |-> op, epoch |-> out'[s].epoch] \in made
    BY <1>2, <2>1, NothingIn DEF WroteAll, Wrote
  <2> QED BY <2>1, <2>2, <2>3, <2>5, <2>6 DEF HoldsOn, WroteAll, Wrote
<1> QED BY <1>3, <1>4, <1>5, <1>6

LEMMA StepAuthored ==
    ASSUME Mishaps = {}, Types, Timely, Authored, [Next]_vars
    PROVE  Authored'
<1>1. ASSUME NEW s \in Studio, OthersStay(s), HoldsOn(s), made' = made PROVE Authored'
  BY <1>1, StaysHoldsOn, AuthoredFrom DEF OthersStay
<1>2. CASE \E s \in Studio, on \in (SUBSET Register) \ {{}} : Edit(s, on)
  BY <1>2, EditAuthored
<1>3. CASE \E s \in Studio : \/ Send(s) \/ Push(s) \/ Refuse(s) \/ AskAfterRefusal(s)
                             \/ NotDelivered(s) \/ NotAnswered(s)
  BY <1>1, <1>3, SendHoldsOn
<1>4. CASE \E s \in Studio, i \in 0..Asks :
             AskRegularly(s, i) \/ ReadBatches(s, i) \/ Adopt(s, i) \/ PollFails(s, i)
  BY <1>1, <1>4, PollHoldsOn
<1>5. CASE AtServer
  BY <1>5, AtServerAt, StaysHoldsOn, AuthoredFrom
<1> QED BY <1>2, <1>3, <1>4, <1>5, StepsAre

(***************************************************************************)
(* Nobody's work is lost.                                                  *)
(***************************************************************************)

Taken(op) == \A r \in op.on : ~ Newer(op, shared.doc[r])

\* A change made in epoch e was delivered in no other.
LEMMA NotOf ==
    ASSUME Types, Authored, NEW op, NEW e, NEW f,
           [op |-> op, epoch |-> e] \in made, [op |-> op, epoch |-> f] \in made
    PROVE  e = f
<1>1. [op |-> op, epoch |-> e] = [op |-> op, epoch |-> f]
  BY DEF Authored
<1> QED BY <1>1

\* The copy only gets newer while its epoch lasts.
LEMMA CopyGrows ==
    ASSUME Types, NEW s \in Studio, MergeAtServer(s)
    PROVE  /\ \A r \in Register : ~ Newer(shared.doc[r], shared'.doc[r])
           /\ \A op \in ToSet(out[s].ops) : \A r \in op.on : ~ Newer(op, shared'.doc[r])
           /\ \A r \in Register : \/ shared'.doc[r] = shared.doc[r]
                                  \/ \E j \in DOMAIN out[s].ops :
                                       r \in out[s].ops[j].on /\ shared'.doc[r] = CellOf(out[s].ops[j])
           /\ shared'.doc \in Docs
<1>1. shared.doc \in Docs /\ out[s].ops \in Seq(Told)
  BY FieldsAre DEF OutRec
<1>2. shared'.doc = ApplyOps(shared.doc, out[s].ops)
  BY MergeIsAt
<1>3. /\ shared'.doc \in Docs
      /\ \A r \in Register :
           /\ ~ Newer(shared.doc[r], shared'.doc[r])
           /\ \A j \in DOMAIN out[s].ops : r \in out[s].ops[j].on => ~ Newer(out[s].ops[j], shared'.doc[r])
           /\ \/ shared'.doc[r] = shared.doc[r]
              \/ \E j \in DOMAIN out[s].ops : r \in out[s].ops[j].on /\ shared'.doc[r] = CellOf(out[s].ops[j])
  <2>1. PICK d \in Docs : d = ApplyOps(shared.doc, out[s].ops)
    BY <1>1, MergeIs DEF Types
  <2>2. /\ \A r \in Register :
           /\ ~ Newer(shared.doc[r], d[r])
           /\ \A j \in DOMAIN out[s].ops : r \in out[s].ops[j].on => ~ Newer(out[s].ops[j], d[r])
           /\ \/ d[r] = shared.doc[r]
              \/ \E j \in DOMAIN out[s].ops : r \in out[s].ops[j].on /\ d[r] = CellOf(out[s].ops[j])
    BY <1>1, <2>1, MergeIs DEF Types
  <2> QED BY <1>2, <2>1, <2>2
<1>4. ASSUME NEW op \in ToSet(out[s].ops), NEW r \in op.on PROVE ~ Newer(op, shared'.doc[r])
  <2>1. PICK j \in DOMAIN out[s].ops : op = out[s].ops[j]
    BY DEF ToSet
  <2>2. op \in Told
    BY <1>1, <2>1
  <2>3. r \in Register
    BY <2>2, CellIs DEF Types
  <2> QED BY <1>3, <2>1, <2>3
<1> QED BY <1>3, <1>4

LEMMA TakenStays ==
    ASSUME Types, NEW op \in Told, Taken(op), NEW s \in Studio, MergeAtServer(s)
    PROVE  \A r \in op.on : ~ Newer(op, shared'.doc[r])
<1>1. shared.doc \in Docs /\ shared'.doc \in Docs /\ \A r \in Register : ~ Newer(shared.doc[r], shared'.doc[r])
  BY FieldsAre, CopyGrows
<1>2. op.on \subseteq Register /\ Stamp(op)
  BY CellIs DEF Types
<1>3. ASSUME NEW r \in op.on PROVE ~ Newer(op, shared'.doc[r])
  <2>1. r \in Register /\ Stamp(shared.doc[r]) /\ Stamp(shared'.doc[r])
    BY <1>1, <1>2, CellIs DEF Types
  <2>2. ~ Newer(op, shared.doc[r])
    BY DEF Taken
  <2> QED BY <1>1, <1>2, <2>1, <2>2, NewerOrders
<1> QED BY <1>3

\* Where the copy stays, a Studio still has what it held of this epoch.
LEMMA HeldStays ==
    ASSUME Mishaps = {}, Types, Timely, Authored, NEW s \in Studio,
           \/ Send(s) \/ Refuse(s) \/ AskAfterRefusal(s) \/ NotDelivered(s) \/ NotAnswered(s)
           \/ \E i \in 0..Asks : AskRegularly(s, i) \/ ReadBatches(s, i) \/ Adopt(s, i) \/ PollFails(s, i),
           NEW op \in Held(s), [op |-> op, epoch |-> shared.epoch] \in made
    PROVE  op \in Held(s)'
<1>1. /\ studio[s].epoch \in Nat /\ shared.epoch \in Nat /\ out[s].epoch \in Nat
  BY FieldsAre DEF StudioRec, OutRec
<1>2. InTime(s) /\ WroteAll(s)
  BY DEF Timely, Authored
<1>3. CASE Send(s)
  <2>1. out[s].ops = <<>>
    BY <1>2, <1>3, SendAt DEF InTime, SendInTime
  <2> QED BY <1>3, <2>1, SendAt, NothingIn DEF Held
<1>4. CASE Refuse(s)
  BY <1>4, RefuseAt DEF Held
<1>5. CASE AskAfterRefusal(s)
  <2>1. out[s].epoch < shared.epoch
    BY <1>2, <1>5, AskAfterRefusalAt DEF InTime, SendInTime
  <2>2. op \notin ToSet(out[s].ops)
    <3>1. ASSUME op \in ToSet(out[s].ops) PROVE FALSE
      <4>1. [op |-> op, epoch |-> out[s].epoch] \in made
        BY <1>2, <3>1 DEF WroteAll, Wrote
      <4>2. out[s].epoch = shared.epoch
        BY <4>1, NotOf
      <4> QED BY <1>1, <2>1, <4>2
    <3> QED BY <3>1
  <2> QED BY <1>5, <2>2, AskAfterRefusalAt DEF Held
<1>6. CASE NotDelivered(s) \/ NotAnswered(s)
  BY <1>6, NotDeliveredAt, NotAnsweredAt DEF Held
<1>7. CASE \E i \in 0..Asks : AskRegularly(s, i) \/ ReadBatches(s, i)
  BY <1>7, AskRegularlyAt, ReadBatchesAt DEF Held
<1>8. ASSUME NEW i \in 0..Asks, poll[s][i].at # "none", i # 0 => out' = out PROVE ToSet(out[s].ops) \subseteq ToSet(out'[s].ops)
  <2>1. CASE i = 0
    <3>1. out[s].ops = <<>>
      BY <1>2, <1>8, <2>1 DEF InTime, SendInTime
    <3> QED BY <3>1, NothingIn
  <2>2. CASE i # 0
    BY <1>8, <2>2
  <2> QED BY <2>1, <2>2
<1>9. CASE \E i \in 0..Asks : PollFails(s, i)
  BY <1>8, <1>9, PollFailsAt DEF Held
<1>10. CASE \E i \in 0..Asks : Adopt(s, i)
  <2>1. PICK i \in 0..Asks : Adopt(s, i)
    BY <1>10
  <2> DEFINE p == poll[s][i]
  <2>2. /\ studio'[s] = Adopted(s, p) /\ p \in PollRec /\ p.at = "ready"
        /\ (i # 0 => out' = out) /\ ~ Overtaken(s, i) /\ ~ WouldErase(s, i)
    BY <2>1, AdoptAt
  <2>3. ToSet(out[s].ops) \subseteq ToSet(out'[s].ops)
    BY <1>8, <2>2
  <2>4. p.full => studio[s].pending = <<>> \/ studio[s].epoch < shared.epoch
    <3>1. p.epoch \in Nat /\ p.epoch <= shared.epoch
      BY <1>2, <2>2 DEF InTime, PollInTime, PollRec
    <3>2. ~ (p.epoch < studio[s].epoch)
      BY <2>2 DEF Overtaken
    <3>3. p.full /\ studio[s].pending # <<>> => p.epoch # studio[s].epoch
      BY <2>2 DEF WouldErase
    <3> QED BY <1>1, <3>1, <3>2, <3>3
  <2>5. studio'[s].pending = IF p.full THEN <<>> ELSE studio[s].pending
    BY <2>2 DEF Adopted
  <2>6. ASSUME op \in ToSet(studio[s].pending), studio[s].epoch < shared.epoch PROVE FALSE
    <3>1. [op |-> op, epoch |-> studio[s].epoch] \in made
      BY <1>2, <2>6 DEF WroteAll, Wrote
    <3>2. studio[s].epoch = shared.epoch
      BY <3>1, NotOf
    <3> QED BY <1>1, <2>6, <3>2
  <2> QED BY <2>3, <2>4, <2>5, <2>6, NothingIn DEF Held
<1> QED BY <1>3, <1>4, <1>5, <1>6, <1>7, <1>9, <1>10

Delivered(m) == m.op \in Held(m.op.by) \/ Taken(m.op)

LEMMA DeliveredIs == NobodysWorkIsLost <=> \A m \in made : m.epoch = shared.epoch => Delivered(m)
BY DEF NobodysWorkIsLost, Delivered, Held, Taken

LEMMA StepDelivered ==
    ASSUME Mishaps = {}, Types, Saving, Timely, Authored, NobodysWorkIsLost, [Next]_vars
    PROVE  NobodysWorkIsLost'
<1>1. \A m \in made : m.epoch = shared.epoch => Delivered(m)
  BY DeliveredIs
<1>2. SUFFICES ASSUME NEW m \in made', m.epoch = shared'.epoch
               PROVE  \/ m.op \in Held(m.op.by)'
                      \/ \A r \in m.op.on : ~ Newer(m.op, shared'.doc[r])
  BY DEF NobodysWorkIsLost, Held
<1>3. CASE \E s \in Studio, on \in (SUBSET Register) \ {{}} : Edit(s, on)
  <2>1. PICK s \in Studio, on \in SUBSET Register : Edit(s, on)
    BY <1>3
  <2>2. /\ \A t \in Studio : Held(t) \subseteq Held(t)'
        /\ \A n \in made' \ made : n.op \in Held(n.op.by)'
    BY <2>1, EditAuthored
  <2>3. shared' = shared
    BY <2>1, EditAt DEF server
  <2>4. CASE m \in made
    <3>1. Delivered(m) /\ m.op.by \in Studio
      BY <1>1, <1>2, <2>3, <2>4, MadeIs
    <3> QED BY <2>2, <2>3, <3>1 DEF Delivered, Taken
  <2> QED BY <2>2, <2>4
<1>4. ASSUME made' = made, shared'.epoch = shared.epoch
      PROVE  m \in made /\ m.op.by \in Studio /\ m.op \in Told /\ Delivered(m)
             /\ [op |-> m.op, epoch |-> shared.epoch] \in made
  BY <1>1, <1>2, <1>4, MadeIs
<1>5. ASSUME NEW s \in Studio, OthersStay(s), made' = made, m.op.by # s PROVE Held(m.op.by)' = Held(m.op.by)
  <2>1. m.op.by \in Studio
    BY <1>2, <1>5, MadeIs
  <2> QED BY <1>5, <2>1 DEF OthersStay, Stays, Held
<1>6. CASE \E s \in Studio : Push(s) \/ NotAnswered(s)
  <2>1. PICK s \in Studio : Push(s) \/ NotAnswered(s)
    BY <1>6
  <2>2. MergeAtServer(s) /\ OthersStay(s) /\ made' = made
    BY <2>1, PushAt, NotAnsweredAt DEF Push, NotAnswered
  <2>3. shared'.epoch = shared.epoch
    BY <2>2, MergeIsAt
  <2>4. m \in made /\ m.op.by \in Studio /\ m.op \in Told /\ Delivered(m)
    BY <1>4, <2>2, <2>3
  <2>5. CASE Taken(m.op)
    BY <2>2, <2>4, <2>5, TakenStays
  <2>6. CASE m.op \in Held(m.op.by) /\ m.op.by # s
    BY <1>5, <2>2, <2>6
  <2>7. CASE m.op \in Held(m.op.by) /\ m.op.by = s
    <3>1. CASE m.op \in ToSet(out[s].ops)
      BY <2>2, <3>1, CopyGrows
    <3>2. CASE m.op \in ToSet(studio[s].pending)
      <4>1. ToSet(studio[s].pending) \subseteq ToSet(studio'[s].pending)
        BY <2>1, PushAt, NotAnsweredAt
      <4> QED BY <2>7, <3>2, <4>1 DEF Held
    <3> QED BY <2>7, <3>1, <3>2 DEF Held
  <2> QED BY <2>4, <2>5, <2>6, <2>7 DEF Delivered
<1>7. ASSUME NEW s \in Studio, made' = made, OthersStay(s), UNCHANGED server,
           \/ Send(s) \/ Refuse(s) \/ AskAfterRefusal(s) \/ NotDelivered(s) \/ NotAnswered(s)
           \/ \E i \in 0..Asks : AskRegularly(s, i) \/ ReadBatches(s, i) \/ Adopt(s, i) \/ PollFails(s, i)
      PROVE  \/ m.op \in Held(m.op.by)'
             \/ \A r \in m.op.on : ~ Newer(m.op, shared'.doc[r])
  <2>1. shared' = shared
    BY <1>7 DEF server
  <2>2. m \in made /\ m.op.by \in Studio /\ Delivered(m) /\ [op |-> m.op, epoch |-> shared.epoch] \in made
    BY <1>4, <1>7, <2>1
  <2>3. CASE Taken(m.op)
    BY <2>1, <2>3 DEF Taken
  <2>4. CASE m.op \in Held(m.op.by) /\ m.op.by # s
    BY <1>5, <1>7, <2>4
  <2>5. CASE m.op \in Held(m.op.by) /\ m.op.by = s
    <3>1. m.op \in Held(s)
      BY <2>5
    <3>2. m.op \in Held(s)'
      BY <1>7, <2>2, <3>1, HeldStays
    <3> QED BY <2>5, <3>2
  <2> QED BY <2>2, <2>3, <2>4, <2>5 DEF Delivered
<1>8. CASE \E s \in Studio : Send(s) \/ Refuse(s) \/ AskAfterRefusal(s) \/ NotDelivered(s)
  BY <1>7, <1>8, SendAt, RefuseAt, AskAfterRefusalAt, NotDeliveredAt
<1>9. CASE \E s \in Studio, i \in 0..Asks :
             AskRegularly(s, i) \/ ReadBatches(s, i) \/ Adopt(s, i) \/ PollFails(s, i)
  <2>1. PICK s \in Studio, i \in 0..Asks :
             AskRegularly(s, i) \/ ReadBatches(s, i) \/ Adopt(s, i) \/ PollFails(s, i)
    BY <1>9
  <2>2. made' = made /\ OthersStay(s) /\ UNCHANGED server
    BY <2>1, AskRegularlyAt, ReadBatchesAt, AdoptAt, PollFailsAt
  <2> QED BY <1>7, <2>1, <2>2
<1>10. CASE AtServer
  <2>1. made' = made /\ \A t \in Studio : Stays(t)
    BY <1>10, AtServerAt
  <2>2. m.op.by \in Studio /\ m.epoch <= shared.epoch /\ m.epoch \in Nat
    <3>1. m \in made /\ m.op.by \in Studio /\ m.epoch \in 1..studio[m.op.by].epoch
      BY <1>2, <2>1, MadeIs DEF Authored
    <3>2. studio[m.op.by].epoch \in 1..shared.epoch /\ shared.epoch \in Nat
      BY <3>1, FieldsAre DEF Timely, InTime, SendInTime
    <3> QED BY <3>1, <3>2
  <2>3. Held(m.op.by)' = Held(m.op.by)
    BY <2>1, <2>2 DEF Stays, Held
  <2>4. CASE UNCHANGED server
    <3>1. shared' = shared
      BY <2>4 DEF server
    <3> QED BY <1>4, <2>1, <2>3, <3>1 DEF Delivered, Taken
  <2>5. CASE \E n \in Nat : Fresh(n)
    <3>1. shared'.epoch = shared.epoch + 1 /\ shared.epoch \in Nat
      BY <2>5, FieldsAre DEF Fresh
    <3> QED BY <1>2, <2>2, <3>1
  <2>6. CASE \E s \in Studio : Push(s) \/ NotAnswered(s)
    BY <1>6, <2>6
  <2> QED BY <2>4, <2>5, <2>6, ServerStep
<1> QED BY <1>3, <1>6, <1>8, <1>9, <1>10, StepsAre

\* What a Studio holds, what is under way and what was made fit together.
Delivering == Counting /\ Saving /\ Timely /\ Authored /\ NobodysWorkIsLost

LEMMA DeliveringHolds == ASSUME Mishaps = {} PROVE Spec => []Delivering
<1>1. Init => Timely /\ Authored /\ NobodysWorkIsLost
  <2>1. Init => NobodysWorkIsLost
    BY DEF Init, NobodysWorkIsLost
  <2> QED BY <2>1, InitTimely, InitAuthored
<1>2. Counting /\ Saving /\ (Timely /\ Authored /\ NobodysWorkIsLost) /\ [Next]_vars
        => (Timely /\ Authored /\ NobodysWorkIsLost)'
  <2> SUFFICES ASSUME Counting, Saving, Timely, Authored, NobodysWorkIsLost, [Next]_vars
               PROVE  Timely' /\ Authored' /\ NobodysWorkIsLost'
    OBVIOUS
  <2>1. Types
    BY DEF Counting
  <2> QED BY <2>1, StepTimely, StepAuthored, StepDelivered
<1>3. Spec => []Saving
  BY InTurn, SavingHolds
<1> QED BY <1>1, <1>2, <1>3, CountingHolds, PTL DEF Spec, Delivering

\* A change made in the epoch of the copy is unsent, on its way, or taken in: no reply,
\* lost answer, refusal or merge loses it.
THEOREM NobodyLosesWork == ASSUME Mishaps = {} PROVE Spec => []NobodysWorkIsLost
BY DeliveringHolds, PTL DEF Delivering

(***************************************************************************)
(* Everyone sees one copy.  seed is what the copy of this epoch started    *)
(* from, base the batch it started after, and w[r] the batch that wrote    *)
(* register r last.                                                        *)
(***************************************************************************)

\* The changes of this epoch.
Lately == {m.op : m \in {n \in made : n.epoch = shared.epoch}}

Untouched(r, L) == \A op \in L : r \notin op.on

\* A register says what the copy started from or what a change of this epoch wrote.
Genuine(doc, seed, L) ==
    \A r \in Register : \/ doc[r] = [v |-> seed[r], c |-> 0, by |-> 0]
                        \/ \E op \in L : r \in op.on /\ doc[r] = CellOf(op)

Behind(doc, copy) == \A r \in Register : ~ Newer(doc[r], copy[r])

TakenIn(ops, L, copy) ==
    \A j \in DOMAIN ops : ops[j] \in L /\ \A r \in ops[j].on : ~ Newer(ops[j], copy[r])

Carries(ops, r, copy) == \E j \in DOMAIN ops : r \in ops[j].on /\ CellOf(ops[j]) = copy[r]

\* It has every register that was written up to that batch.
Covers(doc, upto, w, copy) == \A r \in Register : w[r] <= upto => ~ Newer(copy[r], doc[r])

CopyAgrees(seed, base, w) ==
    /\ base <= shared.seq
    /\ \A r \in Register : w[r] \in Nat /\ w[r] <= shared.seq
    /\ Genuine(shared.doc, seed, Lately)
    /\ \A r \in Register : Untouched(r, Lately) => recipe.saved[r] = seed[r]
    /\ \A b \in batches : b.seq > base => TakenIn(b.ops, Lately, shared.doc)
    /\ \A r \in Register : \A b \in batches : b.seq = w[r] /\ b.seq > base => Carries(b.ops, r, shared.doc)

\* What a Studio shows that the copy does not is a change it still has.
Holds(s, r) == \E op \in Held(s) \cap Lately : r \in op.on /\ CellOf(op) = studio[s].doc[r]

StudioAgrees(s, seed, base, w) ==
    studio[s].epoch = shared.epoch =>
        /\ base <= studio[s].seq /\ studio[s].seq <= shared.seq
        /\ Genuine(studio[s].doc, seed, Lately)
        /\ Covers(studio[s].doc, studio[s].seq, w, shared.doc)
        /\ \A r \in Register : ~ Newer(studio[s].doc[r], shared.doc[r]) \/ Holds(s, r)

WholeCopyAgrees(p, seed, w) ==
    /\ Genuine(p.doc, seed, Lately)
    /\ Behind(p.doc, shared.doc)
    /\ Covers(p.doc, p.seq, w, shared.doc)

PollAgrees(s, i, seed, base, w) ==
    poll[s][i].at # "none" /\ poll[s][i].epoch = shared.epoch =>
        /\ base <= poll[s][i].seq
        /\ poll[s][i].full \/ poll[s][i].at = "copy" => WholeCopyAgrees(poll[s][i], seed, w)
        /\ poll[s][i].at = "copy" => base <= poll[s][i].after /\ poll[s][i].after <= studio[s].seq
        /\ poll[s][i].at = "ready" /\ ~ poll[s][i].full =>
             /\ TakenIn(poll[s][i].ops, Lately, shared.doc)
             /\ \A r \in Register : studio[s].seq < w[r] /\ w[r] <= poll[s][i].seq
                                      => Carries(poll[s][i].ops, r, shared.doc)

SaveAgrees(q, seed) ==
    /\ save[q].at = "asked" => save[q].from <= shared.epoch
    /\ \/ save[q].at = "asked" /\ save[q].from = shared.epoch
       \/ save[q].at = "read" /\ save[q].keeps
       => \A r \in Register : Untouched(r, Lately) => save[q].new[r] = seed[r]

BrowserAgrees(s, seed, base, w) ==
    StudioAgrees(s, seed, base, w) /\ \A i \in 0..Asks : PollAgrees(s, i, seed, base, w)

Agreed(seed, base, w) ==
    /\ CopyAgrees(seed, base, w)
    /\ \A s \in Studio : BrowserAgrees(s, seed, base, w)
    /\ \A q \in Saver : SaveAgrees(q, seed)

Agree == \E seed, w : \E base \in Nat : Agreed(seed, base, w)

LEMMA LatelyIs ==
    ASSUME Types
    PROVE  /\ \A op : op \in Lately <=> [op |-> op, epoch |-> shared.epoch] \in made
           /\ Lately \subseteq Told
<1>1. ASSUME NEW op \in Lately PROVE [op |-> op, epoch |-> shared.epoch] \in made
  <2>1. PICK m \in made : m.epoch = shared.epoch /\ m.op = op
    BY DEF Lately
  <2> QED BY <2>1, MadeIs
<1>2. ASSUME NEW op, [op |-> op, epoch |-> shared.epoch] \in made PROVE op \in Lately
  <2> DEFINE m == [op |-> op, epoch |-> shared.epoch]
  <2>1. m \in made /\ m.epoch = shared.epoch /\ m.op = op
    BY <1>2
  <2> HIDE DEF m
  <2> QED BY <2>1 DEF Lately
<1>3. Lately \subseteq Told
  BY DEF Lately, Told
<1> QED BY <1>1, <1>2, <1>3

LEMMA SameLately ==
    ASSUME made' = made, shared'.epoch = shared.epoch
    PROVE  Lately' = Lately
BY DEF Lately

\* Where the copy stays and no change is made, a Studio that stays agrees as it did.
LEMMA StaysAgreed ==
    ASSUME NEW seed, NEW base, NEW w, NEW t \in Studio, BrowserAgrees(t, seed, base, w),
           Stays(t), shared' = shared, made' = made
    PROVE  BrowserAgrees(t, seed, base, w)'
<1>1. Lately' = Lately
  BY SameLately
<1>2. StudioAgrees(t, seed, base, w)'
  BY <1>1 DEF BrowserAgrees, StudioAgrees, Stays, Holds, Held
<1>3. ASSUME NEW i \in 0..Asks PROVE PollAgrees(t, i, seed, base, w)'
  <2>1. poll'[t][i] = poll[t][i] /\ studio'[t].seq = studio[t].seq
    BY DEF Stays
  <2> QED BY <1>1, <2>1 DEF BrowserAgrees, PollAgrees, WholeCopyAgrees
<1> QED BY <1>2, <1>3 DEF BrowserAgrees

\* What a Studio holds of this epoch it still holds.
StillHolds(s) == \A op \in Held(s) \cap Lately : op \in Held(s)'

LEMMA KeepsAgreed ==
    ASSUME NEW seed, NEW base, NEW w, NEW s \in Studio, StudioAgrees(s, seed, base, w),
           shared' = shared, made' = made, StillHolds(s),
           studio'[s].doc = studio[s].doc, studio'[s].epoch = studio[s].epoch, studio'[s].seq = studio[s].seq
    PROVE  StudioAgrees(s, seed, base, w)'
<1>1. Lately' = Lately
  BY SameLately
<1>2. \A r \in Register : Holds(s, r) => Holds(s, r)'
  BY <1>1 DEF Holds, StillHolds
<1> QED BY <1>1, <1>2 DEF StudioAgrees

LEMMA KeepsPoll ==
    ASSUME NEW seed, NEW base, NEW w, NEW s \in Studio, NEW k \in 0..Asks, PollAgrees(s, k, seed, base, w),
           shared' = shared, made' = made, studio'[s].seq = studio[s].seq, poll'[s][k] = poll[s][k]
    PROVE  PollAgrees(s, k, seed, base, w)'
<1>1. Lately' = Lately
  BY SameLately
<1> QED BY <1>1 DEF PollAgrees, WholeCopyAgrees

LEMMA QuietPoll ==
    ASSUME NEW seed, NEW base, NEW w, NEW s \in Studio, NEW k \in 0..Asks, poll'[s][k] = Quiet
    PROVE  PollAgrees(s, k, seed, base, w)'
<1>1. Quiet.at = "none"
  BY DEF Quiet
<1> QED BY <1>1 DEF PollAgrees

LEMMA StillHeld ==
    ASSUME Mishaps = {}, Types, Timely, Authored, NEW s \in Studio,
           \/ Send(s) \/ Refuse(s) \/ AskAfterRefusal(s) \/ NotDelivered(s) \/ NotAnswered(s)
           \/ \E i \in 0..Asks : AskRegularly(s, i) \/ ReadBatches(s, i) \/ Adopt(s, i) \/ PollFails(s, i)
    PROVE  StillHolds(s)
<1>1. ASSUME NEW op \in Held(s) \cap Lately PROVE op \in Held(s)'
  <2>1. op \in Held(s) /\ [op |-> op, epoch |-> shared.epoch] \in made
    BY LatelyIs
  <2> QED BY <2>1, HeldStays
<1> QED BY <1>1 DEF StillHolds

LEMMA NeverNewer ==
    ASSUME Types
    PROVE  \A doc \in Docs : \A r \in Register : ~ Newer(doc[r], doc[r])
BY CellIs, NewerOrders DEF Types

LEMMA AskAgreed ==
    ASSUME Types, NEW seed, NEW base \in Nat, NEW w, NEW s \in Studio, NEW i \in 0..Asks, NEW named,
           CopyAgrees(seed, base, w), StudioAgrees(s, seed, base, w), Timely,
           poll'[s][i] = AskedFor(s, named), named \in {0, studio[s].epoch},
           shared' = shared, made' = made, studio' = studio
    PROVE  PollAgrees(s, i, seed, base, w)'
<1>1. Lately' = Lately
  BY SameLately
<1> DEFINE p == AskedFor(s, named)
<1>2. /\ p.at \in {"copy", "ready"} /\ (p.at = "copy" <=> named = shared.epoch)
      /\ p.full = (named # shared.epoch)
      /\ p.epoch = shared.epoch /\ p.seq = shared.seq /\ p.doc = shared.doc
      /\ p.ops = <<>> /\ p.after = studio[s].seq
  BY AskedForIs
<1> HIDE DEF p
<1>3. shared.epoch \in Nat \ {0} /\ shared.doc \in Docs /\ shared.seq \in Nat
  BY FieldsAre
<1>4. base <= p.seq
  BY <1>2 DEF CopyAgrees
<1>5. Genuine(p.doc, seed, Lately) /\ Behind(p.doc, shared.doc) /\ Covers(p.doc, p.seq, w, shared.doc)
  BY <1>2, <1>3, NeverNewer DEF CopyAgrees, Behind, Covers
<1>6. p.at = "copy" => base <= p.after /\ p.after <= studio[s].seq
  <2>1. p.at = "copy" => studio[s].epoch = shared.epoch
    BY <1>2, <1>3
  <2>2. studio[s].seq \in Nat
    BY FieldsAre DEF StudioRec
  <2> QED BY <1>2, <2>1, <2>2 DEF StudioAgrees
<1>7. ~ (p.at = "ready" /\ ~ p.full)
  BY <1>2
<1> QED BY <1>1, <1>4, <1>5, <1>6, <1>7 DEF PollAgrees, WholeCopyAgrees, p

LEMMA ReadBatchesAgreed ==
    ASSUME Types, Timely, NEW seed, NEW base \in Nat, NEW w, NEW s \in Studio, NEW i \in 0..Asks,
           Agreed(seed, base, w), ReadBatches(s, i)
    PROVE  PollAgrees(s, i, seed, base, w)'
<1> DEFINE p == poll[s][i]
<1>1. studio' = studio /\ p.at = "copy" /\ p \in PollRec /\ poll'[s][i] = Reply(p) /\ shared' = shared /\ made' = made
  BY ReadBatchesAt DEF server
<1>2. ~ p.full /\ p.seq <= shared.seq
  BY <1>1 DEF Timely, InTime, PollInTime
<1>3. PollAgrees(s, i, seed, base, w) /\ CopyAgrees(seed, base, w)
  BY DEF Agreed, BrowserAgrees
<1>4. p.epoch = shared.epoch =>
        /\ base <= p.seq /\ WholeCopyAgrees(p, seed, w) /\ base <= p.after /\ p.after <= studio[s].seq
  BY <1>1, <1>3 DEF PollAgrees
<1>5. Lately' = Lately
  BY <1>1, SameLately
<1> HIDE DEF p
<1>6. Reply(p).at # "none" =>
        /\ Reply(p) \in PollRec /\ Reply(p).at = "ready"
        /\ Reply(p).epoch = p.epoch /\ Reply(p).seq = p.seq
        /\ \/ /\ NotKept(p) /\ Reply(p).full /\ Reply(p).doc = p.doc
           \/ /\ ~ NotKept(p) /\ ~ Reply(p).full /\ Reply(p).ops = OpsAfter(p.after)
  BY <1>1, <1>2, ReplyInTime
<1>7. p.after \in Nat /\ p.seq \in Nat /\ studio[s].seq \in Nat /\ shared.seq \in Nat
  BY <1>1, FieldsAre DEF PollRec, StudioRec
<1>8. SUFFICES ASSUME Reply(p).at # "none", p.epoch = shared.epoch
               PROVE  /\ base <= Reply(p).seq
                      /\ Reply(p).full => WholeCopyAgrees(Reply(p), seed, w)
                      /\ ~ Reply(p).full =>
                           /\ TakenIn(Reply(p).ops, Lately, shared.doc)
                           /\ \A r \in Register : studio[s].seq < w[r] /\ w[r] <= Reply(p).seq
                                                    => Carries(Reply(p).ops, r, shared.doc)
  BY <1>1, <1>5, <1>6 DEF PollAgrees, WholeCopyAgrees
<1>9. CASE NotKept(p) /\ Reply(p).full /\ Reply(p).doc = p.doc
  BY <1>4, <1>6, <1>8, <1>9 DEF WholeCopyAgrees
<1>10. CASE ~ NotKept(p) /\ ~ Reply(p).full /\ Reply(p).ops = OpsAfter(p.after)
  <2> DEFINE ops == OpsAfter(p.after)
  <2>1. \A b \in batches : b.ops \in Seq(Told) /\ b.seq \in 1..shared.seq
    BY DEF Types, ServerTypes
  <2>2. /\ \A j \in DOMAIN ops : \E b \in batches :
             b.seq > p.after /\ \E k \in DOMAIN b.ops : ops[j] = b.ops[k]
        /\ \A b \in batches : b.seq \in (p.after + 1)..shared.seq => \E a \in batches :
             a.seq = b.seq /\ \A k \in DOMAIN a.ops : \E j \in DOMAIN ops : ops[j] = a.ops[k]
    BY <1>7, <2>1, OpsAfterIs
  <2> HIDE DEF ops
  <2>3. ASSUME NEW j \in DOMAIN ops
        PROVE  ops[j] \in Lately /\ \A r \in ops[j].on : ~ Newer(ops[j], shared.doc[r])
    <3>1. PICK b \in batches : b.seq > p.after /\ \E k \in DOMAIN b.ops : ops[j] = b.ops[k]
      BY <2>2
    <3>2. b.seq > base
      BY <1>4, <1>7, <1>8, <2>1, <3>1
    <3>3. TakenIn(b.ops, Lately, shared.doc)
      BY <1>3, <3>2 DEF CopyAgrees
    <3> QED BY <3>1, <3>3 DEF TakenIn
  <2>4. ASSUME NEW r \in Register, studio[s].seq < w[r], w[r] <= p.seq
        PROVE  Carries(ops, r, shared.doc)
    <3>1. w[r] \in Nat /\ p.after < w[r] /\ w[r] > base /\ w[r] <= shared.seq
      BY <1>2, <1>3, <1>4, <1>7, <1>8, <2>4 DEF CopyAgrees
    <3>2. PICK b \in batches : ~ (b.seq > p.after + 1)
      BY <1>7, <1>10, <2>4, <3>1 DEF NotKept
    <3>3. w[r] \in b.seq..shared.seq
      BY <1>7, <2>1, <3>1, <3>2
    <3>4. PICK c \in batches : c.seq = w[r]
      BY <3>3 DEF Timely, Contiguous
    <3>5. c.seq \in (p.after + 1)..shared.seq
      BY <1>7, <3>1, <3>4
    <3>6. PICK a \in batches : a.seq = c.seq /\ \A k \in DOMAIN a.ops : \E j \in DOMAIN ops : ops[j] = a.ops[k]
      BY <2>2, <3>5
    <3>7. Carries(a.ops, r, shared.doc)
      BY <1>3, <3>1, <3>4, <3>6 DEF CopyAgrees
    <3> QED BY <3>6, <3>7 DEF Carries
  <2>5. Reply(p).ops = ops
    BY <1>10 DEF ops
  <2>6. TakenIn(ops, Lately, shared.doc)
    BY <2>3 DEF TakenIn
  <2> QED BY <1>4, <1>6, <1>8, <1>10, <2>4, <2>5, <2>6
<1> QED BY <1>6, <1>8, <1>9, <1>10

LEMMA OtherPollAgreed ==
    ASSUME Types, NEW seed, NEW base \in Nat, NEW w, CopyAgrees(seed, base, w), NEW s \in Studio, NEW k \in 0..Asks,
           PollAgrees(s, k, seed, base, w),
           shared' = shared, made' = made, poll'[s][k] = poll[s][k], studio'[s].seq \in Nat,
           poll[s][k].at # "none" /\ poll[s][k].epoch = shared.epoch /\ ~ (poll[s][k].full /\ poll[s][k].at = "ready")
             => studio'[s].seq >= studio[s].seq
    PROVE  PollAgrees(s, k, seed, base, w)'
<1>1. Lately' = Lately
  BY SameLately
<1>2. SUFFICES ASSUME poll[s][k].at # "none", poll[s][k].epoch = shared.epoch,
                      ~ (poll[s][k].full /\ poll[s][k].at = "ready")
               PROVE  PollAgrees(s, k, seed, base, w)'
  <2>1. CASE ~ (poll[s][k].at # "none" /\ poll[s][k].epoch = shared.epoch)
    BY <2>1 DEF PollAgrees
  <2>2. CASE /\ poll[s][k].at # "none" /\ poll[s][k].epoch = shared.epoch
             /\ poll[s][k].full /\ poll[s][k].at = "ready"
    BY <1>1, <2>2 DEF PollAgrees, WholeCopyAgrees
  <2> QED BY <1>2, <2>1, <2>2
<1>3. poll[s][k].after \in Nat /\ studio[s].seq \in Nat /\ studio'[s].seq >= studio[s].seq
  BY <1>2, FieldsAre DEF PollRec, StudioRec
<1>4. poll[s][k].at = "copy" => poll[s][k].after <= studio'[s].seq
  BY <1>2, <1>3 DEF PollAgrees
<1>5. \A r \in Register : w[r] \in Nat /\ (studio'[s].seq < w[r] => studio[s].seq < w[r])
  BY <1>3 DEF CopyAgrees
<1> QED BY <1>1, <1>2, <1>4, <1>5 DEF PollAgrees, WholeCopyAgrees

\* What a Studio shows after it adopted a reply of this epoch.
LEMMA AdoptedAgrees ==
    ASSUME Mishaps = {}, Types, Timely, Authored, NEW seed, NEW base \in Nat, NEW w, NEW s \in Studio,
           NEW i \in 0..Asks, Agreed(seed, base, w), Adopt(s, i), poll[s][i].epoch = shared.epoch
    PROVE  StudioAgrees(s, seed, base, w)'
<1> DEFINE p == poll[s][i]
<1>1. /\ studio'[s] = Adopted(s, p) /\ p \in PollRec /\ p.at = "ready" /\ ~ Overtaken(s, i)
      /\ shared' = shared /\ made' = made /\ p.epoch = shared.epoch
  BY AdoptAt DEF server
<1>2. p.seq <= shared.seq /\ (~ p.full => p.epoch <= studio[s].epoch) /\ studio[s].epoch \in 1..shared.epoch
  BY <1>1, ZeroIsAPoll DEF Timely, InTime, PollInTime, SendInTime
<1>3. p.epoch \in Nat /\ p.seq \in Nat /\ studio[s].seq \in Nat /\ studio[s].epoch \in Nat /\ shared.seq \in Nat
      /\ studio[s].doc \in Docs /\ studio[s].pending \in Seq(Told) /\ p.ops \in Seq(Told) /\ p.doc \in Docs
      /\ shared.doc \in Docs
  BY <1>1, FieldsAre DEF PollRec, StudioRec
<1>4. ~ p.full => studio[s].epoch = shared.epoch /\ studio[s].seq <= p.seq
  BY <1>1, <1>2, <1>3 DEF Overtaken
<1>5. PollAgrees(s, i, seed, base, w) /\ CopyAgrees(seed, base, w) /\ StudioAgrees(s, seed, base, w)
  BY DEF Agreed, BrowserAgrees
<1>6. /\ base <= p.seq
      /\ p.full => WholeCopyAgrees(p, seed, w)
      /\ ~ p.full => /\ TakenIn(p.ops, Lately, shared.doc)
                     /\ \A r \in Register : studio[s].seq < w[r] /\ w[r] <= p.seq => Carries(p.ops, r, shared.doc)
  BY <1>1, <1>5 DEF PollAgrees
<1>7. StillHolds(s)
  BY StillHeld
<1>8. Lately' = Lately
  BY <1>1, SameLately
<1>9. studio'[s].epoch = shared.epoch /\ studio'[s].seq = p.seq /\ (p.full => studio'[s].doc = p.doc)
  BY <1>1 DEF Adopted
<1>10. ~ p.full => \A r \in Register :
             /\ ~ Newer(studio[s].doc[r], studio'[s].doc[r])
             /\ \A j \in DOMAIN p.ops : r \in p.ops[j].on => ~ Newer(p.ops[j], studio'[s].doc[r])
             /\ \/ studio'[s].doc[r] = studio[s].doc[r]
                \/ \E j \in DOMAIN p.ops : r \in p.ops[j].on /\ studio'[s].doc[r] = CellOf(p.ops[j])
                \/ \E j \in DOMAIN studio[s].pending :
                     r \in studio[s].pending[j].on /\ studio'[s].doc[r] = CellOf(studio[s].pending[j])
  BY <1>1, AdoptedShows
<1>11. studio'[s].doc \in Docs
  <2>1. Adopted(s, p) \in StudioRec
    BY <1>1, AdoptedIs
  <2> QED BY <1>1, <2>1 DEF StudioRec
<1> HIDE DEF p
<1>12. CASE p.full
  <2>1. Genuine(p.doc, seed, Lately) /\ Behind(p.doc, shared.doc) /\ Covers(p.doc, p.seq, w, shared.doc)
    BY <1>6, <1>12 DEF WholeCopyAgrees
  <2> QED BY <1>1, <1>2, <1>6, <1>8, <1>9, <1>12, <2>1 DEF StudioAgrees, Behind
<1>13. CASE ~ p.full
  <2>1. /\ Genuine(studio[s].doc, seed, Lately)
        /\ Covers(studio[s].doc, studio[s].seq, w, shared.doc)
        /\ \A r \in Register : ~ Newer(studio[s].doc[r], shared.doc[r]) \/ Holds(s, r)
    BY <1>4, <1>5, <1>13 DEF StudioAgrees
  <2>2. \A j \in DOMAIN studio[s].pending : studio[s].pending[j] \in Lately /\ studio[s].pending[j] \in Held(s)'
    <3> SUFFICES ASSUME NEW j \in DOMAIN studio[s].pending
                 PROVE  studio[s].pending[j] \in Lately /\ studio[s].pending[j] \in Held(s)'
      OBVIOUS
    <3>1. studio[s].pending[j] \in ToSet(studio[s].pending)
      BY InSet
    <3>2. studio[s].pending[j] \in Lately
      BY <1>4, <1>13, <3>1, LatelyIs DEF Authored, WroteAll, Wrote
    <3> QED BY <1>7, <3>1, <3>2 DEF StillHolds, Held
  <2>3. ASSUME NEW r \in Register
        PROVE  \/ studio'[s].doc[r] = [v |-> seed[r], c |-> 0, by |-> 0]
               \/ \E op \in Lately : r \in op.on /\ studio'[s].doc[r] = CellOf(op)
    <3>1. CASE studio'[s].doc[r] = studio[s].doc[r]
      BY <2>1, <3>1 DEF Genuine
    <3>2. CASE \E j \in DOMAIN p.ops : r \in p.ops[j].on /\ studio'[s].doc[r] = CellOf(p.ops[j])
      BY <1>6, <1>13, <3>2 DEF TakenIn
    <3>3. CASE \E j \in DOMAIN studio[s].pending :
                 r \in studio[s].pending[j].on /\ studio'[s].doc[r] = CellOf(studio[s].pending[j])
      BY <2>2, <3>3
    <3> QED BY <1>10, <1>13, <3>1, <3>2, <3>3
  <2>4. ASSUME NEW r \in Register, w[r] <= p.seq
        PROVE  ~ Newer(shared.doc[r], studio'[s].doc[r])
    <3>1. Stamp(shared.doc[r]) /\ Stamp(studio[s].doc[r]) /\ Stamp(studio'[s].doc[r])
      <4>1. MadeTypes
        BY DEF Types
      <4>2. \A doc \in Docs : Stamp(doc[r])
        BY <4>1, CellIs
      <4>3. shared.doc \in Docs /\ studio[s].doc \in Docs /\ studio'[s].doc \in Docs
        BY <1>3, <1>11
      <4> QED BY <4>2, <4>3
    <3>2. CASE w[r] <= studio[s].seq
      <4>1. ~ Newer(shared.doc[r], studio[s].doc[r]) /\ ~ Newer(studio[s].doc[r], studio'[s].doc[r])
        BY <1>10, <1>13, <2>1, <3>2 DEF Covers
      <4> QED BY <3>1, <4>1, NewerOrders
    <3>3. CASE ~ (w[r] <= studio[s].seq)
      <4>1. w[r] \in Nat /\ studio[s].seq < w[r]
        BY <1>3, <1>5, <3>3 DEF CopyAgrees
      <4>2. PICK j \in DOMAIN p.ops : r \in p.ops[j].on /\ CellOf(p.ops[j]) = shared.doc[r]
        BY <1>6, <1>13, <2>4, <4>1 DEF Carries
      <4>3. ~ Newer(p.ops[j], studio'[s].doc[r])
        BY <1>10, <1>13, <4>2
      <4>4. p.ops[j].c = shared.doc[r].c /\ p.ops[j].by = shared.doc[r].by
        BY <4>2 DEF CellOf
      <4> QED BY <4>3, <4>4 DEF Newer
    <3> QED BY <3>2, <3>3
  <2>5. ASSUME NEW r \in Register
        PROVE  ~ Newer(studio'[s].doc[r], shared.doc[r]) \/ Holds(s, r)'
    <3>1. CASE studio'[s].doc[r] = studio[s].doc[r]
      <4>1. Holds(s, r) => Holds(s, r)'
        BY <1>7, <1>8, <3>1 DEF Holds, StillHolds
      <4> QED BY <2>1, <3>1, <4>1
    <3>2. CASE \E j \in DOMAIN p.ops : r \in p.ops[j].on /\ studio'[s].doc[r] = CellOf(p.ops[j])
      <4>1. PICK j \in DOMAIN p.ops : r \in p.ops[j].on /\ studio'[s].doc[r] = CellOf(p.ops[j])
        BY <3>2
      <4>2. ~ Newer(p.ops[j], shared.doc[r])
        BY <1>6, <1>13, <4>1 DEF TakenIn
      <4>3. studio'[s].doc[r].c = p.ops[j].c /\ studio'[s].doc[r].by = p.ops[j].by
        BY <4>1 DEF CellOf
      <4> QED BY <4>2, <4>3 DEF Newer
    <3>3. CASE \E j \in DOMAIN studio[s].pending :
                 r \in studio[s].pending[j].on /\ studio'[s].doc[r] = CellOf(studio[s].pending[j])
      <4>1. PICK j \in DOMAIN studio[s].pending :
                 r \in studio[s].pending[j].on /\ studio'[s].doc[r] = CellOf(studio[s].pending[j])
        BY <3>3
      <4>2. studio[s].pending[j] \in Held(s)' \cap Lately'
        BY <1>8, <2>2
      <4> QED BY <4>1, <4>2 DEF Holds
    <3> QED BY <1>10, <1>13, <3>1, <3>2, <3>3
  <2>6. Genuine(studio'[s].doc, seed, Lately')
    BY <1>8, <2>3 DEF Genuine
  <2>7. Covers(studio'[s].doc, studio'[s].seq, w, shared'.doc)
    BY <1>1, <1>9, <2>4 DEF Covers
  <2>8. base <= studio'[s].seq /\ studio'[s].seq <= shared'.seq
    BY <1>1, <1>2, <1>6, <1>9
  <2>9. \A r \in Register : ~ Newer(studio'[s].doc[r], shared'.doc[r]) \/ Holds(s, r)'
    BY <1>1, <2>5
  <2> QED BY <2>6, <2>7, <2>8, <2>9 DEF StudioAgrees
<1> QED BY <1>12, <1>13

LEMMA AdoptAgreed ==
    ASSUME Mishaps = {}, Types, Timely, Authored, NEW seed, NEW base \in Nat, NEW w, NEW s \in Studio,
           NEW i \in 0..Asks, Agreed(seed, base, w), Adopt(s, i)
    PROVE  BrowserAgrees(s, seed, base, w)'
<1> DEFINE p == poll[s][i]
<1>1. /\ studio'[s] = Adopted(s, p) /\ p \in PollRec /\ p.at = "ready" /\ ~ Overtaken(s, i)
      /\ shared' = shared /\ made' = made /\ poll'[s][i] = Quiet
      /\ \A k \in 0..Asks : k # i => poll'[s][k] = poll[s][k]
  BY AdoptAt DEF server
<1>2. studio[s].epoch \in 1..shared.epoch /\ p.epoch <= shared.epoch /\ shared.epoch \in Nat
      /\ p.epoch \in Nat /\ p.seq \in Nat /\ studio[s].seq \in Nat
  BY <1>1, FieldsAre, ZeroIsAPoll DEF Timely, InTime, PollInTime, SendInTime, PollRec, StudioRec
<1>3. studio'[s].epoch = p.epoch /\ studio'[s].seq = p.seq
  BY <1>1 DEF Adopted
<1>4. StudioAgrees(s, seed, base, w)'
  <2>1. CASE p.epoch = shared.epoch
    BY <2>1, AdoptedAgrees
  <2>2. CASE p.epoch # shared.epoch
    BY <1>1, <1>3, <2>2 DEF StudioAgrees
  <2> QED BY <2>1, <2>2
<1>5. ASSUME NEW k \in 0..Asks, k # i PROVE PollAgrees(s, k, seed, base, w)'
  <2>1. ASSUME poll[s][k].at # "none", poll[s][k].epoch = shared.epoch,
               ~ (poll[s][k].full /\ poll[s][k].at = "ready")
        PROVE  studio'[s].seq >= studio[s].seq
    <3>1. poll[s][k].at \in {"copy", "ready"}
      BY <2>1, FieldsAre DEF PollRec
    <3>2. poll[s][k].epoch <= studio[s].epoch
      BY <2>1, <3>1 DEF Timely, InTime, PollInTime
    <3>3. studio[s].epoch = shared.epoch
      BY <1>2, <2>1, <3>2
    <3> QED BY <1>1, <1>2, <1>3, <3>3 DEF Overtaken
  <2>2. PollAgrees(s, k, seed, base, w) /\ CopyAgrees(seed, base, w)
    BY DEF Agreed, BrowserAgrees
  <2>3. poll'[s][k] = poll[s][k] /\ studio'[s].seq \in Nat
    BY <1>1, <1>2, <1>3, <1>5
  <2> QED BY <1>1, <2>1, <2>2, <2>3, OtherPollAgreed
<1>6. PollAgrees(s, i, seed, base, w)'
  BY <1>1, QuietPoll
<1> QED BY <1>4, <1>5, <1>6 DEF BrowserAgrees

\* What holds of the changes of an epoch holds of more of them.
LEMMA MoreChanges ==
    ASSUME NEW L, NEW M, L \subseteq M
    PROVE  /\ \A doc, seed : Genuine(doc, seed, L) => Genuine(doc, seed, M)
           /\ \A ops, copy : TakenIn(ops, L, copy) => TakenIn(ops, M, copy)
           /\ \A r \in Register : Untouched(r, M) => Untouched(r, L)
BY DEF Genuine, TakenIn, Untouched

LEMMA GrowsAgreed ==
    ASSUME NEW seed, NEW base, NEW w, NEW t \in Studio, BrowserAgrees(t, seed, base, w),
           Stays(t), shared' = shared, Lately \subseteq Lately'
    PROVE  BrowserAgrees(t, seed, base, w)'
<1>1. /\ \A doc : Genuine(doc, seed, Lately) => Genuine(doc, seed, Lately')
      /\ \A ops, copy : TakenIn(ops, Lately, copy) => TakenIn(ops, Lately', copy)
  BY MoreChanges
<1>2. StudioAgrees(t, seed, base, w)'
  <2>1. \A r \in Register : Holds(t, r) => Holds(t, r)'
    BY DEF Holds, Held, Stays
  <2> QED BY <1>1, <2>1 DEF BrowserAgrees, StudioAgrees, Stays
<1>3. ASSUME NEW i \in 0..Asks PROVE PollAgrees(t, i, seed, base, w)'
  <2>1. poll'[t][i] = poll[t][i] /\ studio'[t].seq = studio[t].seq
    BY DEF Stays
  <2> QED BY <1>1, <2>1 DEF BrowserAgrees, PollAgrees, WholeCopyAgrees
<1> QED BY <1>2, <1>3 DEF BrowserAgrees

LEMMA EditedAgrees ==
    ASSUME Mishaps = {}, Types, Clocks, NEW seed, NEW base, NEW w, NEW s \in Studio, NEW on \in SUBSET Register,
           StudioAgrees(s, seed, base, w), Edit(s, on), Lately \subseteq Lately',
           studio[s].epoch = shared.epoch => OpOf(s, on) \in Lately'
    PROVE  StudioAgrees(s, seed, base, w)'
<1> DEFINE op == OpOf(s, on)
<1>1. /\ studio'[s].doc = ApplyOp(studio[s].doc, op)
      /\ studio'[s].epoch = studio[s].epoch /\ studio'[s].seq = studio[s].seq
      /\ studio'[s].pending = Append(studio[s].pending, op) /\ out' = out
      /\ shared' = shared
  BY EditAt DEF server
<1>2. \A r \in on : studio'[s].doc[r] = CellOf(op)
  BY EditClocks
<1>3. op.on = on
  BY DEF OpOf
<1>4. \A r \in Register \ on : studio'[s].doc[r] = studio[s].doc[r]
  BY <1>1, <1>3 DEF ApplyOp
<1>5. studio[s].pending \in Seq(Told) /\ studio[s].doc \in Docs /\ shared.doc \in Docs
  BY FieldsAre DEF StudioRec
<1>6. op \in Held(s)' /\ Held(s) \subseteq Held(s)'
  <2> DEFINE T == Told \cup {op}
  <2>1. studio[s].pending \in Seq(T) /\ op \in T
    BY <1>5
  <2> HIDE DEF T, op
  <2>2. ToSet(Append(studio[s].pending, op)) = ToSet(studio[s].pending) \cup {op}
    BY <2>1, AppendIs
  <2>3. ToSet(studio'[s].pending) = ToSet(studio[s].pending) \cup {op}
    BY <1>1, <2>2
  <2> QED BY <1>1, <2>3 DEF Held
<1>7. \A r \in Register : ~ Newer(studio[s].doc[r], studio'[s].doc[r])
  <2> SUFFICES ASSUME NEW r \in Register PROVE ~ Newer(studio[s].doc[r], studio'[s].doc[r])
    OBVIOUS
  <2>1. Stamp(studio[s].doc[r])
    BY <1>5, CellIs DEF Types
  <2>2. CASE r \in on
    <3>1. op.c > studio[s].doc[r].c
      BY <2>1 DEF Clocks, Heard, OpOf, Stamp, Types, StudioTypes, StudioRec, MadeTypes
    <3>2. studio'[s].doc[r].c = op.c
      BY <1>2, <2>2 DEF CellOf
    <3>3. op.c \in Nat
      BY FieldsAre DEF OpOf, StudioRec
    <3> QED BY <2>1, <3>1, <3>2, <3>3 DEF Newer, Stamp
  <2>3. CASE r \notin on
    BY <1>4, <2>1, <2>3, NewerOrders
  <2> QED BY <2>2, <2>3
<1> HIDE DEF op
<1>8. SUFFICES ASSUME studio[s].epoch = shared.epoch
               PROVE  /\ Genuine(studio'[s].doc, seed, Lately')
                      /\ Covers(studio'[s].doc, studio[s].seq, w, shared.doc)
                      /\ \A r \in Register : ~ Newer(studio'[s].doc[r], shared.doc[r]) \/ Holds(s, r)'
  BY <1>1 DEF StudioAgrees
<1>9. op \in Lately'
  BY <1>8 DEF op
<1>10. /\ Genuine(studio[s].doc, seed, Lately)
       /\ Covers(studio[s].doc, studio[s].seq, w, shared.doc)
       /\ \A r \in Register : ~ Newer(studio[s].doc[r], shared.doc[r]) \/ Holds(s, r)
  BY <1>8 DEF StudioAgrees
<1>11. Genuine(studio'[s].doc, seed, Lately')
  BY <1>2, <1>3, <1>4, <1>9, <1>10 DEF Genuine
<1>12. \A r \in Register : w[r] <= studio[s].seq => ~ Newer(shared.doc[r], studio'[s].doc[r])
  <2> SUFFICES ASSUME NEW r \in Register, w[r] <= studio[s].seq PROVE ~ Newer(shared.doc[r], studio'[s].doc[r])
    OBVIOUS
  <2>1. Stamp(studio[s].doc[r]) /\ Stamp(shared.doc[r])
    BY <1>5, CellIs DEF Types
  <2>2. Stamp(studio'[s].doc[r])
    <3>1. CASE r \in on
      <4>1. studio'[s].doc[r].c = studio[s].clock + 1 /\ studio'[s].doc[r].by = s
        BY <1>2, <3>1 DEF CellOf, OpOf, op
      <4>2. studio[s].clock \in Nat
        BY FieldsAre DEF StudioRec
      <4>3. s \in Nat
        BY CoEditAssumption
      <4> QED BY <4>1, <4>2, <4>3 DEF Stamp
    <3> QED BY <1>4, <2>1, <3>1
  <2>3. ~ Newer(shared.doc[r], studio[s].doc[r]) /\ ~ Newer(studio[s].doc[r], studio'[s].doc[r])
    BY <1>7, <1>10 DEF Covers
  <2> QED BY <2>1, <2>2, <2>3, NewerOrders
<1>13. ASSUME NEW r \in Register PROVE ~ Newer(studio'[s].doc[r], shared.doc[r]) \/ Holds(s, r)'
  <2>1. CASE r \in on
    BY <1>2, <1>3, <1>6, <1>9, <2>1 DEF Holds
  <2>2. CASE r \notin on
    <3>1. studio'[s].doc[r] = studio[s].doc[r]
      BY <1>4, <2>2
    <3>2. Holds(s, r) => Holds(s, r)'
      BY <1>6, <3>1 DEF Holds
    <3> QED BY <1>10, <3>1, <3>2
  <2> QED BY <2>1, <2>2
<1> QED BY <1>11, <1>12, <1>13 DEF Covers

LEMMA EditAgreed ==
    ASSUME Mishaps = {}, Types, Clocks, Timely, NEW seed, NEW base, NEW w, NEW s \in Studio,
           NEW on \in SUBSET Register, Agreed(seed, base, w), Edit(s, on)
    PROVE  Agreed(seed, base, w)'
<1> DEFINE op == OpOf(s, on)
           m == [op |-> op, epoch |-> studio[s].epoch]
<1>1. OthersStay(s) /\ studio'[s].seq = studio[s].seq /\ poll' = poll
      /\ shared' = shared /\ batches' = batches /\ recipe' = recipe /\ save' = save
  BY EditAt DEF server
<1>2. made' = made \cup {m}
  <2>1. studio[s].epoch \in Nat \ {0}
    BY FieldsAre DEF Timely, InTime, SendInTime
  <2>2. Latest(1, {studio[s].epoch}) = studio[s].epoch
    BY <2>1, LatestOfTwo
  <2> QED BY <2>2, EditMakes
<1>3. m.op = op /\ m.epoch = studio[s].epoch
  OBVIOUS
<1> HIDE DEF op, m
<1>4. Lately \subseteq Lately' /\ (studio[s].epoch = shared.epoch => op \in Lately')
  BY <1>1, <1>2, <1>3 DEF Lately
<1>5. /\ \A doc : Genuine(doc, seed, Lately) => Genuine(doc, seed, Lately')
      /\ \A ops, copy : TakenIn(ops, Lately, copy) => TakenIn(ops, Lately', copy)
      /\ \A r \in Register : Untouched(r, Lately') => Untouched(r, Lately)
  BY <1>4, MoreChanges
<1>6. CopyAgrees(seed, base, w)'
  BY <1>1, <1>5 DEF CopyAgrees, Agreed
<1>7. \A q \in Saver : SaveAgrees(q, seed)'
  BY <1>1, <1>5 DEF SaveAgrees, Agreed
<1>8. ASSUME NEW t \in Studio, t # s PROVE BrowserAgrees(t, seed, base, w)'
  BY <1>1, <1>4, <1>8, GrowsAgreed DEF Agreed, OthersStay
<1>9. StudioAgrees(s, seed, base, w)'
  BY <1>4, EditedAgrees DEF Agreed, BrowserAgrees, op
<1>10. ASSUME NEW i \in 0..Asks PROVE PollAgrees(s, i, seed, base, w)'
  BY <1>1, <1>5 DEF BrowserAgrees, PollAgrees, WholeCopyAgrees, Agreed
<1> QED BY <1>6, <1>7, <1>8, <1>9, <1>10 DEF Agreed, BrowserAgrees

\* A request at the server, where the copy stays.
LEMMA SaverAgreed ==
    ASSUME Mishaps = {}, Types, Saving, Timely, NEW seed, NEW base, NEW w, Agreed(seed, base, w), AtServer,
           UNCHANGED server
    PROVE  /\ \A r \in Register : Untouched(r, Lately) => recipe'.saved[r] = seed[r]
           /\ \A q \in Saver : SaveAgrees(q, seed)'
<1>1. made' = made /\ shared' = shared
  BY AtServerAt DEF server
<1>2. Lately' = Lately
  BY <1>1, SameLately
<1>3. /\ \A q \in Saver : SaveAgrees(q, seed)
      /\ \A r \in Register : Untouched(r, Lately) => recipe.saved[r] = seed[r]
  BY DEF Agreed, CopyAgrees
<1>4. ASSUME NEW q \in Saver, save'[q] = save[q] PROVE SaveAgrees(q, seed)'
  BY <1>1, <1>2, <1>3, <1>4 DEF SaveAgrees
<1>5. ASSUME NEW q \in Saver, save'[q] = Idle PROVE SaveAgrees(q, seed)'
  BY <1>5 DEF SaveAgrees, Idle
<1>6. save \in [Saver -> {Idle} \cup AskedRec \cup ReadRec] /\ shared.epoch \in Nat \ {0}
  BY FieldsAre DEF Types, SaveTypes
<1>7. ASSUME NEW q \in Saver, SaveRefused(q) PROVE recipe' = recipe /\ \A p \in Saver : SaveAgrees(p, seed)'
  <2>1. recipe' = recipe /\ save' = [save EXCEPT ![q] = Idle]
    BY <1>7 DEF SaveRefused
  <2> QED BY <1>4, <1>5, <1>6, <2>1
<1>8. ASSUME NEW q \in Saver, SaveRead(q) PROVE recipe' = recipe /\ \A p \in Saver : SaveAgrees(p, seed)'
  <2> DEFINE x == Reading(save[q].by, save[q].new, save[q].from, save[q].expected)
  <2>1. recipe' = recipe /\ save' = [save EXCEPT ![q] = x] /\ save[q].at = "asked"
    BY <1>6, <1>8 DEF SaveRead
  <2>2. x.at = "read" /\ x.new = save[q].new /\ x.keeps = (save[q].from = shared.epoch)
    BY DEF Reading
  <2> HIDE DEF x
  <2>3. save'[q] = x /\ \A p \in Saver \ {q} : save'[p] = save[p]
    BY <1>6, <2>1
  <2>4. x.keeps => \A r \in Register : Untouched(r, Lately) => x.new[r] = seed[r]
    BY <1>3, <2>1, <2>2 DEF SaveAgrees
  <2>5. SaveAgrees(q, seed)'
    BY <1>2, <2>2, <2>3, <2>4 DEF SaveAgrees
  <2> QED BY <1>4, <2>1, <2>3, <2>5
<1>9. ASSUME NEW q \in Saver, NEW s \in Studio, SaveAsk(q, s)
      PROVE recipe' = recipe /\ \A p \in Saver : SaveAgrees(p, seed)'
  <2> DEFINE x == [at |-> "asked", by |-> s, new |-> Materialise(studio[s].doc),
                   from |-> studio[s].epoch, expected |-> studio[s].revision]
  <2>1. recipe' = recipe /\ save' = [save EXCEPT ![q] = x]
    BY <1>9 DEF SaveAsk
  <2>2. x.at = "asked" /\ x.from = studio[s].epoch /\ \A r \in Register : x.new[r] = studio[s].doc[r].v
    BY DEF Materialise
  <2> HIDE DEF x
  <2>3. save'[q] = x /\ \A p \in Saver \ {q} : save'[p] = save[p]
    BY <1>6, <2>1
  <2>4. studio[s].epoch <= shared.epoch
    BY DEF Timely, InTime, SendInTime
  <2>5. ASSUME NEW r \in Register, Untouched(r, Lately), studio[s].epoch = shared.epoch PROVE x.new[r] = seed[r]
    <3>1. Genuine(studio[s].doc, seed, Lately)
      BY <2>5 DEF Agreed, BrowserAgrees, StudioAgrees
    <3>2. studio[s].doc[r] = [v |-> seed[r], c |-> 0, by |-> 0]
      BY <2>5, <3>1 DEF Genuine, Untouched
    <3> QED BY <2>2, <3>2
  <2>6. SaveAgrees(q, seed)'
    BY <1>1, <1>2, <2>2, <2>3, <2>4, <2>5 DEF SaveAgrees
  <2> QED BY <1>4, <2>1, <2>3, <2>6
<1>10. ASSUME NEW q \in Saver, NEW a \in Register, ChangeOutside(q, a)
       PROVE recipe' = recipe /\ \A p \in Saver : SaveAgrees(p, seed)'
  <2> DEFINE x == Reading(0, [recipe.saved EXCEPT ![a] = MaxEdits + restarts + 1], 0, 0)
  <2>1. recipe' = recipe /\ save' = [save EXCEPT ![q] = x]
    BY <1>10 DEF ChangeOutside
  <2>2. x.at = "read" /\ x.keeps = (0 = shared.epoch)
    BY DEF Reading
  <2> HIDE DEF x
  <2>3. save'[q] = x /\ \A p \in Saver \ {q} : save'[p] = save[p]
    BY <1>6, <2>1
  <2>4. ~ x.keeps
    BY <1>6, <2>2
  <2>5. SaveAgrees(q, seed)'
    BY <2>2, <2>3, <2>4 DEF SaveAgrees
  <2> QED BY <1>4, <2>1, <2>3, <2>5
<1>11. ASSUME NEW q \in Saver, SaveWrite(q)
       PROVE  /\ \A r \in Register : Untouched(r, Lately) => recipe'.saved[r] = seed[r]
              /\ \A p \in Saver : SaveAgrees(p, seed)'
  <2>1. /\ save[q].at = "read" /\ save' = [save EXCEPT ![q] = Idle]
        /\ \/ recipe' = recipe
           \/ /\ recipe' = [revision |-> recipe.revision + 1, saved |-> save[q].new]
              /\ ~ save[q].keeps => Fresh(save[q].seq)
    BY <1>11, SaveWriteIs
  <2>2. ~ Fresh(save[q].seq)
    <3>1. shared'.epoch = shared.epoch /\ shared.epoch \in Nat
      BY <1>1, <1>6
    <3> QED BY <3>1 DEF Fresh
  <2>3. \A p \in Saver : SaveAgrees(p, seed)'
    BY <1>4, <1>5, <1>6, <2>1
  <2>4. \/ recipe' = recipe
        \/ save[q].keeps /\ recipe'.saved = save[q].new
    BY <2>1, <2>2
  <2> QED BY <1>3, <2>1, <2>3, <2>4 DEF SaveAgrees
<1>12. CASE DiscardUnsaved
  <2>1. Fresh(shared.seq)
    BY <1>12, DiscardIs
  <2> QED BY <1>1, <1>6, <2>1 DEF Fresh
<1>13. CASE UNCHANGED vars
  BY <1>3, <1>4, <1>13 DEF vars
<1> QED BY <1>3, <1>7, <1>8, <1>9, <1>10, <1>11, <1>12, <1>13 DEF AtServer, SaveStep

LEMMA QuietServerAgreed ==
    ASSUME Mishaps = {}, Types, Saving, Timely, NEW seed, NEW base, NEW w, Agreed(seed, base, w), AtServer,
           UNCHANGED server
    PROVE  Agreed(seed, base, w)'
<1>1. made' = made /\ shared' = shared /\ batches' = batches /\ \A t \in Studio : Stays(t)
  BY AtServerAt DEF server
<1>2. Lately' = Lately
  BY <1>1, SameLately
<1>3. CopyAgrees(seed, base, w)'
  BY <1>1, <1>2, SaverAgreed DEF CopyAgrees, Agreed
<1>4. \A s \in Studio : BrowserAgrees(s, seed, base, w)'
  BY <1>1, StaysAgreed DEF Agreed
<1> QED BY <1>3, <1>4, SaverAgreed DEF Agreed

\* The copy of the new epoch agrees with the recipe it starts from.
LEMMA FreshAgreed ==
    ASSUME Mishaps = {}, Types, Types', Saving, Timely, Authored, Agree, AtServer, NEW n \in Nat, Fresh(n)
    PROVE  Agree'
<1>1. made' = made /\ \A t \in Studio : Stays(t)
  BY AtServerAt
<1>2. PICK seed, w : \E base \in Nat : Agreed(seed, base, w)
  BY DEF Agree
<1>3. shared'.epoch = shared.epoch + 1 /\ shared'.seq = shared.seq /\ shared'.doc = Seed(recipe'.saved)
      /\ batches' = {b \in batches : b.seq > n}
      /\ shared.epoch \in Nat /\ shared.seq \in Nat
  BY FieldsAre DEF Fresh
<1>4. Lately' = {}
  <2>1. ASSUME NEW m \in made PROVE m.epoch # shared.epoch + 1
    <3>1. m.op.by \in Studio /\ m.epoch \in 1..studio[m.op.by].epoch
      BY MadeIs DEF Authored
    <3>2. studio[m.op.by].epoch \in 1..shared.epoch
      BY <3>1 DEF Timely, InTime, SendInTime
    <3> QED BY <1>3, <3>1, <3>2
  <2> QED BY <1>1, <1>3, <2>1 DEF Lately
<1>5. \A b \in batches' : ~ (b.seq > shared.seq)
  BY <1>3 DEF Types, ServerTypes
<1>6. PICK new, base, z : /\ new = recipe'.saved /\ base = shared.seq /\ z = [r \in Register |-> 0]
  OBVIOUS
<1>7. \A r \in Register : shared'.doc[r] = [v |-> new[r], c |-> 0, by |-> 0] /\ z[r] = 0
  BY <1>3, <1>6 DEF Seed
<1>8. CopyAgrees(new, base, z)'
  BY <1>3, <1>4, <1>5, <1>6, <1>7 DEF CopyAgrees, Genuine
<1>9. ASSUME NEW t \in Studio PROVE BrowserAgrees(t, new, base, z)'
  <2>1. studio'[t].epoch = studio[t].epoch /\ poll'[t] = poll[t]
    BY <1>1 DEF Stays
  <2>2. studio[t].epoch <= shared.epoch /\ studio[t].epoch \in Nat
    BY <1>3 DEF Timely, InTime, SendInTime
  <2>3. StudioAgrees(t, new, base, z)'
    BY <1>3, <2>1, <2>2 DEF StudioAgrees
  <2>4. ASSUME NEW i \in 0..Asks PROVE PollAgrees(t, i, new, base, z)'
    <3>1. poll[t][i].at # "none" => poll[t][i].epoch <= shared.epoch /\ poll[t][i].epoch \in Nat
      BY FieldsAre DEF Timely, InTime, PollInTime, PollRec
    <3> QED BY <1>3, <2>1, <3>1 DEF PollAgrees
  <2> QED BY <2>3, <2>4 DEF BrowserAgrees
<1>10. \A q \in Saver : save'[q].at # "read" /\ (save'[q].at = "asked" => save'[q] = save[q])
  <2>1. ~ UNCHANGED server
    BY <1>3 DEF server
  <2>2. save \in [Saver -> {Idle} \cup AskedRec \cup ReadRec]
    BY DEF Types, SaveTypes
  <2>3. CASE \E q \in Saver : SaveWrite(q)
    <3>1. PICK q \in Saver : SaveWrite(q)
      BY <2>3
    <3>2. save[q].at = "read" /\ save' = [save EXCEPT ![q] = Idle]
      BY <3>1, SaveWriteIs
    <3>3. save'[q] = Idle /\ \A p \in Saver \ {q} : save'[p] = save[p] /\ save[p].at # "read"
      BY <2>2, <3>2 DEF Saving
    <3> QED BY <3>3 DEF Idle
  <2>4. CASE DiscardUnsaved
    BY <2>4, DiscardIs, InTurn
  <2> QED BY <2>1, <2>3, <2>4
        DEF AtServer, SaveStep, SaveRefused, SaveRead, SaveAsk, ChangeOutside, vars
<1>11. ASSUME NEW q \in Saver PROVE SaveAgrees(q, new)'
  <2>1. save[q].at = "asked" => save[q].from <= shared.epoch /\ save[q].from \in Nat
    BY <1>2, FieldsAre DEF Agreed, SaveAgrees, AskedRec
  <2> QED BY <1>3, <1>10, <2>1 DEF SaveAgrees
<1>12. Agreed(new, base, z)' /\ base \in Nat
  BY <1>3, <1>6, <1>8, <1>9, <1>11 DEF Agreed
<1> QED BY <1>12 DEF Agree

\* What a newer copy still takes in.
LEMMA NewerCopy ==
    ASSUME Types, NEW L \in SUBSET Told, NEW new \in Docs, \A r \in Register : ~ Newer(shared.doc[r], new[r])
    PROVE  /\ \A ops : TakenIn(ops, L, shared.doc) => TakenIn(ops, L, new)
           /\ \A doc \in Docs : \A r \in Register : ~ Newer(doc[r], shared.doc[r]) => ~ Newer(doc[r], new[r])
<1>1. /\ \A doc \in Docs : \A r \in Register : Stamp(doc[r])
      /\ \A op \in Told : Stamp(op) /\ op.on \subseteq Register
  BY CellIs DEF Types
<1>2. shared.doc \in Docs
  BY FieldsAre
<1>3. ASSUME NEW ops, TakenIn(ops, L, shared.doc) PROVE TakenIn(ops, L, new)
  <2>1. ASSUME NEW j \in DOMAIN ops, NEW r \in ops[j].on PROVE ~ Newer(ops[j], new[r])
    <3>1. ops[j] \in Told /\ ~ Newer(ops[j], shared.doc[r])
      BY <1>3, <2>1 DEF TakenIn
    <3>2. r \in Register /\ Stamp(ops[j]) /\ Stamp(shared.doc[r]) /\ Stamp(new[r])
      BY <1>1, <1>2, <2>1, <3>1
    <3> QED BY <3>1, <3>2, NewerOrders
  <2> QED BY <1>3, <2>1 DEF TakenIn
<1>4. ASSUME NEW doc \in Docs, NEW r \in Register, ~ Newer(doc[r], shared.doc[r]) PROVE ~ Newer(doc[r], new[r])
  <2>1. Stamp(doc[r]) /\ Stamp(shared.doc[r]) /\ Stamp(new[r])
    BY <1>1, <1>2
  <2> QED BY <1>4, <2>1, NewerOrders
<1> QED BY <1>3, <1>4

\* The registers that a merge writes are written by its batch.
WrittenBy(w, v, old, new, n) ==
    \A r \in Register : v[r] = IF new[r] = old[r] THEN w[r] ELSE n

LEMMA EarlierWrites ==
    ASSUME NEW w, NEW v, NEW old, NEW new, NEW n \in Nat, WrittenBy(w, v, old, new, n + 1),
           NEW upto \in Nat, upto <= n, NEW r \in Register, v[r] <= upto
    PROVE  new[r] = old[r] /\ v[r] = w[r]
BY DEF WrittenBy

LEMMA MergedCopyAgrees ==
    ASSUME Types, Authored, NEW seed, NEW base \in Nat, NEW w, NEW v, CopyAgrees(seed, base, w),
           NEW s \in Studio, MergeAtServer(s), made' = made, recipe' = recipe,
           WrittenBy(w, v, shared.doc, shared'.doc, shared.seq + 1)
    PROVE  CopyAgrees(seed, base, v)'
<1> DEFINE b0 == [seq |-> shared.seq + 1, ops |-> out[s].ops]
<1>1. /\ shared'.epoch = shared.epoch /\ shared'.seq = shared.seq + 1 /\ out[s].epoch = shared.epoch
      /\ batches' \subseteq batches \cup {b0} /\ shared.seq \in Nat /\ shared.doc \in Docs
  BY MergeIsAt, FieldsAre DEF MergeAtServer
<1>2. b0.seq = shared.seq + 1 /\ b0.ops = out[s].ops
  OBVIOUS
<1> HIDE DEF b0
<1>3. Lately' = Lately /\ Lately \subseteq Told
  BY <1>1, SameLately, LatelyIs
<1>4. \A j \in DOMAIN out[s].ops : out[s].ops[j] \in Lately /\ out[s].ops[j] \in ToSet(out[s].ops)
  BY <1>1, InSet, LatelyIs DEF Authored, WroteAll, Wrote
<1> DEFINE old == shared.doc
           new == shared'.doc
<1>5. /\ \A r \in Register : ~ Newer(old[r], new[r])
      /\ \A op \in ToSet(out[s].ops) : \A r \in op.on : ~ Newer(op, new[r])
      /\ \A r \in Register : \/ new[r] = old[r]
                             \/ \E j \in DOMAIN out[s].ops :
                                  r \in out[s].ops[j].on /\ new[r] = CellOf(out[s].ops[j])
      /\ new \in Docs
  BY CopyGrows
<1>6. \A ops : TakenIn(ops, Lately, old) => TakenIn(ops, Lately, new)
  BY <1>3, <1>5, NewerCopy
<1>7. /\ base <= shared.seq
      /\ \A r \in Register : w[r] \in Nat /\ w[r] <= shared.seq
      /\ Genuine(old, seed, Lately)
      /\ \A r \in Register : Untouched(r, Lately) => recipe.saved[r] = seed[r]
      /\ \A b \in batches : b.seq > base => TakenIn(b.ops, Lately, old)
      /\ \A r \in Register : \A b \in batches : b.seq = w[r] /\ b.seq > base => Carries(b.ops, r, old)
  BY DEF CopyAgrees
<1>8. WrittenBy(w, v, old, new, shared.seq + 1)
  OBVIOUS
<1>9. \A b \in batches : b.seq \in Nat /\ b.seq <= shared.seq
  BY <1>1 DEF Types, ServerTypes
<1> HIDE DEF old, new
<1>10. base <= shared.seq + 1 /\ \A r \in Register : v[r] \in Nat /\ v[r] <= shared.seq + 1
  BY <1>1, <1>7, <1>8 DEF WrittenBy
<1>11. Genuine(new, seed, Lately)
  BY <1>4, <1>5, <1>7 DEF Genuine
<1>12. TakenIn(b0.ops, Lately, new)
  BY <1>2, <1>4, <1>5 DEF TakenIn
<1>13. ASSUME NEW r \in Register, NEW b \in batches \cup {b0}, b.seq = v[r], b.seq > base
       PROVE  Carries(b.ops, r, new)
  <2>1. CASE b \in batches
    <3>1. new[r] = old[r] /\ v[r] = w[r]
      BY <1>1, <1>8, <1>9, <1>13, <2>1 DEF WrittenBy
    <3> QED BY <1>7, <1>13, <2>1, <3>1 DEF Carries
  <2>2. CASE b = b0
    <3>1. new[r] # old[r]
      BY <1>1, <1>2, <1>7, <1>8, <1>13, <2>2 DEF WrittenBy
    <3> QED BY <1>2, <1>5, <2>2, <3>1 DEF Carries
  <2> QED BY <1>13, <2>1, <2>2
<1>14. \A b \in batches' : b.seq > base => TakenIn(b.ops, Lately, new)
  BY <1>1, <1>6, <1>7, <1>12
<1> QED BY <1>1, <1>3, <1>7, <1>10, <1>11, <1>13, <1>14 DEF CopyAgrees, new

LEMMA MergedBrowserAgrees ==
    ASSUME Types, Timely, NEW seed, NEW base \in Nat, NEW w, NEW v, NEW t \in Studio,
           BrowserAgrees(t, seed, base, w), NEW s \in Studio, MergeAtServer(s), made' = made,
           studio'[t].doc = studio[t].doc, studio'[t].epoch = studio[t].epoch, studio'[t].seq = studio[t].seq,
           poll'[t] = poll[t],
           \A op \in Held(t) : op \in Held(t)' \/ op \in ToSet(out[s].ops),
           WrittenBy(w, v, shared.doc, shared'.doc, shared.seq + 1)
    PROVE  BrowserAgrees(t, seed, base, v)'
<1>1. shared'.epoch = shared.epoch /\ shared'.seq = shared.seq + 1 /\ shared.seq \in Nat /\ shared.doc \in Docs
  BY MergeIsAt, FieldsAre
<1>2. Lately' = Lately /\ Lately \subseteq Told
  BY <1>1, SameLately, LatelyIs
<1> DEFINE old == shared.doc
           new == shared'.doc
<1>3. /\ \A r \in Register : ~ Newer(old[r], new[r])
      /\ \A op \in ToSet(out[s].ops) : \A r \in op.on : ~ Newer(op, new[r])
      /\ new \in Docs
  BY CopyGrows
<1>4. /\ \A ops : TakenIn(ops, Lately, old) => TakenIn(ops, Lately, new)
      /\ \A doc \in Docs : \A r \in Register : ~ Newer(doc[r], old[r]) => ~ Newer(doc[r], new[r])
  BY <1>2, <1>3, NewerCopy
<1>5. \A upto \in Nat, r \in Register : upto <= shared.seq /\ v[r] <= upto => new[r] = old[r] /\ v[r] = w[r]
  BY <1>1, EarlierWrites
<1>6. \A doc : \A upto \in Nat : upto <= shared.seq /\ Covers(doc, upto, w, old) => Covers(doc, upto, v, new)
  <2> HIDE DEF old, new
  <2> QED BY <1>5 DEF Covers
<1>7. studio[t].doc \in Docs /\ studio[t].seq \in Nat
  BY FieldsAre DEF StudioRec
<1>8. StudioAgrees(t, seed, base, v)'
  <2> SUFFICES ASSUME studio[t].epoch = shared.epoch
               PROVE  /\ base <= studio[t].seq /\ studio[t].seq <= shared.seq + 1
                      /\ Genuine(studio[t].doc, seed, Lately)
                      /\ Covers(studio[t].doc, studio[t].seq, v, new)
                      /\ \A r \in Register : ~ Newer(studio[t].doc[r], new[r]) \/ Holds(t, r)'
    BY <1>1, <1>2 DEF StudioAgrees
  <2>1. /\ base <= studio[t].seq /\ studio[t].seq <= shared.seq
        /\ Genuine(studio[t].doc, seed, Lately)
        /\ Covers(studio[t].doc, studio[t].seq, w, old)
        /\ \A r \in Register : ~ Newer(studio[t].doc[r], old[r]) \/ Holds(t, r)
    BY DEF BrowserAgrees, StudioAgrees
  <2>2. ASSUME NEW r \in Register, Holds(t, r) PROVE ~ Newer(studio[t].doc[r], new[r]) \/ Holds(t, r)'
    <3>1. PICK op \in Held(t) \cap Lately : r \in op.on /\ CellOf(op) = studio[t].doc[r]
      BY <2>2 DEF Holds
    <3>2. CASE op \in Held(t)'
      BY <1>2, <3>1, <3>2 DEF Holds
    <3>3. CASE op \in ToSet(out[s].ops)
      <4>1. ~ Newer(op, new[r])
        BY <1>3, <3>1, <3>3
      <4>2. studio[t].doc[r].c = op.c /\ studio[t].doc[r].by = op.by
        BY <3>1 DEF CellOf
      <4> HIDE DEF new
      <4> QED BY <4>1, <4>2 DEF Newer
    <3> QED BY <3>1, <3>2, <3>3
  <2> HIDE DEF old, new
  <2> QED BY <1>1, <1>4, <1>6, <1>7, <2>1, <2>2
<1>9. ASSUME NEW i \in 0..Asks PROVE PollAgrees(t, i, seed, base, v)'
  <2> DEFINE p == poll[t][i]
  <2>1. poll'[t][i] = p
    OBVIOUS
  <2> SUFFICES ASSUME p.at # "none", p.epoch = shared.epoch
               PROVE  /\ base <= p.seq
                      /\ p.full \/ p.at = "copy" => /\ Genuine(p.doc, seed, Lately)
                                                    /\ Behind(p.doc, new)
                                                    /\ Covers(p.doc, p.seq, v, new)
                      /\ p.at = "copy" => base <= p.after /\ p.after <= studio[t].seq
                      /\ p.at = "ready" /\ ~ p.full =>
                           /\ TakenIn(p.ops, Lately, new)
                           /\ \A r \in Register : studio[t].seq < v[r] /\ v[r] <= p.seq => Carries(p.ops, r, new)
    BY <1>1, <1>2, <2>1 DEF PollAgrees, WholeCopyAgrees
  <2>2. p.seq \in Nat /\ p.seq <= shared.seq /\ p.doc \in Docs
    BY FieldsAre DEF PollRec, Timely, InTime, PollInTime
  <2>3. /\ base <= p.seq
        /\ p.full \/ p.at = "copy" => /\ Genuine(p.doc, seed, Lately)
                                      /\ Behind(p.doc, old)
                                      /\ Covers(p.doc, p.seq, w, old)
        /\ p.at = "copy" => base <= p.after /\ p.after <= studio[t].seq
        /\ p.at = "ready" /\ ~ p.full =>
             /\ TakenIn(p.ops, Lately, old)
             /\ \A r \in Register : studio[t].seq < w[r] /\ w[r] <= p.seq => Carries(p.ops, r, old)
    BY DEF BrowserAgrees, PollAgrees, WholeCopyAgrees
  <2> HIDE DEF p, old, new
  <2>4. Behind(p.doc, old) => Behind(p.doc, new)
    BY <1>4, <2>2 DEF Behind
  <2>5. \A r \in Register : v[r] <= p.seq => new[r] = old[r] /\ v[r] = w[r]
    BY <1>5, <2>2
  <2>6. \A r \in Register : v[r] <= p.seq /\ Carries(p.ops, r, old) => Carries(p.ops, r, new)
    BY <2>5 DEF Carries
  <2>7. Covers(p.doc, p.seq, w, old) => Covers(p.doc, p.seq, v, new)
    BY <1>6, <2>2
  <2>8. ASSUME p.at = "ready", ~ p.full, NEW r \in Register, studio[t].seq < v[r], v[r] <= p.seq
        PROVE  Carries(p.ops, r, new)
    BY <2>3, <2>5, <2>6, <2>8
  <2> QED BY <1>4, <2>3, <2>4, <2>7, <2>8
<1> QED BY <1>8, <1>9 DEF BrowserAgrees

LEMMA MergeAgreed ==
    ASSUME Mishaps = {}, Types, Timely, Authored, NEW seed, NEW base \in Nat, NEW w, Agreed(seed, base, w),
           NEW s \in Studio, Push(s) \/ NotAnswered(s)
    PROVE  Agree'
<1>1. /\ MergeAtServer(s) /\ made' = made /\ recipe' = recipe /\ save' = save /\ poll' = poll /\ OthersStay(s)
      /\ \A t \in Studio : studio'[t].doc = studio[t].doc /\ studio'[t].epoch = studio[t].epoch
                           /\ studio'[t].seq = studio[t].seq
      /\ \A op \in Held(s) : op \in Held(s)' \/ op \in ToSet(out[s].ops)
  <2>1. CASE Push(s)
    BY <2>1, PushAt DEF Push, Held
  <2>2. CASE NotAnswered(s)
    <3>1. /\ made' = made /\ recipe' = recipe /\ save' = save /\ poll' = poll /\ OthersStay(s)
          /\ studio'[s].doc = studio[s].doc /\ studio'[s].epoch = studio[s].epoch /\ studio'[s].seq = studio[s].seq
          /\ ToSet(studio'[s].pending) = ToSet(out[s].ops) \cup ToSet(studio[s].pending)
      BY <2>2, NotAnsweredAt
    <3>2. MergeAtServer(s)
      BY <2>2 DEF NotAnswered
    <3> QED BY <3>1, <3>2 DEF OthersStay, Stays, Held
  <2> QED BY <2>1, <2>2
<1>2. shared'.epoch = shared.epoch
  BY <1>1, MergeIsAt
<1>3. Lately' = Lately
  BY <1>1, <1>2, SameLately
<1>4. PICK v : WrittenBy(w, v, shared.doc, shared'.doc, shared.seq + 1)
  <2> DEFINE v == [r \in Register |-> IF shared'.doc[r] = shared.doc[r] THEN w[r] ELSE shared.seq + 1]
  <2>1. WrittenBy(w, v, shared.doc, shared'.doc, shared.seq + 1)
    BY DEF WrittenBy
  <2> QED BY <2>1
<1>5. CopyAgrees(seed, base, v)'
  BY <1>1, <1>4, MergedCopyAgrees DEF Agreed
<1>6. ASSUME NEW t \in Studio PROVE BrowserAgrees(t, seed, base, v)'
  <2>1. poll'[t] = poll[t] /\ BrowserAgrees(t, seed, base, w)
    BY <1>1 DEF Agreed
  <2>2. \A op \in Held(t) : op \in Held(t)' \/ op \in ToSet(out[s].ops)
    BY <1>1 DEF OthersStay, Stays, Held
  <2> QED BY <1>1, <1>4, <2>1, <2>2, MergedBrowserAgrees
<1>7. \A q \in Saver : SaveAgrees(q, seed)'
  BY <1>1, <1>2, <1>3 DEF Agreed, SaveAgrees
<1> QED BY <1>5, <1>6, <1>7 DEF Agreed, Agree

LEMMA InitAgree == ASSUME Mishaps = {} PROVE Init => Agree
<1> SUFFICES ASSUME Init PROVE Agree
  OBVIOUS
<1>1. Types /\ Lately = {}
  BY InitTypes DEF Init, Lately
<1>2. PICK seed, w : seed = Blank /\ w = [r \in Register |-> 0]
  OBVIOUS
<1>3. \A r \in Register : shared.doc[r] = [v |-> seed[r], c |-> 0, by |-> 0] /\ w[r] = 0
  BY <1>2 DEF Init, Seed
<1>4. shared.seq = 0 /\ recipe.saved = seed /\ batches = {} /\ shared.doc \in Docs
  BY <1>1, <1>2, FieldsAre DEF Init
<1>5. CopyAgrees(seed, 0, w)
  <2>1. Genuine(shared.doc, seed, Lately)
    BY <1>3 DEF Genuine
  <2>2. \A r \in Register : w[r] \in Nat /\ w[r] <= shared.seq
    <3>1. \A r \in Register : w[r] = 0
      BY <1>3
    <3>2. shared.seq = 0
      BY <1>4
    <3> QED BY ONLY <3>1, <3>2
  <2> QED BY <1>4, <2>1, <2>2 DEF CopyAgrees
<1>6. ASSUME NEW s \in Studio PROVE BrowserAgrees(s, seed, 0, w)
  <2>1. studio[s].doc = shared.doc /\ studio[s].seq = 0 /\ \A i \in 0..Asks : poll[s][i] = Quiet
    BY DEF Init
  <2>2. \A r \in Register : ~ Newer(shared.doc[r], shared.doc[r])
    BY <1>1, <1>4, NeverNewer
  <2>3. StudioAgrees(s, seed, 0, w)
    BY <1>4, <1>5, <2>1, <2>2 DEF StudioAgrees, Covers, CopyAgrees
  <2>4. \A i \in 0..Asks : PollAgrees(s, i, seed, 0, w)
    BY <2>1 DEF PollAgrees, Quiet
  <2> QED BY <2>3, <2>4 DEF BrowserAgrees
<1>7. \A q \in Saver : SaveAgrees(q, seed)
  BY DEF SaveAgrees, Init, Idle
<1> QED BY <1>5, <1>6, <1>7 DEF Agreed, Agree

\* A step of a Studio that leaves the copy and the changes alone.
LEMMA BrowserStepAgreed ==
    ASSUME NEW seed, NEW base, NEW w, Agreed(seed, base, w), NEW s \in Studio, OthersStay(s),
           shared' = shared, batches' = batches, recipe' = recipe, save' = save, made' = made,
           BrowserAgrees(s, seed, base, w)'
    PROVE  Agreed(seed, base, w)'
<1>1. Lately' = Lately
  BY SameLately
<1>2. CopyAgrees(seed, base, w)' /\ \A q \in Saver : SaveAgrees(q, seed)'
  BY <1>1 DEF Agreed, CopyAgrees, SaveAgrees
<1>3. ASSUME NEW t \in Studio, t # s PROVE BrowserAgrees(t, seed, base, w)'
  BY <1>3, StaysAgreed DEF Agreed, OthersStay
<1> QED BY <1>2, <1>3 DEF Agreed

LEMMA SendAgreed ==
    ASSUME Mishaps = {}, Types, Timely, Authored, NEW seed, NEW base \in Nat, NEW w, Agreed(seed, base, w),
           NEW s \in Studio, Send(s) \/ Refuse(s) \/ NotDelivered(s)
    PROVE  Agreed(seed, base, w)'
<1>1. /\ OthersStay(s) /\ poll' = poll /\ made' = made /\ UNCHANGED <<server, recipe, save>>
      /\ studio'[s].doc = studio[s].doc /\ studio'[s].epoch = studio[s].epoch /\ studio'[s].seq = studio[s].seq
  BY SendAt, RefuseAt, NotDeliveredAt
<1>2. StillHolds(s) /\ shared' = shared
  BY <1>1, StillHeld DEF server
<1>3. StudioAgrees(s, seed, base, w)'
  BY <1>1, <1>2, KeepsAgreed DEF Agreed, BrowserAgrees
<1>4. \A i \in 0..Asks : PollAgrees(s, i, seed, base, w)'
  BY <1>1, <1>2, KeepsPoll DEF Agreed, BrowserAgrees
<1> QED BY <1>1, <1>3, <1>4, BrowserStepAgreed DEF BrowserAgrees, server

LEMMA PollAgreed ==
    ASSUME Mishaps = {}, Types, Timely, Authored, NEW seed, NEW base \in Nat, NEW w, Agreed(seed, base, w),
           NEW s \in Studio, NEW i \in 0..Asks,
           \/ AskRegularly(s, i) \/ ReadBatches(s, i) \/ PollFails(s, i)
           \/ i = 0 /\ AskAfterRefusal(s)
    PROVE  Agreed(seed, base, w)'
<1>1. /\ OthersStay(s) /\ studio' = studio /\ made' = made /\ UNCHANGED <<server, recipe, save>>
      /\ \A k \in 0..Asks : k # i => poll'[s][k] = poll[s][k]
  BY AskRegularlyAt, AskAfterRefusalAt, ReadBatchesAt, PollFailsAt
<1>2. StillHolds(s) /\ shared' = shared /\ batches' = batches
  BY <1>1, StillHeld DEF server
<1>3. StudioAgrees(s, seed, base, w)'
  BY <1>1, <1>2, KeepsAgreed DEF Agreed, BrowserAgrees
<1>4. \A k \in 0..Asks : k # i => PollAgrees(s, k, seed, base, w)'
  BY <1>1, <1>2, KeepsPoll DEF Agreed, BrowserAgrees
<1>5. PollAgrees(s, i, seed, base, w)'
  <2>1. CASE AskRegularly(s, i)
    <3>1. poll'[s][i] = AskedFor(s, studio[s].epoch)
      BY <2>1, AskRegularlyAt
    <3> QED BY <1>1, <1>2, <3>1, AskAgreed DEF Agreed, BrowserAgrees
  <2>2. CASE i = 0 /\ AskAfterRefusal(s)
    <3>1. poll'[s][i] = AskedFor(s, 0)
      BY <2>2, AskAfterRefusalAt
    <3> QED BY <1>1, <1>2, <3>1, AskAgreed DEF Agreed, BrowserAgrees
  <2>3. CASE ReadBatches(s, i)
    BY <2>3, ReadBatchesAgreed
  <2>4. CASE PollFails(s, i)
    BY <2>4, PollFailsAt, QuietPoll
  <2> QED BY <2>1, <2>2, <2>3, <2>4
<1>6. BrowserAgrees(s, seed, base, w)'
  BY <1>3, <1>4, <1>5 DEF BrowserAgrees
<1> QED BY <1>1, <1>2, <1>6, BrowserStepAgreed

LEMMA StepAgree ==
    ASSUME Mishaps = {}, Counting, Types', Saving, Timely, Authored, Agree, [Next]_vars
    PROVE  Agree'
<1>1. PICK seed, w : \E base \in Nat : Agreed(seed, base, w)
  BY DEF Agree
<1>2. PICK base \in Nat : Agreed(seed, base, w)
  BY <1>1
<1>3. Types /\ Clocks
  BY DEF Counting
<1>4. Agreed(seed, base, w)' => Agree'
  BY DEF Agree
<1>5. CASE \E s \in Studio, on \in (SUBSET Register) \ {{}} : Edit(s, on)
  BY <1>2, <1>3, <1>4, <1>5, EditAgreed
<1>6. CASE \E s \in Studio : Send(s) \/ Refuse(s) \/ NotDelivered(s)
  BY <1>2, <1>3, <1>4, <1>6, SendAgreed
<1>7. CASE \E s \in Studio : Push(s) \/ NotAnswered(s)
  BY <1>2, <1>3, <1>7, MergeAgreed
<1>8. CASE \E s \in Studio : AskAfterRefusal(s)
  BY <1>2, <1>3, <1>4, <1>8, PollAgreed, ZeroIsAPoll
<1>9. CASE \E s \in Studio, i \in 0..Asks : AskRegularly(s, i) \/ ReadBatches(s, i) \/ PollFails(s, i)
  BY <1>2, <1>3, <1>4, <1>9, PollAgreed
<1>10. CASE \E s \in Studio, i \in 0..Asks : Adopt(s, i)
  <2>1. PICK s \in Studio, i \in 0..Asks : Adopt(s, i)
    BY <1>10
  <2>2. OthersStay(s) /\ made' = made /\ UNCHANGED <<server, recipe, save>>
    BY <1>3, <2>1, AdoptAt
  <2>3. BrowserAgrees(s, seed, base, w)'
    BY <1>2, <1>3, <2>1, AdoptAgreed
  <2>4. shared' = shared /\ batches' = batches
    BY <2>2 DEF server
  <2> QED BY <1>2, <1>4, <2>2, <2>3, <2>4, BrowserStepAgreed
<1>11. CASE AtServer /\ UNCHANGED server
  BY <1>2, <1>3, <1>4, <1>11, QuietServerAgreed
<1>12. CASE AtServer /\ \E n \in Nat : Fresh(n)
  BY <1>3, <1>12, FreshAgreed
<1>13. CASE AtServer
  BY <1>3, <1>7, <1>11, <1>12, <1>13, ServerStep
<1> QED BY <1>5, <1>6, <1>7, <1>8, <1>9, <1>10, <1>13, StepsAre

LEMMA AgreeHolds == ASSUME Mishaps = {} PROVE Spec => []Agree
<1>1. Init => Agree
  BY InitAgree
<1>2. Delivering /\ Delivering' /\ Agree /\ [Next]_vars => Agree'
  BY StepAgree DEF Delivering, Counting
<1> QED BY <1>1, <1>2, DeliveringHolds, PTL DEF Spec

\* A Studio that has every batch and nothing of its own under way shows the copy.
LEMMA AgreeIsSafe == Delivering /\ Agree => CopySafety
<1> SUFFICES ASSUME Delivering, Agree PROVE CopySafety
  OBVIOUS
<1>1. Types /\ Authored
  BY DEF Delivering, Counting
<1>2. PICK seed, w : \E base \in Nat : Agreed(seed, base, w)
  BY DEF Agree
<1>3. PICK base \in Nat : Agreed(seed, base, w)
  BY <1>2
<1>4. TypeOK
  BY CountingIsTyped DEF Delivering
<1>5. CopyAgrees(seed, base, w)
  BY <1>3 DEF Agreed
<1>6. CopyStartsFromTheRecipe
  <2> SUFFICES ASSUME NEW r \in Register, \A m \in made : m.epoch = shared.epoch => r \notin m.op.on
               PROVE  shared.doc[r].v = recipe.saved[r]
    BY DEF CopyStartsFromTheRecipe
  <2>1. Untouched(r, Lately)
    BY DEF Untouched, Lately
  <2>2. shared.doc[r] = [v |-> seed[r], c |-> 0, by |-> 0] /\ recipe.saved[r] = seed[r]
    BY <1>5, <2>1 DEF CopyAgrees, Genuine, Untouched
  <2> QED BY <2>2
<1>7. ASSUME NEW s \in Studio, UpToDate(s) PROVE studio[s].doc = shared.doc
  <2>1. studio[s].epoch = shared.epoch /\ studio[s].seq = shared.seq /\ Held(s) = {}
    <3>1. ToSet(studio[s].pending) = {}
      BY <1>7, NothingIn DEF UpToDate
    <3>2. out[s].ops = <<>>
      BY <1>7 DEF UpToDate, Delivering, Timely, InTime, SendInTime
    <3> QED BY <1>7, <3>1, <3>2, NothingIn DEF UpToDate, Held
  <2>2. StudioAgrees(s, seed, base, w)
    BY <1>3 DEF Agreed, BrowserAgrees
  <2>3. /\ Genuine(studio[s].doc, seed, Lately)
        /\ Covers(studio[s].doc, studio[s].seq, w, shared.doc)
        /\ \A r \in Register : ~ Newer(studio[s].doc[r], shared.doc[r])
    BY <2>1, <2>2 DEF StudioAgrees, Holds
  <2>4. studio[s].doc \in Docs /\ shared.doc \in Docs
    BY <1>1, FieldsAre DEF StudioRec
  <2>5. ASSUME NEW r \in Register PROVE studio[s].doc[r] = shared.doc[r]
    <3>1. w[r] <= studio[s].seq
      BY <1>5, <2>1 DEF CopyAgrees
    <3>2. Stamp(studio[s].doc[r]) /\ Stamp(shared.doc[r])
      BY <1>1, <2>4, CellIs DEF Types
    <3>3. studio[s].doc[r].c = shared.doc[r].c /\ studio[s].doc[r].by = shared.doc[r].by
      BY <2>3, <3>1, <3>2, NewerOrders DEF Covers
    <3>4. ASSUME NEW op \in Lately
          PROVE  /\ op.c \in Nat \ {0} /\ CellOf(op).c = op.c /\ CellOf(op).by = op.by
                 /\ [op |-> op, epoch |-> shared.epoch] \in made
      BY <1>1, LatelyIs, CellIs DEF Types
    <3>5. \A a, b \in Lately : a.c = b.c /\ a.by = b.by => a = b
      <4> SUFFICES ASSUME NEW a \in Lately, NEW b \in Lately, a.c = b.c, a.by = b.by PROVE a = b
        OBVIOUS
      <4>1. PICK m \in made, n \in made : m.op = a /\ n.op = b
        BY DEF Lately
      <4> QED BY <1>1, <4>1 DEF Authored
    <3>6. Genuine(shared.doc, seed, Lately)
      BY <1>5 DEF CopyAgrees
    <3>7. CASE studio[s].doc[r] = [v |-> seed[r], c |-> 0, by |-> 0]
      <4>1. \A op \in Lately : shared.doc[r] # CellOf(op)
        <5>1. shared.doc[r].c = 0
          BY <3>3, <3>7
        <5>2. ASSUME NEW op \in Lately PROVE CellOf(op).c # 0
          <6>1. op.c \in Nat \ {0} /\ CellOf(op).c = op.c
            BY <3>4
          <6> QED BY ONLY <6>1
        <5> QED BY <5>1, <5>2
      <4> QED BY <3>6, <3>7, <4>1 DEF Genuine
    <3>8. CASE \E op \in Lately : r \in op.on /\ studio[s].doc[r] = CellOf(op)
      <4>1. PICK a \in Lately : studio[s].doc[r] = CellOf(a)
        BY <3>8
      <4>2. shared.doc[r] # [v |-> seed[r], c |-> 0, by |-> 0]
        <5>1. CellOf(a).c # 0
          <6>1. a.c \in Nat \ {0} /\ CellOf(a).c = a.c
            BY <3>4
          <6> QED BY ONLY <6>1
        <5>2. shared.doc[r].c # 0
          BY <3>3, <4>1, <5>1
        <5>3. [v |-> seed[r], c |-> 0, by |-> 0].c = 0
          OBVIOUS
        <5> QED BY <5>2, <5>3
      <4>3. PICK b \in Lately : shared.doc[r] = CellOf(b)
        BY <3>6, <4>2 DEF Genuine
      <4>4. a.c = b.c /\ a.by = b.by
        BY <3>3, <3>4, <4>1, <4>3
      <4> QED BY <3>5, <4>1, <4>3, <4>4
    <3> QED BY <2>3, <3>7, <3>8 DEF Genuine
  <2> QED BY <2>4, <2>5 DEF Docs
<1>8. EveryoneAgrees
  BY <1>7 DEF EveryoneAgrees
<1> QED BY <1>4, <1>6, <1>8 DEF CopySafety

\* Where none of the mishaps the code does not provide for happens, a Studio that has every
\* batch and nothing on its way shows the shared copy, whatever the order in which changes,
\* replies, losses and fresh starts came, and a register nobody changed in this epoch
\* says what is saved (coedit.py: push_changes, poll, start_again).
THEOREM EveryoneSeesOneCopy == ASSUME Mishaps = {} PROVE Spec => []CopySafety
BY DeliveringHolds, AgreeHolds, AgreeIsSafe, PTL
=============================================================================
