------------------------- MODULE RecursionTheorems -------------------------
(***************************************************************************)
(* Induction over the naturals, and functions defined by recursion over    *)
(* them, as facts about sets: the theorems of NaturalsInduction take a     *)
(* predicate or a definition as an operator parameter, for which the       *)
(* provers would have to find the instance; a set and a function they are  *)
(* given.  What the models build by recursion is FlattenSeq, whose         *)
(* properties follow.                                                      *)
(***************************************************************************)
EXTENDS Naturals, Subsequences, SequenceTheorems, WellFoundedInduction, TLAPS

\* A set that holds 0 and the successor of each of its numbers holds every number.
THEOREM NatInductionSet ==
  ASSUME NEW T, 0 \in T, \A n \in Nat : n \in T => n + 1 \in T
  PROVE  \A n \in Nat : n \in T
<1> DEFINE less == {ss \in Nat \X Nat : ss[1] < ss[2]}
           rest == Nat \ T
<1>1. IsWellFoundedOn(less, Nat)
  BY NatLessThanWellFounded DEF OpToRel
<1>2. ASSUME rest # {} PROVE FALSE
  <2>1. rest \subseteq Nat
    OBVIOUS
  <2>2. PICK x \in rest : \A y \in rest : ~(<<y, x>> \in less)
    <3> HIDE DEF less, rest
    <3>1. QED
      BY <1>1, <1>2, <2>1, WFMin
  <2>3. x \in Nat /\ x # 0 /\ x - 1 \in Nat /\ x - 1 < x /\ (x - 1) + 1 = x
    BY <2>2
  <2>4. x - 1 \notin rest
    <3>1. <<x - 1, x>> \in less
      BY <2>3
    <3>2. QED
      BY <2>2, <3>1
  <2>5. x \in T
    BY <2>3, <2>4
  <2>6. QED
    BY <2>2, <2>5
<1>3. QED
  BY <1>2

\* f is given by its value at 0 and by the step from each number to the next.
FollowsSteps(f, v0, step) ==
  /\ f[0] = v0
  /\ \A n \in Nat : f[n + 1] = step[<<f[n], n + 1>>]

\* A function given by its value at 0 and by the step from each number to the next
\* exists: values of a set V, the step a function of the value and the number.
THEOREM NatRecursion ==
  ASSUME NEW V, NEW v0 \in V, NEW step \in [V \X Nat -> V]
  PROVE  \E f \in [Nat -> V] : FollowsSteps(f, v0, step)
\* approximations: functions on 0..n that satisfy the equations so far
<1> DEFINE Approx(n, h) == /\ h \in [0..n -> V]
                           /\ h[0] = v0
                           /\ \A i \in Nat : i < n => h[i + 1] = step[<<h[i], i + 1>>]
<1>1. \A n \in Nat : \E h : Approx(n, h)
  <2> DEFINE T == {n \in Nat : \E h : Approx(n, h)}
  <2>1. 0 \in T
    <3>1. Approx(0, [i \in 0..0 |-> v0])
      OBVIOUS
    <3>2. QED
      BY <3>1
  <2>2. ASSUME NEW n \in Nat, n \in T PROVE n + 1 \in T
    <3>1. PICK h : Approx(n, h)
      BY <2>2
    <3> DEFINE g == [i \in 0 .. n + 1 |-> IF i <= n THEN h[i] ELSE step[<<h[n], n + 1>>]]
    <3>2. h[n] \in V /\ <<h[n], n + 1>> \in V \X Nat
      BY <3>1
    <3>3. step[<<h[n], n + 1>>] \in V
      BY <3>2
    <3>4. g \in [0 .. n + 1 -> V]
      BY <3>1, <3>3
    <3>5. g[0] = v0
      BY <3>1
    <3>6. ASSUME NEW i \in Nat, i < n + 1 PROVE g[i + 1] = step[<<g[i], i + 1>>]
      <4>1. CASE i = n
        <5>1. g[n] = h[n] /\ g[n + 1] = step[<<h[n], n + 1>>]
          OBVIOUS
        <5>2. QED
          BY <4>1, <5>1
      <4>2. CASE i < n
        <5>1. h[i + 1] = step[<<h[i], i + 1>>]
          BY <3>1, <4>2
        <5>2. g[i + 1] = h[i + 1] /\ g[i] = h[i]
          BY <4>2
        <5>3. QED
          BY <5>1, <5>2
      <4>3. QED
        BY <3>6, <4>1, <4>2
    <3>7. Approx(n + 1, g)
      BY <3>4, <3>5, <3>6
    <3>8. QED
      <4> HIDE DEF Approx
      <4>1. QED
        BY <3>7
  <2>3. \A n \in Nat : n \in T
    <3> HIDE DEF T
    <3>1. QED
      BY <2>1, <2>2, NatInductionSet
  <2>4. QED
    BY <2>3
<1>2. ASSUME NEW n \in Nat, NEW m \in Nat, NEW h, NEW g, Approx(n, h), Approx(m, g)
      PROVE  \A i \in Nat : i <= n /\ i <= m => h[i] = g[i]
  <2> DEFINE T == {i \in Nat : i <= n /\ i <= m => h[i] = g[i]}
  <2>1. 0 \in T
    BY <1>2
  <2>2. ASSUME NEW i \in Nat, i \in T PROVE i + 1 \in T
    <3> SUFFICES ASSUME i + 1 <= n, i + 1 <= m PROVE h[i + 1] = g[i + 1]
      OBVIOUS
    <3>1. h[i] = g[i]
      BY <2>2
    <3>2. h[i + 1] = step[<<h[i], i + 1>>] /\ g[i + 1] = step[<<g[i], i + 1>>]
      BY <1>2
    <3>3. QED
      BY <3>1, <3>2
  <2>3. \A i \in Nat : i \in T
    <3> HIDE DEF T
    <3>1. QED
      BY <2>1, <2>2, NatInductionSet
  <2>4. QED
    BY <2>3
<1> DEFINE a(n) == CHOOSE h : Approx(n, h)
           f == [n \in Nat |-> a(n)[n]]
<1>3. ASSUME NEW n \in Nat PROVE Approx(n, a(n))
  BY <1>1
<1>4. ASSUME NEW n \in Nat PROVE f[n] = a(n)[n] /\ f[n] \in V
  <2> HIDE DEF a
  <2>1. QED
    BY <1>3
<1>5. f \in [Nat -> V]
  <2>1. \A n \in Nat : f[n] \in V
    BY <1>4
  <2> HIDE DEF a
  <2>2. QED
    BY <2>1
<1>6. f[0] = v0
  <2> HIDE DEF a, f
  <2>1. QED
    BY <1>3, <1>4
<1>7. ASSUME NEW n \in Nat PROVE f[n + 1] = step[<<f[n], n + 1>>]
  <2> HIDE DEF a, f
  <2>1. Approx(n, a(n)) /\ Approx(n + 1, a(n + 1))
    BY <1>3
  <2>2. a(n + 1)[n + 1] = step[<<a(n + 1)[n], n + 1>>]
    BY <2>1
  <2>3. a(n + 1)[n] = a(n)[n]
    <3> HIDE DEF Approx
    <3>1. \A i \in Nat : i <= n + 1 /\ i <= n => a(n + 1)[i] = a(n)[i]
      BY <1>2, <2>1
    <3>2. QED
      BY <3>1
  <2>4. f[n] = a(n)[n] /\ f[n + 1] = a(n + 1)[n + 1]
    BY <1>4
  <2>5. QED
    BY <2>2, <2>3, <2>4
<1>8. QED
  <2> HIDE DEF f
  <2>1. QED
    BY <1>5, <1>6, <1>7 DEF FollowsSteps
----------------------------------------------------------------------------
(* FlattenSeq of SequencesExt: a sequence of sequences, end to end.        *)

\* FlattenSeq is the last of the joins of its first n sequences.
LEMMA FlattenSeqJoins ==
  ASSUME NEW S, NEW seqs \in Seq(Seq(S))
  PROVE  \E f \in [Nat -> Seq(S)] :
           /\ f[0] = <<>>
           /\ \A n \in 1 .. Len(seqs) : f[n] = f[n - 1] \o seqs[n]
           /\ FlattenSeq(seqs) = f[Len(seqs)]
<1> DEFINE V == Seq(S)
           len == Len(seqs)
           step == [vn \in V \X Nat |-> IF vn[2] \in 1..len THEN vn[1] \o seqs[vn[2]] ELSE vn[1]]
<1>1. len \in Nat /\ DOMAIN seqs = 1..len /\ \A i \in 1..len : seqs[i] \in V
  BY LenProperties, ElementOfSeq
<1>2. step \in [V \X Nat -> V]
  <2>1. ASSUME NEW v \in V, NEW n \in 1..len PROVE v \o seqs[n] \in V
    BY <1>1, ConcatProperties
  <2>2. QED
    BY <2>1
<1>3. PICK f \in [Nat -> V] : /\ f[0] = <<>>
                              /\ \A n \in Nat : f[n + 1] = step[<<f[n], n + 1>>]
  <2> DEFINE v0 == <<>>
  <2>1. v0 \in V
    BY EmptySeq
  <2> HIDE DEF V, step, v0
  <2>2. \E f \in [Nat -> V] : FollowsSteps(f, v0, step)
    BY <1>2, <2>1, NatRecursion
  <2>3. QED
    BY <2>2 DEF v0, FollowsSteps
<1>4. ASSUME NEW n \in 1..len PROVE f[n] = f[n - 1] \o seqs[n]
  <2>1. n - 1 \in Nat /\ (n - 1) + 1 = n /\ n \in Nat
    BY <1>1
  <2>2. f[n] = step[<<f[n - 1], n>>]
    <3> HIDE DEF V, step
    <3>1. QED
      BY <1>3, <2>1
  <2>3. <<f[n - 1], n>> \in V \X Nat
    <3> HIDE DEF V
    <3>1. QED
      BY <2>1
  <2>4. QED
    <3> HIDE DEF V
    <3>1. QED
      BY <2>2, <2>3
<1>5. CASE len = 0
  <2>1. seqs = <<>>
    BY <1>5, EmptySeq
  <2>2. QED
    BY <1>3, <1>4, <1>5, <2>1 DEF FlattenSeq
<1>6. CASE len # 0
  <2> DEFINE Def(g) == [i \in 1..len |-> IF i = 1 THEN seqs[i] ELSE g[i - 1] \o seqs[i]]
             flatten == CHOOSE g : g = Def(g)
             h == [i \in 1..len |-> f[i]]
  <2>1. FlattenSeq(seqs) = flatten[len]
    BY <1>6 DEF FlattenSeq
  <2>2. h = Def(h)
    <3>1. ASSUME NEW i \in 1..len, i # 1 PROVE h[i] = h[i - 1] \o seqs[i]
      <4>1. i - 1 \in 1..len
        BY <1>1, <3>1
      <4>2. QED
        BY <1>4, <4>1
    <3>2. ASSUME 1 \in 1..len PROVE h[1] = seqs[1]
      <4>1. f[1] = <<>> \o seqs[1]
        <5>1. ASSUME NEW n \in 1..len, n = 1 PROVE f[n] = f[0] \o seqs[n]
          <6>1. f[n] = f[n - 1] \o seqs[n]
            BY <1>4
          <6>2. n - 1 = 0
            BY <5>1
          <6>3. QED
            BY <6>1, <6>2
        <5>2. f[1] = f[0] \o seqs[1]
          BY <3>2, <5>1
        <5>3. QED
          BY <1>3, <5>2, Zenon
      <4>2. QED
        BY <1>1, <3>2, <4>1, ConcatEmptySeq
    <3>3. QED
      BY <3>1, <3>2
  <2>3. flatten = Def(flatten)
    <3> HIDE DEF Def, h
    <3>1. QED
      BY <2>2
  <2>4. \A i \in Nat : i \in 1..len => flatten[i] = h[i]
    <3> DEFINE T == {i \in Nat : i \in 1..len => flatten[i] = h[i]}
    <3> HIDE DEF flatten, h
    <3>1. 0 \in T
      BY <1>1
    <3>2. ASSUME NEW i \in Nat, i \in T PROVE i + 1 \in T
      <4>0. i + 1 \in Nat
        OBVIOUS
      <4> SUFFICES ASSUME i + 1 \in 1..len PROVE flatten[i + 1] = h[i + 1]
        BY <4>0, Zenon
      <4>1. CASE i = 0
        BY <2>2, <2>3, <4>1
      <4>2. CASE i # 0
        <5>1. i \in 1..len /\ (i + 1) - 1 = i /\ i + 1 # 1
          BY <1>1, <4>2
        <5>2. flatten[i] = h[i]
          BY <3>2, <5>1
        <5>3. flatten[i + 1] = flatten[i] \o seqs[i + 1] /\ h[i + 1] = h[i] \o seqs[i + 1]
          BY <2>2, <2>3, <5>1
        <5>4. QED
          BY <5>2, <5>3
      <4>3. QED
        BY <4>1, <4>2
    <3>3. \A i \in Nat : i \in T
      <4> HIDE DEF T
      <4>1. QED
        BY <3>1, <3>2, NatInductionSet
    <3>4. QED
      BY <3>3
  <2>5. flatten[len] = f[len]
    <3>1. len \in 1..len
      BY <1>1, <1>6
    <3>2. QED
      BY <1>1, <2>4, <3>1
  <2>6. QED
    BY <1>3, <1>4, <2>1, <2>5
<1>7. QED
  BY <1>5, <1>6

\* The join of sequences over S is a sequence over S.
THEOREM FlattenSeqType ==
  ASSUME NEW S, NEW seqs \in Seq(Seq(S))
  PROVE  FlattenSeq(seqs) \in Seq(S)
<1>1. PICK f \in [Nat -> Seq(S)] : FlattenSeq(seqs) = f[Len(seqs)]
  BY FlattenSeqJoins
<1>2. Len(seqs) \in Nat
  BY LenProperties
<1>3. QED
  BY <1>1, <1>2

\* Joining nothing gives nothing.
THEOREM FlattenSeqEmpty == FlattenSeq(<<>>) = <<>>
BY DEF FlattenSeq

\* The indices of two sequences end to end.
LEMMA ShiftedIndices ==
  ASSUME NEW a \in Nat, NEW b \in Nat
  PROVE  /\ \A k \in 1..b : a + k \in 1 .. a + b /\ ~(a + k <= a) /\ (a + k) - a = k
         /\ \A k \in 1 .. a + b : ~(k <= a) => k - a \in 1..b
OBVIOUS

\* An interval of numbers with its successor.
LEMMA IntervalGrows == \A n \in Nat : 1 .. n + 1 = 1..n \cup {n + 1}
OBVIOUS

\* x is an element of a sequence, of a sequence of a sequence.
Has(q, x) == \E k \in DOMAIN q : q[k] = x
HasThrough(seqs, x) == \E i \in DOMAIN seqs : \E j \in DOMAIN seqs[i] : seqs[i][j] = x

\* The elements of two sequences end to end.
THEOREM ConcatElements ==
  ASSUME NEW S, NEW p \in Seq(S), NEW q \in Seq(S), NEW x
  PROVE  Has(p \o q, x) <=> Has(p, x) \/ Has(q, x)
<1>1. /\ DOMAIN p = 1 .. Len(p) /\ DOMAIN q = 1 .. Len(q)
      /\ Len(p) \in Nat /\ Len(q) \in Nat
      /\ DOMAIN (p \o q) = 1 .. Len(p) + Len(q)
  BY ConcatProperties, LenProperties
<1>2. \A k \in 1 .. Len(p) + Len(q) :
        (p \o q)[k] = IF k <= Len(p) THEN p[k] ELSE q[k - Len(p)]
  BY ConcatProperties
<1>3. ASSUME NEW k \in DOMAIN (p \o q), (p \o q)[k] = x PROVE Has(p, x) \/ Has(q, x)
  <2>1. CASE k <= Len(p)
    BY <1>1, <1>2, <1>3, <2>1 DEF Has
  <2>2. CASE ~(k <= Len(p))
    <3>1. k \in 1 .. Len(p) + Len(q) /\ k - Len(p) \in 1 .. Len(q)
      BY <1>1, <2>2, ShiftedIndices
    <3>2. q[k - Len(p)] = x
      BY <1>2, <1>3, <2>2, <3>1
    <3>3. QED
      BY <1>1, <3>1, <3>2 DEF Has
  <2>3. QED
    BY <2>1, <2>2
<1>4. ASSUME NEW k \in DOMAIN p, p[k] = x PROVE Has(p \o q, x)
  BY <1>1, <1>2, <1>4 DEF Has
<1>5. ASSUME NEW k \in DOMAIN q, q[k] = x PROVE Has(p \o q, x)
  <2>0. k \in 1 .. Len(q)
    BY <1>1
  <2>1. /\ Len(p) + k \in 1 .. Len(p) + Len(q) /\ ~(Len(p) + k <= Len(p))
        /\ (Len(p) + k) - Len(p) = k
    BY <1>1, <2>0, ShiftedIndices
  <2>2. (p \o q)[Len(p) + k] = x
    BY <1>2, <1>5, <2>1
  <2>3. QED
    BY <1>1, <2>1, <2>2 DEF Has
<1>6. QED
  BY <1>3, <1>4, <1>5 DEF Has

\* The elements of a join are the elements of the joined sequences.
THEOREM FlattenSeqElements ==
  ASSUME NEW S, NEW seqs \in Seq(Seq(S)), NEW x
  PROVE  Has(FlattenSeq(seqs), x) <=> HasThrough(seqs, x)
<1> DEFINE len == Len(seqs)
<1>1. len \in Nat /\ DOMAIN seqs = 1..len /\ \A i \in 1..len : seqs[i] \in Seq(S)
  BY LenProperties, ElementOfSeq
<1>2. PICK f \in [Nat -> Seq(S)] :
        /\ f[0] = <<>>
        /\ \A n \in 1..len : f[n] = f[n - 1] \o seqs[n]
        /\ FlattenSeq(seqs) = f[len]
  BY FlattenSeqJoins
<1> DEFINE Upto(n) == \E i \in 1..n : Has(seqs[i], x)
           T == {n \in Nat : n <= len => (Has(f[n], x) <=> Upto(n))}
<1>3. ASSUME NEW p \in Seq(S), NEW q \in Seq(S)
      PROVE  Has(p \o q, x) <=> Has(p, x) \/ Has(q, x)
  BY ConcatElements
<1>4. 0 \in T
  BY <1>2 DEF Has
<1>5. ASSUME NEW n \in Nat, n \in T PROVE n + 1 \in T
  <2> SUFFICES ASSUME n + 1 <= len PROVE Has(f[n + 1], x) <=> Upto(n + 1)
    OBVIOUS
  <2>1. n + 1 \in 1..len /\ n <= len /\ (n + 1) - 1 = n
    BY <1>1
  <2>2. f[n + 1] = f[n] \o seqs[n + 1] /\ f[n] \in Seq(S) /\ seqs[n + 1] \in Seq(S)
    BY <1>1, <1>2, <2>1
  <2>3. Has(f[n + 1], x) <=> Has(f[n], x) \/ Has(seqs[n + 1], x)
    <3>1. Has(f[n] \o seqs[n + 1], x) <=> Has(f[n], x) \/ Has(seqs[n + 1], x)
      BY <1>3, <2>2
    <3>2. QED
      BY <2>2, <3>1
  <2>4. Has(f[n], x) <=> Upto(n)
    BY <1>5, <2>1
  <2>5. Upto(n + 1) <=> Upto(n) \/ Has(seqs[n + 1], x)
    <3>1. 1 .. n + 1 = 1..n \cup {n + 1}
      BY IntervalGrows
    <3>2. QED
      BY <3>1
  <2>6. QED
    BY <2>3, <2>4, <2>5
<1>6. \A n \in Nat : n \in T
  <2> HIDE DEF T
  <2>1. QED
    BY <1>4, <1>5, NatInductionSet
<1>7. Has(FlattenSeq(seqs), x) <=> Upto(len)
  <2> HIDE DEF Upto
  <2>1. Has(f[len], x) <=> Upto(len)
    BY <1>1, <1>6
  <2>2. QED
    BY <1>2, <2>1
<1>8. QED
  BY <1>1, <1>7 DEF Has, HasThrough

\* In particular, an element of a join is one of the joined sequences.
THEOREM FlattenSeqElement ==
  ASSUME NEW S, NEW seqs \in Seq(Seq(S)), NEW k \in DOMAIN FlattenSeq(seqs)
  PROVE  \E i \in DOMAIN seqs : \E j \in DOMAIN seqs[i] : seqs[i][j] = FlattenSeq(seqs)[k]
<1>1. Has(FlattenSeq(seqs), FlattenSeq(seqs)[k])
  BY DEF Has
<1>2. HasThrough(seqs, FlattenSeq(seqs)[k])
  BY <1>1, FlattenSeqElements
<1>3. QED
  BY <1>2 DEF HasThrough

\* One more sequence is joined at the end.
THEOREM FlattenSeqAppend ==
  ASSUME NEW S, NEW seqs \in Seq(Seq(S)), NEW q \in Seq(S)
  PROVE  FlattenSeq(Append(seqs, q)) = FlattenSeq(seqs) \o q
<1> DEFINE len == Len(seqs)
           longer == Append(seqs, q)
<1>1. /\ len \in Nat /\ DOMAIN seqs = 1..len
      /\ longer \in Seq(Seq(S)) /\ Len(longer) = len + 1
      /\ \A i \in 1..len : longer[i] = seqs[i]
      /\ longer[len + 1] = q
  BY LenProperties, AppendProperties
<1>2. PICK f \in [Nat -> Seq(S)] :
        /\ f[0] = <<>>
        /\ \A n \in 1..len : f[n] = f[n - 1] \o seqs[n]
        /\ FlattenSeq(seqs) = f[len]
  BY FlattenSeqJoins
<1>3. PICK g \in [Nat -> Seq(S)] :
        /\ g[0] = <<>>
        /\ \A n \in 1 .. len + 1 : g[n] = g[n - 1] \o longer[n]
        /\ FlattenSeq(longer) = g[len + 1]
  <2> HIDE DEF longer
  <2>1. QED
    BY <1>1, FlattenSeqJoins
<1> HIDE DEF longer
<1> DEFINE T == {n \in Nat : n <= len => f[n] = g[n]}
<1>4. 0 \in T
  BY <1>2, <1>3
<1>5. ASSUME NEW n \in Nat, n \in T PROVE n + 1 \in T
  <2> SUFFICES ASSUME n + 1 <= len PROVE f[n + 1] = g[n + 1]
    OBVIOUS
  <2>1. n + 1 \in 1..len /\ n + 1 \in 1 .. len + 1 /\ n <= len /\ (n + 1) - 1 = n
    BY <1>1
  <2>2. f[n + 1] = f[n] \o seqs[n + 1] /\ g[n + 1] = g[n] \o longer[n + 1]
    BY <1>2, <1>3, <2>1
  <2>3. QED
    BY <1>1, <1>5, <2>1, <2>2
<1>6. \A n \in Nat : n \in T
  <2> HIDE DEF T
  <2>1. QED
    BY <1>4, <1>5, NatInductionSet
<1>7. f[len] = g[len]
  BY <1>1, <1>6
<1>8. g[len + 1] = g[len] \o longer[len + 1]
  <2>1. len + 1 \in 1 .. len + 1 /\ (len + 1) - 1 = len
    BY <1>1
  <2>2. QED
    BY <1>3, <2>1
<1>9. QED
  BY <1>1, <1>2, <1>3, <1>7, <1>8 DEF longer
----------------------------------------------------------------------------
(* Induction over sequences, and what follows by it.                       *)

\* A set that holds the empty sequence, and with a sequence over S every one that is
\* longer by an element, holds every sequence over S.
THEOREM SeqInductionSet ==
  ASSUME NEW S, NEW T,
         <<>> \in T,
         \A s \in Seq(S) : \A e \in S : s \in T => Append(s, e) \in T
  PROVE  \A s \in Seq(S) : s \in T
<1> DEFINE N == {n \in Nat : \A s \in Seq(S) : Len(s) = n => s \in T}
<1>1. 0 \in N
  <2>1. \A s \in Seq(S) : Len(s) = 0 => s = <<>>
    BY EmptySeq
  <2>2. QED
    BY <2>1
<1>2. ASSUME NEW n \in Nat, n \in N PROVE n + 1 \in N
  <2> SUFFICES ASSUME NEW s \in Seq(S), Len(s) = n + 1 PROVE s \in T
    OBVIOUS
  <2>1. s # <<>>
    BY EmptySeq
  <2>2. \E t \in Seq(S), e \in S : s = Append(t, e)
    BY <2>1, SequenceEmptyOrAppend
  <2>3. PICK t \in Seq(S), e \in S : s = Append(t, e)
    BY <2>2
  <2>4. Len(s) = Len(t) + 1 /\ Len(t) \in Nat
    BY <2>3, AppendProperties, LenProperties
  <2>5. Len(t) = n
    BY <2>4
  <2>6. t \in T
    BY <1>2, <2>5
  <2>7. QED
    BY <2>3, <2>6
<1>3. \A n \in Nat : n \in N
  <2> HIDE DEF N
  <2>1. QED
    BY <1>1, <1>2, NatInductionSet
<1>4. QED
  BY <1>3, LenProperties

\* The join of two sequences of sequences end to end is their joins end to end.
THEOREM FlattenSeqConcat ==
  ASSUME NEW S, NEW p \in Seq(Seq(S)), NEW q \in Seq(Seq(S))
  PROVE  FlattenSeq(p \o q) = FlattenSeq(p) \o FlattenSeq(q)
<1> DEFINE V == Seq(S)
           T == {t \in Seq(V) : FlattenSeq(p \o t) = FlattenSeq(p) \o FlattenSeq(t)}
<1>1. <<>> \in T
  <2>1. <<>> \in Seq(V) /\ p \o <<>> = p
    BY EmptySeq, ConcatEmptySeq
  <2>2. FlattenSeq(p) \in Seq(S)
    BY FlattenSeqType
  <2>3. FlattenSeq(p) \o <<>> = FlattenSeq(p)
    BY <2>2, ConcatEmptySeq
  <2>4. QED
    BY <2>1, <2>3, FlattenSeqEmpty
<1>2. ASSUME NEW t \in Seq(V), NEW e \in V, t \in T PROVE Append(t, e) \in T
  <2>1. p \o Append(t, e) = Append(p \o t, e) /\ p \o t \in Seq(V) /\ Append(t, e) \in Seq(V)
    <3>1. /\ Append(t, e) = t \o <<e>> /\ p \o t \in Seq(V)
          /\ <<e>> \in Seq(V) /\ Append(t, e) \in Seq(V)
      BY AppendIsConcat, ConcatProperties, AppendProperties
    <3>2. Append(p \o t, e) = (p \o t) \o <<e>>
      BY <3>1, AppendIsConcat
    <3>3. (p \o t) \o <<e>> = p \o (t \o <<e>>)
      <4>1. p \in Seq(V) /\ t \in Seq(V) /\ <<e>> \in Seq(V)
        BY <3>1
      <4> HIDE DEF V, T
      <4>2. QED
        BY <4>1, ConcatAssociative
    <3>4. QED
      BY <3>1, <3>2, <3>3
  <2>2. FlattenSeq(Append(p \o t, e)) = FlattenSeq(p \o t) \o e
    BY <2>1, FlattenSeqAppend
  <2>3. FlattenSeq(Append(t, e)) = FlattenSeq(t) \o e
    BY FlattenSeqAppend
  <2>4. FlattenSeq(p \o t) = FlattenSeq(p) \o FlattenSeq(t)
    BY <1>2
  <2>5. (FlattenSeq(p) \o FlattenSeq(t)) \o e = FlattenSeq(p) \o (FlattenSeq(t) \o e)
    <3>1. FlattenSeq(p) \in Seq(S) /\ FlattenSeq(t) \in Seq(S) /\ e \in Seq(S)
      BY FlattenSeqType
    <3> HIDE DEF V, T
    <3>2. QED
      BY <3>1, ConcatAssociative
  <2>6. QED
    BY <2>1, <2>2, <2>3, <2>4, <2>5
<1>3. \A t \in Seq(V) : t \in T
  <2> HIDE DEF T, V
  <2>1. QED
    BY <1>1, <1>2, SeqInductionSet
<1>4. QED
  BY <1>3

\* No two elements of a sequence are the same.
Distinct(q) == \A k, l \in DOMAIN q : q[k] = q[l] => k = l

\* No two elements of the sequences of a sequence are.
DistinctThrough(seqs) ==
  \A i, j \in DOMAIN seqs : \A k \in DOMAIN seqs[i], l \in DOMAIN seqs[j] :
    seqs[i][k] = seqs[j][l] => i = j /\ k = l

Apart(p, q) == \A k \in DOMAIN p, l \in DOMAIN q : p[k] # q[l]

\* Two sequences of distinct elements that share none make one of distinct elements.
LEMMA ConcatDistinct ==
  ASSUME NEW S, NEW p \in Seq(S), NEW q \in Seq(S), Distinct(p), Distinct(q), Apart(p, q)
  PROVE  Distinct(p \o q)
<1>1. /\ DOMAIN p = 1 .. Len(p) /\ DOMAIN q = 1 .. Len(q)
      /\ Len(p) \in Nat /\ Len(q) \in Nat
      /\ DOMAIN (p \o q) = 1 .. Len(p) + Len(q)
  BY ConcatProperties, LenProperties
<1>2. \A k \in 1 .. Len(p) + Len(q) :
        (p \o q)[k] = IF k <= Len(p) THEN p[k] ELSE q[k - Len(p)]
  BY ConcatProperties
<1> SUFFICES ASSUME NEW k \in 1 .. Len(p) + Len(q), NEW l \in 1 .. Len(p) + Len(q),
                    (p \o q)[k] = (p \o q)[l]
             PROVE  k = l
  BY <1>1 DEF Distinct
<1>3. \A n \in 1 .. Len(p) + Len(q) :
        /\ n <= Len(p) => n \in DOMAIN p
        /\ ~(n <= Len(p)) => n - Len(p) \in DOMAIN q
  BY <1>1
<1>4. CASE k <= Len(p) /\ l <= Len(p)
  BY <1>2, <1>3, <1>4 DEF Distinct
<1>5. CASE ~(k <= Len(p)) /\ ~(l <= Len(p))
  <2>1. q[k - Len(p)] = q[l - Len(p)]
    BY <1>2, <1>5
  <2>2. k - Len(p) = l - Len(p)
    BY <1>3, <1>5, <2>1 DEF Distinct
  <2>3. QED
    BY <1>1, <2>2
<1>6. CASE k <= Len(p) /\ ~(l <= Len(p))
  BY <1>2, <1>3, <1>6 DEF Apart
<1>7. CASE ~(k <= Len(p)) /\ l <= Len(p)
  BY <1>2, <1>3, <1>7 DEF Apart
<1>8. QED
  BY <1>4, <1>5, <1>6, <1>7

\* The join of sequences all of whose elements are distinct has distinct elements.
THEOREM FlattenSeqDistinct ==
  ASSUME NEW S, NEW seqs \in Seq(Seq(S)), DistinctThrough(seqs)
  PROVE  Distinct(FlattenSeq(seqs))
<1> DEFINE V == Seq(S)
           T == {t \in Seq(V) : DistinctThrough(t) => Distinct(FlattenSeq(t))}
<1>1. <<>> \in T
  <2>1. <<>> \in Seq(V)
    BY EmptySeq
  <2>2. Distinct(<<>>)
    BY DEF Distinct
  <2>3. QED
    BY <2>1, <2>2, FlattenSeqEmpty
<1>2. ASSUME NEW t \in Seq(V), NEW e \in V, t \in T PROVE Append(t, e) \in T
  <2> DEFINE longer == Append(t, e)
  <2>1. /\ longer \in Seq(V) /\ Len(t) \in Nat
        /\ DOMAIN t = 1 .. Len(t) /\ DOMAIN longer = 1 .. Len(t) + 1
        /\ \A i \in 1 .. Len(t) : longer[i] = t[i]
        /\ longer[Len(t) + 1] = e
    BY AppendProperties, LenProperties
  <2> HIDE DEF longer
  <2> SUFFICES ASSUME DistinctThrough(longer) PROVE Distinct(FlattenSeq(longer))
    BY <2>1 DEF longer
  <2>2. Len(t) + 1 \in DOMAIN longer /\ \A i \in DOMAIN t : i \in DOMAIN longer /\ i # Len(t) + 1
    BY <2>1
  <2>3. DistinctThrough(t)
    BY <2>1, <2>2 DEF DistinctThrough
  <2>4. Distinct(e)
    BY <2>1, <2>2 DEF DistinctThrough, Distinct
  <2>5. Apart(FlattenSeq(t), e)
    <3> SUFFICES ASSUME NEW k \in DOMAIN FlattenSeq(t), NEW l \in DOMAIN e,
                        FlattenSeq(t)[k] = e[l]
                 PROVE  FALSE
      BY DEF Apart
    <3>1. \E i \in DOMAIN t : \E j \in DOMAIN t[i] : t[i][j] = FlattenSeq(t)[k]
      BY FlattenSeqElement
    <3>2. PICK i \in DOMAIN t : \E j \in DOMAIN t[i] : t[i][j] = FlattenSeq(t)[k]
      BY <3>1
    <3>3. PICK j \in DOMAIN t[i] : t[i][j] = e[l]
      BY <3>2
    <3>4. longer[i] = t[i]
      BY <2>1
    <3>5. /\ i \in DOMAIN longer /\ Len(t) + 1 \in DOMAIN longer
          /\ j \in DOMAIN longer[i] /\ l \in DOMAIN longer[Len(t) + 1]
          /\ longer[i][j] = longer[Len(t) + 1][l]
      BY <2>1, <2>2, <3>3, <3>4
    <3>6. i = Len(t) + 1
      BY <3>5 DEF DistinctThrough
    <3>7. QED
      BY <2>2, <3>6
  <2>6. FlattenSeq(longer) = FlattenSeq(t) \o e
    BY FlattenSeqAppend DEF longer
  <2>7. Distinct(FlattenSeq(t)) /\ FlattenSeq(t) \in Seq(S)
    BY <1>2, <2>3, FlattenSeqType
  <2>8. Distinct(FlattenSeq(t) \o e)
    BY <2>4, <2>5, <2>7, ConcatDistinct
  <2>9. QED
    BY <2>6, <2>8
<1>3. \A t \in Seq(V) : t \in T
  <2> HIDE DEF T, V
  <2>1. QED
    BY <1>1, <1>2, SeqInductionSet
<1>4. QED
  BY <1>3

\* The join of one sequence is that sequence.
THEOREM FlattenSeqOne ==
  ASSUME NEW S, NEW q \in Seq(S)
  PROVE  FlattenSeq(<<q>>) = q
<1>1. <<>> \in Seq(Seq(S)) /\ Append(<<>>, q) = <<q>>
  BY EmptySeq
<1>2. FlattenSeq(Append(<<>>, q)) = FlattenSeq(<<>>) \o q
  BY <1>1, FlattenSeqAppend
<1>3. <<>> \o q = q
  BY ConcatEmptySeq
<1>4. QED
  BY <1>1, <1>2, <1>3, FlattenSeqEmpty
----------------------------------------------------------------------------
(* Without of Subsequences: the elements that are not in a set.            *)

Singled(s, X) == [i \in DOMAIN s |-> IF s[i] \in X THEN <<>> ELSE <<s[i]>>]

\* What Without joins.
LEMMA SingledType ==
  ASSUME NEW S, NEW s \in Seq(S), NEW X
  PROVE  Singled(s, X) \in Seq(Seq(S)) /\ Without(s, X) = FlattenSeq(Singled(s, X))
<1>1. /\ Len(s) \in Nat /\ DOMAIN s = 1 .. Len(s)
      /\ \A i \in 1 .. Len(s) : s[i] \in S
  BY LenProperties, ElementOfSeq
<1>2. \A i \in 1 .. Len(s) : <<>> \in Seq(S) /\ <<s[i]>> \in Seq(S)
  BY <1>1, EmptySeq
<1>3. Singled(s, X) \in [1 .. Len(s) -> Seq(S)]
  BY <1>1, <1>2 DEF Singled
<1>4. QED
  BY <1>1, <1>3, IsASeq DEF Singled, Without

\* What is left of a sequence over S is one.
THEOREM WithoutType ==
  ASSUME NEW S, NEW s \in Seq(S), NEW X
  PROVE  Without(s, X) \in Seq(S)
BY SingledType, FlattenSeqType

\* Of nothing, nothing is left.
THEOREM WithoutEmpty == ASSUME NEW X PROVE Without(<<>>, X) = <<>>
<1>1. Singled(<<>>, X) = <<>>
  BY DEF Singled
<1>2. Without(<<>>, X) = FlattenSeq(Singled(<<>>, X))
  BY DEF Without, Singled
<1>3. QED
  BY <1>1, <1>2, FlattenSeqEmpty

\* An element at the end is left out or stays at the end.
THEOREM WithoutAppend ==
  ASSUME NEW S, NEW s \in Seq(S), NEW e \in S, NEW X
  PROVE  Without(Append(s, e), X) =
           IF e \in X THEN Without(s, X) ELSE Append(Without(s, X), e)
<1> DEFINE longer == Append(s, e)
           piece == IF e \in X THEN <<>> ELSE <<e>>
<1>1. /\ Len(s) \in Nat /\ DOMAIN s = 1 .. Len(s)
      /\ longer \in Seq(S) /\ DOMAIN longer = 1 .. Len(s) + 1
      /\ \A i \in 1 .. Len(s) : longer[i] = s[i]
      /\ longer[Len(s) + 1] = e
  BY LenProperties, AppendProperties
<1>2. piece \in Seq(S) /\ Singled(s, X) \in Seq(Seq(S)) /\ DOMAIN Singled(s, X) = 1 .. Len(s)
  BY <1>1, SingledType, EmptySeq DEF Singled
<1>3. Len(Singled(s, X)) = Len(s)
  BY <1>1, <1>2, LenProperties
<1> HIDE DEF longer, piece
<1>4. Singled(longer, X) = Append(Singled(s, X), piece)
  <2>1. Singled(longer, X) \in Seq(Seq(S)) /\ DOMAIN Singled(longer, X) = 1 .. Len(s) + 1
    BY <1>1, SingledType DEF Singled
  <2>2. /\ Append(Singled(s, X), piece) \in Seq(Seq(S))
        /\ Len(Append(Singled(s, X), piece)) = Len(s) + 1
        /\ \A i \in 1 .. Len(s) : Append(Singled(s, X), piece)[i] = Singled(s, X)[i]
        /\ Append(Singled(s, X), piece)[Len(s) + 1] = piece
    BY <1>2, <1>3, AppendProperties
  <2>3. ASSUME NEW i \in 1 .. Len(s) + 1 PROVE Singled(longer, X)[i] = Append(Singled(s, X), piece)[i]
    <3>1. CASE i \in 1 .. Len(s)
      BY <1>1, <2>2, <3>1 DEF Singled
    <3>2. CASE i = Len(s) + 1
      BY <1>1, <2>2, <3>2 DEF Singled, piece
    <3>3. i \in 1 .. Len(s) \/ i = Len(s) + 1
      BY <1>1
    <3>4. QED
      BY <3>1, <3>2, <3>3
  <2>4. Len(Singled(longer, X)) = Len(s) + 1
    BY <1>1, <2>1, LenProperties
  <2>5. QED
    BY <2>1, <2>2, <2>3, <2>4, SeqEqual
<1>5. Without(longer, X) = Without(s, X) \o piece
  <2>1. Without(longer, X) = FlattenSeq(Append(Singled(s, X), piece))
    BY <1>1, <1>4, SingledType
  <2>2. QED
    BY <1>2, <2>1, SingledType, FlattenSeqAppend
<1>6. Without(s, X) \in Seq(S)
  BY WithoutType
<1>7. CASE e \in X
  BY <1>5, <1>6, <1>7, ConcatEmptySeq DEF piece, longer
<1>8. CASE e \notin X
  BY <1>5, <1>6, <1>8, AppendIsConcat DEF piece, longer
<1>9. QED
  BY <1>7, <1>8

\* Two sequences end to end.
THEOREM WithoutConcat ==
  ASSUME NEW S, NEW p \in Seq(S), NEW q \in Seq(S), NEW X
  PROVE  Without(p \o q, X) = Without(p, X) \o Without(q, X)
<1> DEFINE T == {t \in Seq(S) : Without(p \o t, X) = Without(p, X) \o Without(t, X)}
<1>1. <<>> \in T
  <2>1. <<>> \in Seq(S) /\ p \o <<>> = p /\ Without(p, X) \in Seq(S)
    BY EmptySeq, ConcatEmptySeq, WithoutType
  <2>2. QED
    BY <2>1, ConcatEmptySeq, WithoutEmpty
<1>2. ASSUME NEW t \in Seq(S), NEW e \in S, t \in T PROVE Append(t, e) \in T
  <2>1. Append(t, e) \in Seq(S) /\ p \o t \in Seq(S)
    BY AppendProperties, ConcatProperties
  <2>2. p \o Append(t, e) = Append(p \o t, e)
    <3>1. Append(t, e) = t \o <<e>> /\ Append(p \o t, e) = (p \o t) \o <<e>> /\ <<e>> \in Seq(S)
      BY <2>1, AppendIsConcat
    <3>2. QED
      BY <3>1, ConcatAssociative
  <2>3. Without(p \o t, X) = Without(p, X) \o Without(t, X)
    BY <1>2
  <2>4. /\ Without(p \o Append(t, e), X) =
             IF e \in X THEN Without(p \o t, X) ELSE Append(Without(p \o t, X), e)
        /\ Without(Append(t, e), X) = IF e \in X THEN Without(t, X) ELSE Append(Without(t, X), e)
    <3>1. Without(Append(p \o t, e), X) =
             IF e \in X THEN Without(p \o t, X) ELSE Append(Without(p \o t, X), e)
      BY <2>1, WithoutAppend
    <3>2. QED
      BY <2>2, <3>1, WithoutAppend
  <2>5. Append(Without(p, X) \o Without(t, X), e) = Without(p, X) \o Append(Without(t, X), e)
    <3>1. Without(p, X) \in Seq(S) /\ Without(t, X) \in Seq(S) /\ <<e>> \in Seq(S)
      BY WithoutType
    <3>2. Without(p, X) \o Without(t, X) \in Seq(S)
      BY <3>1, ConcatProperties
    <3>3. /\ Append(Without(p, X) \o Without(t, X), e) = (Without(p, X) \o Without(t, X)) \o <<e>>
          /\ Append(Without(t, X), e) = Without(t, X) \o <<e>>
      BY <3>1, <3>2, AppendIsConcat
    <3>4. (Without(p, X) \o Without(t, X)) \o <<e>> = Without(p, X) \o (Without(t, X) \o <<e>>)
      <4> HIDE DEF T
      <4>1. QED
        BY <3>1, ConcatAssociative
    <3>5. QED
      BY <3>3, <3>4, Zenon
  <2>6. QED
    BY <2>1, <2>3, <2>4, <2>5
<1>3. \A t \in Seq(S) : t \in T
  <2> HIDE DEF T
  <2>1. QED
    BY <1>1, <1>2, SeqInductionSet
<1>4. QED
  BY <1>3

\* Leaving out one set after another.
THEOREM WithoutBoth ==
  ASSUME NEW S, NEW s \in Seq(S), NEW X, NEW Y
  PROVE  Without(Without(s, X), Y) = Without(s, X \cup Y)
<1> DEFINE T == {t \in Seq(S) : Without(Without(t, X), Y) = Without(t, X \cup Y)}
<1>1. <<>> \in T
  BY EmptySeq, WithoutEmpty
<1>2. ASSUME NEW t \in Seq(S), NEW e \in S, t \in T PROVE Append(t, e) \in T
  <2>1. Append(t, e) \in Seq(S) /\ Without(t, X) \in Seq(S)
    BY AppendProperties, WithoutType
  <2>2. /\ Without(Append(t, e), X) = IF e \in X THEN Without(t, X) ELSE Append(Without(t, X), e)
        /\ Without(Append(t, e), X \cup Y) =
             IF e \in X \cup Y THEN Without(t, X \cup Y) ELSE Append(Without(t, X \cup Y), e)
        /\ Without(Append(Without(t, X), e), Y) =
             IF e \in Y THEN Without(Without(t, X), Y) ELSE Append(Without(Without(t, X), Y), e)
    BY <2>1, WithoutAppend
  <2>3. Without(Without(t, X), Y) = Without(t, X \cup Y)
    BY <1>2
  <2>4. QED
    BY <2>1, <2>2, <2>3
<1>3. \A t \in Seq(S) : t \in T
  <2> HIDE DEF T
  <2>1. QED
    BY <1>1, <1>2, SeqInductionSet
<1>4. QED
  BY <1>3

\* What is left are the elements that are not in the set.
THEOREM WithoutElements ==
  ASSUME NEW S, NEW s \in Seq(S), NEW X, NEW x
  PROVE  Has(Without(s, X), x) <=> Has(s, x) /\ x \notin X
<1>1. Has(Without(s, X), x) <=> HasThrough(Singled(s, X), x)
  BY SingledType, FlattenSeqElements
<1>2. HasThrough(Singled(s, X), x) <=> Has(s, x) /\ x \notin X
  <2>1. DOMAIN Singled(s, X) = DOMAIN s
    BY DEF Singled
  <2>2. ASSUME NEW i \in DOMAIN s
        PROVE  (\E j \in DOMAIN Singled(s, X)[i] : Singled(s, X)[i][j] = x) <=> s[i] = x /\ x \notin X
    BY DEF Singled
  <2>3. QED
    BY <2>1, <2>2 DEF Has, HasThrough
<1>3. QED
  BY <1>1, <1>2

\* Nothing is left out when no element is in the set ...
THEOREM WithoutNone ==
  ASSUME NEW S, NEW s \in Seq(S), NEW X, \A i \in DOMAIN s : s[i] \notin X
  PROVE  Without(s, X) = s
<1> DEFINE T == {t \in Seq(S) : (\A i \in DOMAIN t : t[i] \notin X) => Without(t, X) = t}
<1>1. <<>> \in T
  BY EmptySeq, WithoutEmpty
<1>2. ASSUME NEW t \in Seq(S), NEW e \in S, t \in T PROVE Append(t, e) \in T
  <2>1. /\ Append(t, e) \in Seq(S) /\ Len(t) \in Nat /\ DOMAIN t = 1 .. Len(t)
        /\ DOMAIN Append(t, e) = 1 .. Len(t) + 1
        /\ \A i \in 1 .. Len(t) : Append(t, e)[i] = t[i]
        /\ Append(t, e)[Len(t) + 1] = e
    BY LenProperties, AppendProperties
  <2> SUFFICES ASSUME \A i \in DOMAIN Append(t, e) : Append(t, e)[i] \notin X
               PROVE  Without(Append(t, e), X) = Append(t, e)
    BY <2>1
  <2>2. e \notin X /\ \A i \in DOMAIN t : t[i] \notin X
    BY <2>1
  <2>3. QED
    BY <1>2, <2>2, WithoutAppend
<1>3. \A t \in Seq(S) : t \in T
  <2> HIDE DEF T
  <2>1. QED
    BY <1>1, <1>2, SeqInductionSet
<1>4. QED
  BY <1>3

\* ... and nothing is left when all are.
THEOREM WithoutAll ==
  ASSUME NEW S, NEW s \in Seq(S), NEW X, \A i \in DOMAIN s : s[i] \in X
  PROVE  Without(s, X) = <<>>
<1>1. Without(s, X) \in Seq(S)
  BY WithoutType
<1>2. ASSUME NEW i \in DOMAIN Without(s, X) PROVE FALSE
  <2> DEFINE x == Without(s, X)[i]
  <2>1. Has(Without(s, X), x)
    BY DEF Has
  <2>2. Has(s, x) /\ x \notin X
    <3> HIDE DEF x
    <3>1. QED
      BY <2>1, WithoutElements
  <2>3. QED
    BY <2>2 DEF Has
<1>3. Len(Without(s, X)) = 0
  <2>1. DOMAIN Without(s, X) = 1 .. Len(Without(s, X)) /\ Len(Without(s, X)) \in Nat
    BY <1>1, LenProperties
  <2>2. 1 \notin DOMAIN Without(s, X)
    BY <1>2
  <2>3. QED
    BY <2>1, <2>2
<1>4. QED
  BY <1>1, <1>3, EmptySeq
----------------------------------------------------------------------------
(* Functions defined by recursion over trees.  subs gives the parts of a    *)
(* tree, d how deep it is.                                                  *)

DepthDecreases(S, subs, d) ==
  /\ subs \in [S -> Seq(S)] /\ d \in [S -> Nat]
  /\ \A x \in S : \A k \in DOMAIN subs[x] : d[subs[x][k]] < d[x]

HasWithParts(S, subs, T) ==
  \A x \in S : (\A k \in DOMAIN subs[x] : subs[x][k] \in T) => x \in T

\* A set that holds every tree whose parts it holds, holds every tree.
THEOREM TreeInductionSet ==
  ASSUME NEW S, NEW subs, NEW d, DepthDecreases(S, subs, d), NEW T, HasWithParts(S, subs, T)
  PROVE  \A x \in S : x \in T
<1> DEFINE N == {n \in Nat : \A x \in S : d[x] < n => x \in T}
<1>1. \A x \in S : /\ d[x] \in Nat
                   /\ \A k \in DOMAIN subs[x] : subs[x][k] \in S /\ d[subs[x][k]] < d[x]
  BY ElementOfSeq, LenProperties DEF DepthDecreases
<1>2. 0 \in N
  BY <1>1
<1>3. ASSUME NEW n \in Nat, n \in N PROVE n + 1 \in N
  <2>1. ASSUME NEW x \in S, d[x] < n + 1 PROVE x \in T
    <3>1. ASSUME NEW k \in DOMAIN subs[x] PROVE subs[x][k] \in T
      <4>1. subs[x][k] \in S /\ d[subs[x][k]] \in Nat /\ d[subs[x][k]] < d[x] /\ d[x] \in Nat
        BY <1>1
      <4>2. d[subs[x][k]] < n
        BY <4>1, <2>1
      <4>3. QED
        BY <4>1, <4>2, <1>3
    <3>2. QED
      BY <3>1 DEF HasWithParts
  <2>2. QED
    BY <2>1
<1>4. \A n \in Nat : n \in N
  <2> HIDE DEF N
  <2>1. QED
    BY <1>2, <1>3, NatInductionSet
<1>5. ASSUME NEW x \in S PROVE x \in T
  <2>1. d[x] + 1 \in N
    BY <1>1, <1>4
  <2>2. QED
    BY <1>1, <2>1
<1>6. QED
  BY <1>5

\* The values of a function at the parts of a tree.
AtParts(f, subs, x) == [k \in DOMAIN subs[x] |-> f[subs[x][k]]]

\* f is given by the step from the values at the parts to the value at the tree.
FollowsParts(f, S, subs, step) == \A x \in S : f[x] = step[<<x, AtParts(f, subs, x)>>]

\* The values at the parts are a sequence, as long as that of the parts.
LEMMA AtPartsType ==
  ASSUME NEW S, NEW V, NEW subs \in [S -> Seq(S)], NEW x \in S, NEW f,
         \A k \in DOMAIN subs[x] : f[subs[x][k]] \in V
  PROVE  AtParts(f, subs, x) \in Seq(V) /\ Len(AtParts(f, subs, x)) = Len(subs[x])
<1>1. subs[x] \in Seq(S) /\ Len(subs[x]) \in Nat /\ DOMAIN subs[x] = 1 .. Len(subs[x])
  BY LenProperties
<1>2. AtParts(f, subs, x) \in Seq(V)
  BY <1>1, IsASeq DEF AtParts
<1>3. QED
  BY <1>1, <1>2, LenProperties DEF AtParts

\* A function of trees given by such a step exists: the limit of the functions that
\* make n steps from any function, which agree on the trees less deep than n.
THEOREM TreeRecursion ==
  ASSUME NEW S, NEW subs, NEW d, DepthDecreases(S, subs, d),
         NEW V, NEW v0 \in V, NEW step \in [S \X Seq(V) -> V]
  PROVE  \E f \in [S -> V] : FollowsParts(f, S, subs, step)
<1> DEFINE W == [S -> V]
           OneStep(g) == [x \in S |-> step[<<x, AtParts(g, subs, x)>>]]
           steps == [gn \in W \X Nat |-> OneStep(gn[1])]
           f0 == [x \in S |-> v0]
<1>1. \A x \in S : /\ d[x] \in Nat
                   /\ \A k \in DOMAIN subs[x] : subs[x][k] \in S /\ d[subs[x][k]] < d[x]
  BY ElementOfSeq, LenProperties DEF DepthDecreases
<1>2. ASSUME NEW g \in W PROVE OneStep(g) \in W
  <2>1. ASSUME NEW x \in S PROVE step[<<x, AtParts(g, subs, x)>>] \in V
    <3>1. \A k \in DOMAIN subs[x] : g[subs[x][k]] \in V
      BY <1>1
    <3>2. AtParts(g, subs, x) \in Seq(V)
      BY <3>1, AtPartsType DEF DepthDecreases
    <3>3. QED
      BY <3>2
  <2>2. QED
    BY <2>1
<1>3. PICK F \in [Nat -> W] : \A n \in Nat : F[n + 1] = OneStep(F[n])
  <2>1. steps \in [W \X Nat -> W] /\ f0 \in W
    <3> HIDE DEF OneStep, W
    <3>1. steps \in [W \X Nat -> W]
      BY <1>2
    <3>2. f0 \in W
      BY DEF W
    <3>3. QED
      BY <3>1, <3>2
  <2>2. PICK F \in [Nat -> W] : FollowsSteps(F, f0, steps)
    <3> HIDE DEF W, steps, f0
    <3>1. QED
      BY <2>1, NatRecursion
  <2>3. ASSUME NEW n \in Nat PROVE F[n + 1] = OneStep(F[n])
    <3>1. F[n + 1] = steps[<<F[n], n + 1>>] /\ <<F[n], n + 1>> \in W \X Nat
      <4> HIDE DEF steps, W
      <4>1. QED
        BY <2>2 DEF FollowsSteps
    <3>2. steps[<<F[n], n + 1>>] = OneStep(F[n])
      <4> HIDE DEF OneStep, W
      <4>1. QED
        BY <3>1
    <3>3. QED
      BY <3>1, <3>2
  <2>4. QED
    BY <2>3
<1>4. \A n \in Nat : \A x \in S : F[n + 1][x] = step[<<x, AtParts(F[n], subs, x)>>]
  BY <1>3
<1> DEFINE Settled == {n \in Nat : \A x \in S : d[x] < n => F[n + 1][x] = F[n][x]}
<1>5. \A n \in Nat : n \in Settled
  <2>1. 0 \in Settled
    BY <1>1
  <2>2. ASSUME NEW n \in Nat, n \in Settled PROVE n + 1 \in Settled
    <3>1. ASSUME NEW x \in S, d[x] < n + 1 PROVE F[(n + 1) + 1][x] = F[n + 1][x]
      <4>1. ASSUME NEW k \in DOMAIN subs[x] PROVE F[n + 1][subs[x][k]] = F[n][subs[x][k]]
        <5>1. subs[x][k] \in S /\ d[subs[x][k]] \in Nat /\ d[subs[x][k]] < d[x] /\ d[x] \in Nat
          BY <1>1
        <5>2. d[subs[x][k]] < n
          BY <5>1, <3>1
        <5>3. QED
          BY <5>1, <5>2, <2>2
      <4>2. AtParts(F[n + 1], subs, x) = AtParts(F[n], subs, x)
        BY <4>1 DEF AtParts
      <4>3. n + 1 \in Nat /\ F[(n + 1) + 1][x] = step[<<x, AtParts(F[n + 1], subs, x)>>]
        BY <1>4
      <4>4. F[n + 1][x] = step[<<x, AtParts(F[n], subs, x)>>]
        BY <1>4
      <4>5. QED
        BY <4>2, <4>3, <4>4
    <3>2. QED
      BY <3>1
  <2>3. QED
    <3> HIDE DEF Settled
    <3>1. QED
      BY <2>1, <2>2, NatInductionSet
<1> DEFINE f == [x \in S |-> F[d[x] + 1][x]]
           Agree == {n \in Nat : \A x \in S : d[x] < n => F[n][x] = f[x]}
<1>6. \A n \in Nat : n \in Agree
  <2>1. 0 \in Agree
    BY <1>1
  <2>2. ASSUME NEW n \in Nat, n \in Agree PROVE n + 1 \in Agree
    <3>1. ASSUME NEW x \in S, d[x] < n + 1 PROVE F[n + 1][x] = f[x]
      <4>1. CASE d[x] = n
        BY <4>1
      <4>2. CASE d[x] < n
        <5>1. F[n + 1][x] = F[n][x]
          BY <4>2, <1>5
        <5>2. QED
          BY <5>1, <4>2, <2>2
      <4>3. QED
        BY <4>1, <4>2, <3>1, <1>1
    <3>2. QED
      BY <3>1
  <2>3. QED
    <3> HIDE DEF Agree
    <3>1. QED
      BY <2>1, <2>2, NatInductionSet
<1>7. f \in [S -> V]
  <2>1. ASSUME NEW x \in S PROVE F[d[x] + 1][x] \in V
    <3>1. d[x] + 1 \in Nat
      BY <1>1
    <3>2. F[d[x] + 1] \in W
      BY <3>1, <1>3
    <3>3. QED
      BY <3>2
  <2>2. QED
    BY <2>1
<1>8. ASSUME NEW x \in S PROVE f[x] = step[<<x, AtParts(f, subs, x)>>]
  <2>1. f[x] = step[<<x, AtParts(F[d[x]], subs, x)>>]
    BY <1>1, <1>4
  <2>2. ASSUME NEW k \in DOMAIN subs[x] PROVE F[d[x]][subs[x][k]] = f[subs[x][k]]
    <3>1. subs[x][k] \in S /\ d[subs[x][k]] < d[x] /\ d[x] \in Agree
      BY <1>1, <1>6
    <3>2. QED
      BY <3>1
  <2>3. AtParts(F[d[x]], subs, x) = AtParts(f, subs, x)
    <3> HIDE DEF f
    <3>1. QED
      BY <2>2 DEF AtParts
  <2>4. QED
    BY <2>1, <2>3
<1>9. QED
  <2> HIDE DEF f
  <2>1. QED
    BY <1>7, <1>8 DEF FollowsParts
----------------------------------------------------------------------------
(* The least and the greatest of a set of numbers.                         *)

\* A set of numbers that is not empty has a least.
THEOREM LeastOf ==
  ASSUME NEW K \in SUBSET Nat, K # {}
  PROVE  \E k \in K : \A j \in K : k <= j
<1> DEFINE less == {ss \in Nat \X Nat : ss[1] < ss[2]}
<1>1. IsWellFoundedOn(less, Nat)
  BY NatLessThanWellFounded DEF OpToRel
<1>2. PICK k \in K : \A j \in K : ~(<<j, k>> \in less)
  <2> HIDE DEF less
  <2>1. QED
    BY <1>1, WFMin
<1>3. \A j \in K : k <= j
  <2>1. ASSUME NEW j \in K PROVE k <= j
    <3>1. j \in Nat /\ k \in Nat /\ ~(<<j, k>> \in less)
      BY <1>2
    <3>2. ~(j < k)
      BY <3>1
    <3>3. QED
      BY <3>1, <3>2
  <2>2. QED
    BY <2>1
<1>4. QED
  BY <1>3

\* One that is bounded as well has a greatest.
THEOREM GreatestOf ==
  ASSUME NEW n \in Nat, NEW K \in SUBSET (0 .. n), K # {}
  PROVE  \E k \in K : \A j \in K : j <= k
<1> DEFINE L == {i \in 0 .. n : n - i \in K}
<1>1. L \in SUBSET Nat /\ L # {}
  <2>1. PICK k \in K : TRUE
    OBVIOUS
  <2>2. k \in 0 .. n /\ n - k \in 0 .. n /\ n - (n - k) = k
    BY <2>1
  <2>3. n - k \in L
    BY <2>1, <2>2
  <2>4. L \in SUBSET Nat
    OBVIOUS
  <2> HIDE DEF L
  <2>5. QED
    BY <2>3, <2>4
<1>2. PICK i \in L : \A j \in L : i <= j
  <2> HIDE DEF L
  <2>1. QED
    BY <1>1, LeastOf
<1>3. ASSUME NEW j \in K PROVE j <= n - i
  <2>1. j \in 0 .. n /\ n - j \in 0 .. n /\ n - (n - j) = j /\ i \in 0 .. n
    BY <1>2
  <2>2. n - j \in L
    BY <2>1
  <2>3. i <= n - j
    BY <2>2, <1>2
  <2>4. QED
    BY <2>1, <2>3
<1>4. n - i \in K
  BY <1>2
<1>5. QED
  BY <1>3, <1>4
============================================================================
