------------------------- MODULE SplitLogsProofs ---------------------------
(***************************************************************************)
(* Theorems about splitLogs, for resource entries of any number of scopes  *)
(* with any number of records each, split at any size.                     *)
(*                                                                         *)
(* SplitInv follows the two nested callbacks: what moved, what stays and   *)
(* what is still to be visited make up the source, in this order, and a    *)
(* scope is only cut when it has more records than the result has room     *)
(* for, so that the result is complete before the next scope is reached.   *)
(* OneScopeInv is about the entries of the batch, which have one scope.    *)
(***************************************************************************)
EXTENDS SplitLogs, RecursionTheorems

USE DEF Fits

\* The records of a scope, each with the scope.
Pairs(scope, rs) == [j \in DOMAIN rs |-> <<scope, rs[j]>>]
Pair == Scope \X LogRecord

SplitTypes ==
  /\ srcRl \in Seq(ScopeLogs) /\ size \in Nat \ {0}
  /\ scopes \in Seq(ScopeLogs) /\ kept \in Seq(ScopeLogs) /\ destRl \in Seq(ScopeLogs)
  /\ records \in Seq(LogRecord) /\ keptRecords \in Seq(LogRecord)
  /\ copied \in Nat
  /\ pc \in {"call", "scope", "record", "source", "return"}

\* The callback on records runs: the scope was cut, with more records than fit, and is
\* the only one that stays; its copy is the last scope of the result.
CutInv ==
  pc = "record" =>
    /\ Len(kept) = 1 /\ kept[1].records = <<>>
    /\ destRl # <<>> /\ destRl[Len(destRl)].scope = kept[1].scope
    /\ Flat(destRl) \o (Pairs(kept[1].scope, keptRecords) \o Pairs(kept[1].scope, records)) \o Flat(scopes)
         = Flat(srcRl)
    /\ copied + Len(keptRecords) + Len(records) > size
    /\ ~Done => keptRecords = <<>>

\* The callback on scopes runs, or has: nothing stays while there is room.
PlaceInv ==
  pc # "record" =>
    /\ Flat(destRl) \o Flat(kept) \o Flat(scopes) = Flat(srcRl)
    /\ ~Done => kept = <<>>
    /\ \A i \in DOMAIN kept : kept[i].records = <<>> => \E j \in DOMAIN srcRl : srcRl[j] = kept[i]

SplitInv ==
  /\ copied = Len(Flat(destRl)) /\ copied <= size
  /\ pc \in {"call", "source"} => scopes = srcRl /\ destRl = <<>> /\ kept = <<>>
  /\ pc = "return" => scopes = <<>>
  /\ \A i \in DOMAIN scopes : \E j \in DOMAIN srcRl : srcRl[j] = scopes[i]
  /\ CutInv
  /\ PlaceInv
----------------------------------------------------------------------------
(* The records of an entry in order.                                       *)

\* Intervals that start at 1 are as long as their last number.
LEMMA SameInterval == \A m, n \in Nat : 1 .. m = 1 .. n => m = n
OBVIOUS

\* The records of a scope: as many pairs, and one after the other.
LEMMA PairsType ==
  ASSUME NEW s \in Scope, NEW rs \in Seq(LogRecord)
  PROVE  /\ Pairs(s, rs) \in Seq(Pair) /\ Len(Pairs(s, rs)) = Len(rs)
         /\ \A j \in 1 .. Len(rs) : Pairs(s, rs)[j] = <<s, rs[j]>>
<1>1. DOMAIN rs = 1 .. Len(rs) /\ Len(rs) \in Nat /\ \A j \in 1 .. Len(rs) : rs[j] \in LogRecord
  BY LenProperties, ElementOfSeq
<1>2. Pairs(s, rs) \in [1 .. Len(rs) -> Pair]
  BY <1>1 DEF Pairs, Pair
<1>3. Pairs(s, rs) \in Seq(Pair)
  BY <1>1, <1>2, SeqDef
<1>4. DOMAIN Pairs(s, rs) = 1 .. Len(Pairs(s, rs)) /\ Len(Pairs(s, rs)) \in Nat
  BY <1>3, LenProperties
<1>5. DOMAIN Pairs(s, rs) = 1 .. Len(rs)
  BY <1>2
<1>6. Len(Pairs(s, rs)) = Len(rs)
  BY <1>1, <1>4, <1>5, SameInterval
<1>7. QED
  BY <1>1, <1>3, <1>6 DEF Pairs

\* A scope without records gives no pairs.
LEMMA PairsEmpty == \A s : Pairs(s, <<>>) = <<>>
BY DEF Pairs

\* The pairs of some records and of others behind them.
LEMMA PairsConcat ==
  ASSUME NEW s \in Scope, NEW p \in Seq(LogRecord), NEW q \in Seq(LogRecord)
  PROVE  Pairs(s, p \o q) = Pairs(s, p) \o Pairs(s, q)
<1> DEFINE a == Pairs(s, p)
           b == Pairs(s, q)
           c == Pairs(s, p \o q)
<1>1. /\ p \o q \in Seq(LogRecord) /\ Len(p \o q) = Len(p) + Len(q)
      /\ \A i \in 1 .. Len(p) + Len(q) : (p \o q)[i] = IF i <= Len(p) THEN p[i] ELSE q[i - Len(p)]
      /\ Len(p) \in Nat /\ Len(q) \in Nat
  BY ConcatProperties, LenProperties
<1>2. /\ a \in Seq(Pair) /\ Len(a) = Len(p) /\ \A j \in 1 .. Len(p) : a[j] = <<s, p[j]>>
      /\ b \in Seq(Pair) /\ Len(b) = Len(q) /\ \A j \in 1 .. Len(q) : b[j] = <<s, q[j]>>
      /\ c \in Seq(Pair) /\ Len(c) = Len(p) + Len(q)
      /\ \A j \in 1 .. Len(p) + Len(q) : c[j] = <<s, (p \o q)[j]>>
  BY <1>1, PairsType
<1> HIDE DEF a, b, c
<1>3. /\ a \o b \in Seq(Pair) /\ Len(a \o b) = Len(p) + Len(q)
      /\ \A i \in 1 .. Len(p) + Len(q) : (a \o b)[i] = IF i <= Len(p) THEN a[i] ELSE b[i - Len(p)]
  <2>1. /\ a \o b \in Seq(Pair) /\ Len(a \o b) = Len(a) + Len(b)
        /\ \A i \in 1 .. Len(a) + Len(b) : (a \o b)[i] = IF i <= Len(a) THEN a[i] ELSE b[i - Len(a)]
    <3>1. a \in Seq(Pair) /\ b \in Seq(Pair)
      BY <1>2
    <3>2. QED
      BY <3>1, ConcatProperties
  <2>2. Len(a) = Len(p) /\ Len(b) = Len(q)
    BY <1>2
  <2>3. QED
    BY <2>1, <2>2
<1>4. \A i \in 1 .. Len(p) + Len(q) : c[i] = (a \o b)[i]
  <2> SUFFICES ASSUME NEW i \in 1 .. Len(p) + Len(q) PROVE c[i] = (a \o b)[i]
    OBVIOUS
  <2>1. CASE i <= Len(p)
    <3>1. i \in 1 .. Len(p)
      BY <1>1, <2>1
    <3>2. QED
      BY <1>1, <1>2, <1>3, <2>1, <3>1
  <2>2. CASE ~(i <= Len(p))
    <3>1. i - Len(p) \in 1 .. Len(q)
      BY <1>1, <2>2, ShiftedIndices
    <3>2. QED
      BY <1>1, <1>2, <1>3, <2>2, <3>1
  <2>3. QED
    BY <2>1, <2>2
<1>5. c = a \o b
  BY <1>2, <1>3, <1>4, SeqEqual
<1>6. QED
  BY <1>5 DEF a, b, c

\* The first record, and the others.
LEMMA PairsHead ==
  ASSUME NEW s \in Scope, NEW rs \in Seq(LogRecord), rs # <<>>
  PROVE  /\ Pairs(s, rs) = << <<s, Head(rs)>> >> \o Pairs(s, Tail(rs))
         /\ Head(rs) \in LogRecord /\ Tail(rs) \in Seq(LogRecord) /\ Len(rs) = Len(Tail(rs)) + 1
<1>1. Head(rs) \in LogRecord /\ Tail(rs) \in Seq(LogRecord) /\ Len(Tail(rs)) = Len(rs) - 1
  BY HeadTailProperties
<1>2. <<Head(rs)>> \in Seq(LogRecord) /\ rs = <<Head(rs)>> \o Tail(rs)
  <2>1. Len(rs) \in Nat /\ Len(rs) # 0 /\ DOMAIN rs = 1 .. Len(rs)
    BY LenProperties, EmptySeq
  <2>2. SubSeq(rs, 1, Len(rs)) = <<rs[1]>> \o SubSeq(rs, 2, Len(rs))
    <3>1. ASSUME NEW i \in 1 .. Len(rs), NEW j \in i .. Len(rs)
          PROVE  SubSeq(rs, i, j) = <<rs[i]>> \o SubSeq(rs, i + 1, j)
      BY SubSeqRecursiveFirst
    <3>2. 1 \in 1 .. Len(rs) /\ Len(rs) \in 1 .. Len(rs) /\ 1 + 1 = 2
      BY <2>1
    <3>3. QED
      BY <3>1, <3>2
  <2>3. SubSeq(rs, 1, Len(rs)) = rs /\ Tail(rs) = SubSeq(rs, 2, Len(rs))
    BY SubSeqFull, TailIsSubSeq
  <2>4. Head(rs) = rs[1]
    OBVIOUS
  <2>5. QED
    BY <1>1, <2>2, <2>3, <2>4
<1>3. Pairs(s, rs) = Pairs(s, <<Head(rs)>>) \o Pairs(s, Tail(rs))
  BY <1>1, <1>2, PairsConcat
<1>4. Pairs(s, <<Head(rs)>>) = << <<s, Head(rs)>> >>
  BY DEF Pairs
<1>5. Len(rs) = Len(Tail(rs)) + 1
  <2>1. Len(rs) \in Nat
    BY LenProperties
  <2>2. QED
    BY <1>1, <2>1
<1>6. QED
  BY <1>1, <1>3, <1>4, <1>5

\* What Flat joins.
Pieces(rl) == [i \in DOMAIN rl |-> Pairs(rl[i].scope, rl[i].records)]

\* They are the pairs of each scope, and joined they are the entry.
LEMMA PiecesType ==
  ASSUME NEW rl \in Seq(ScopeLogs)
  PROVE  /\ Pieces(rl) \in Seq(Seq(Pair)) /\ Len(Pieces(rl)) = Len(rl) /\ Len(rl) \in Nat
         /\ \A i \in 1 .. Len(rl) : /\ rl[i].scope \in Scope /\ rl[i].records \in Seq(LogRecord)
                                    /\ Pieces(rl)[i] = Pairs(rl[i].scope, rl[i].records)
         /\ Flat(rl) = FlattenSeq(Pieces(rl))
<1>1. DOMAIN rl = 1 .. Len(rl) /\ Len(rl) \in Nat
  BY LenProperties
<1>2. \A i \in 1 .. Len(rl) : rl[i].scope \in Scope /\ rl[i].records \in Seq(LogRecord)
  <2>1. \A i \in 1 .. Len(rl) : rl[i] \in ScopeLogs
    BY ElementOfSeq
  <2>2. QED
    BY <2>1 DEF ScopeLogs
<1>3. \A i \in 1 .. Len(rl) : Pairs(rl[i].scope, rl[i].records) \in Seq(Pair)
  BY <1>2, PairsType
<1>4. Pieces(rl) \in [1 .. Len(rl) -> Seq(Pair)]
  BY <1>1, <1>3 DEF Pieces
<1>5. Pieces(rl) \in Seq(Seq(Pair))
  BY <1>1, <1>4, SeqDef
<1>6. Len(Pieces(rl)) = Len(rl)
  <2>1. DOMAIN Pieces(rl) = 1 .. Len(Pieces(rl)) /\ Len(Pieces(rl)) \in Nat
    BY <1>5, LenProperties
  <2>2. DOMAIN Pieces(rl) = 1 .. Len(rl)
    BY <1>4
  <2>3. QED
    BY <1>1, <2>1, <2>2, SameInterval
<1>7. Flat(rl) = FlattenSeq(Pieces(rl))
  BY DEF Flat, Pieces, Pairs
<1>8. QED
  BY <1>1, <1>2, <1>5, <1>6, <1>7 DEF Pieces

\* The records of an entry are a sequence.
LEMMA FlatType ==
  ASSUME NEW rl \in Seq(ScopeLogs)
  PROVE  Flat(rl) \in Seq(Pair) /\ Len(Flat(rl)) \in Nat
<1>1. Flat(rl) \in Seq(Pair)
  BY PiecesType, FlattenSeqType
<1>2. QED
  BY <1>1, LenProperties

\* An entry without scopes has no records.
LEMMA FlatEmpty == Flat(<<>>) = <<>>
<1>1. [i \in DOMAIN <<>> |-> Pairs(<<>>[i].scope, <<>>[i].records)] = <<>>
  OBVIOUS
<1>2. QED
  BY <1>1, FlattenSeqEmpty DEF Flat, Pairs

\* The records of one scope.
LEMMA FlatOne ==
  ASSUME NEW s \in ScopeLogs
  PROVE  Flat(<<s>>) = Pairs(s.scope, s.records) /\ Pairs(s.scope, s.records) \in Seq(Pair)
<1>1. s.scope \in Scope /\ s.records \in Seq(LogRecord)
  BY DEF ScopeLogs
<1>2. Pairs(s.scope, s.records) \in Seq(Pair)
  BY <1>1, PairsType
<1>3. Pieces(<<s>>) = <<Pairs(s.scope, s.records)>>
  BY DEF Pieces
<1>4. FlattenSeq(<<Pairs(s.scope, s.records)>>) = Pairs(s.scope, s.records)
  BY <1>2, FlattenSeqOne
<1>5. Flat(<<s>>) = FlattenSeq(Pieces(<<s>>))
  BY DEF Flat, Pieces, Pairs
<1>6. QED
  BY <1>2, <1>3, <1>4, <1>5

\* The scopes of an entry behind those of another: their records behind its records.
LEMMA FlatConcat ==
  ASSUME NEW p \in Seq(ScopeLogs), NEW q \in Seq(ScopeLogs)
  PROVE  Flat(p \o q) = Flat(p) \o Flat(q)
<1> DEFINE pq == p \o q
           a == Pieces(p)
           b == Pieces(q)
           c == Pieces(pq)
<1>1. /\ pq \in Seq(ScopeLogs) /\ Len(pq) = Len(p) + Len(q)
      /\ \A i \in 1 .. Len(p) + Len(q) : pq[i] = IF i <= Len(p) THEN p[i] ELSE q[i - Len(p)]
  BY ConcatProperties
<1>2. /\ a \in Seq(Seq(Pair)) /\ Len(a) = Len(p) /\ Len(p) \in Nat
      /\ \A i \in 1 .. Len(p) : a[i] = Pairs(p[i].scope, p[i].records)
      /\ b \in Seq(Seq(Pair)) /\ Len(b) = Len(q) /\ Len(q) \in Nat
      /\ \A i \in 1 .. Len(q) : b[i] = Pairs(q[i].scope, q[i].records)
      /\ Flat(p) = FlattenSeq(a) /\ Flat(q) = FlattenSeq(b)
  BY PiecesType
<1> HIDE DEF a, b, pq
<1>3. /\ c \in Seq(Seq(Pair)) /\ Len(c) = Len(p) + Len(q)
      /\ \A i \in 1 .. Len(p) + Len(q) : c[i] = Pairs(pq[i].scope, pq[i].records)
      /\ Flat(pq) = FlattenSeq(c)
  <2> HIDE DEF c
  <2>1. /\ c \in Seq(Seq(Pair)) /\ Len(c) = Len(pq)
        /\ \A i \in 1 .. Len(pq) : c[i] = Pairs(pq[i].scope, pq[i].records)
        /\ Flat(pq) = FlattenSeq(c)
    BY <1>1, PiecesType DEF c
  <2>2. QED
    BY <1>1, <2>1
<1> HIDE DEF c
<1>4. /\ a \o b \in Seq(Seq(Pair)) /\ Len(a \o b) = Len(p) + Len(q)
      /\ \A i \in 1 .. Len(p) + Len(q) : (a \o b)[i] = IF i <= Len(p) THEN a[i] ELSE b[i - Len(p)]
  <2> DEFINE V == Seq(Pair)
  <2>1. a \in Seq(V) /\ b \in Seq(V)
    BY <1>2
  <2> HIDE DEF V
  <2>2. /\ a \o b \in Seq(V) /\ Len(a \o b) = Len(a) + Len(b)
        /\ \A i \in 1 .. Len(a) + Len(b) : (a \o b)[i] = IF i <= Len(a) THEN a[i] ELSE b[i - Len(a)]
    BY <2>1, ConcatProperties
  <2>3. Len(a) = Len(p) /\ Len(b) = Len(q)
    BY <1>2
  <2>4. QED
    BY <2>2, <2>3 DEF V
<1>5. \A i \in 1 .. Len(p) + Len(q) : c[i] = (a \o b)[i]
  <2> SUFFICES ASSUME NEW i \in 1 .. Len(p) + Len(q) PROVE c[i] = (a \o b)[i]
    OBVIOUS
  <2>1. CASE i <= Len(p)
    <3>1. i \in 1 .. Len(p)
      BY <1>2, <2>1
    <3>2. QED
      BY <1>1, <1>2, <1>3, <1>4, <2>1, <3>1
  <2>2. CASE ~(i <= Len(p))
    <3>1. i - Len(p) \in 1 .. Len(q)
      BY <1>2, <2>2, ShiftedIndices
    <3>2. QED
      BY <1>1, <1>2, <1>3, <1>4, <2>2, <3>1
  <2>3. QED
    BY <2>1, <2>2
<1>6. c = a \o b
  <2> DEFINE V == Seq(Pair)
  <2>1. c \in Seq(V) /\ a \o b \in Seq(V)
    BY <1>3, <1>4
  <2> HIDE DEF V
  <2>2. QED
    BY <1>3, <1>4, <1>5, <2>1, SeqEqual
<1>7. FlattenSeq(a \o b) = FlattenSeq(a) \o FlattenSeq(b)
  BY <1>2, FlattenSeqConcat
<1>8. QED
  BY <1>2, <1>3, <1>6, <1>7 DEF pq

\* The records counted scope by scope are as many as the records in order.
LEMMA CountIsLength ==
  ASSUME NEW rl \in Seq(ScopeLogs)
  PROVE  resourceLRC(rl) = Len(Flat(rl))
<1> DEFINE len == Len(rl)
           Count(g) == [k \in 0 .. Len(rl) |-> IF k = 0 THEN 0 ELSE g[k - 1] + Len(rl[k].records)]
           count == CHOOSE g : g = Count(g)
<1>1. /\ Pieces(rl) \in Seq(Seq(Pair)) /\ Len(Pieces(rl)) = len /\ len \in Nat
      /\ \A i \in 1 .. len : /\ rl[i].scope \in Scope /\ rl[i].records \in Seq(LogRecord)
                             /\ Pieces(rl)[i] = Pairs(rl[i].scope, rl[i].records)
      /\ Flat(rl) = FlattenSeq(Pieces(rl))
  BY PiecesType
<1>2. resourceLRC(rl) = count[len]
  BY DEF resourceLRC
<1> HIDE DEF len
<1>3. PICK f \in [Nat -> Seq(Pair)] :
        /\ f[0] = <<>>
        /\ \A n \in 1 .. len : f[n] = f[n - 1] \o Pieces(rl)[n]
        /\ FlattenSeq(Pieces(rl)) = f[len]
  <2> DEFINE ps == Pieces(rl)
  <2>1. ps \in Seq(Seq(Pair)) /\ Len(ps) = len
    BY <1>1
  <2> HIDE DEF ps
  <2>2. \E f \in [Nat -> Seq(Pair)] :
          /\ f[0] = <<>>
          /\ \A n \in 1 .. Len(ps) : f[n] = f[n - 1] \o ps[n]
          /\ FlattenSeq(ps) = f[Len(ps)]
    BY <2>1, FlattenSeqJoins
  <2>3. QED
    BY <2>1, <2>2 DEF ps
<1> DEFINE h == [k \in 0 .. len |-> Len(f[k])]
<1>4. ASSUME NEW n \in 1 .. len
      PROVE  Len(f[n]) = Len(f[n - 1]) + Len(rl[n].records)
  <2>1. n - 1 \in Nat
    BY <1>1
  <2>2. f[n - 1] \in Seq(Pair) /\ Pieces(rl)[n] \in Seq(Pair) /\ Len(Pieces(rl)[n]) = Len(rl[n].records)
    BY <1>1, <2>1, PairsType
  <2>3. Len(f[n - 1] \o Pieces(rl)[n]) = Len(f[n - 1]) + Len(Pieces(rl)[n])
    BY <2>2, ConcatProperties
  <2>4. QED
    BY <1>3, <2>2, <2>3
<1>5. h = Count(h)
  <2>1. h[0] = 0
    BY <1>1, <1>3
  <2>2. \A n \in 1 .. len : h[n] = h[n - 1] + Len(rl[n].records)
    <3>1. \A n \in 1 .. len : n \in 0 .. len /\ n - 1 \in 0 .. len
      BY <1>1
    <3>2. QED
      BY <1>4, <3>1
  <2>3. \A k \in 0 .. len : k = 0 \/ k \in 1 .. len
    BY <1>1
  <2>4. \A k \in 0 .. len : h[k] = IF k = 0 THEN 0 ELSE h[k - 1] + Len(rl[k].records)
    <3> HIDE DEF h
    <3>1. QED
      BY <2>1, <2>2, <2>3
  <2>5. DOMAIN h = 0 .. len /\ DOMAIN Count(h) = 0 .. len
    BY DEF len
  <2>6. \A k \in 0 .. len : Count(h)[k] = h[k]
    <3> HIDE DEF h
    <3>1. QED
      BY <2>4 DEF len
  <2>7. QED
    BY <2>5, <2>6
<1>6. count = Count(count)
  <2> HIDE DEF Count, h
  <2>1. QED
    BY <1>5
<1>7. \A n \in Nat : n \in 0 .. len => count[n] = h[n]
  <2> DEFINE T == {n \in Nat : n \in 0 .. len => count[n] = h[n]}
  <2> HIDE DEF count, h
  <2>1. 0 \in T
    BY <1>1, <1>5, <1>6 DEF len
  <2>2. ASSUME NEW n \in Nat, n \in T PROVE n + 1 \in T
    <3> SUFFICES ASSUME n + 1 \in 0 .. len PROVE count[n + 1] = h[n + 1]
      BY <1>1
    <3>1. n \in 0 .. len /\ (n + 1) - 1 = n /\ n + 1 # 0
      BY <1>1
    <3>2. /\ count[n + 1] = count[n] + Len(rl[n + 1].records)
          /\ h[n + 1] = h[n] + Len(rl[n + 1].records)
      BY <1>5, <1>6, <3>1 DEF len
    <3>3. QED
      BY <2>2, <3>1, <3>2
  <2>3. \A n \in Nat : n \in T
    <3> HIDE DEF T
    <3>1. QED
      BY <2>1, <2>2, NatInductionSet
  <2>4. QED
    BY <2>3
<1>8. count[len] = h[len] /\ h[len] = Len(f[len])
  <2>1. len \in 0 .. len
    BY <1>1
  <2>2. QED
    BY <1>1, <1>7, <2>1
<1>9. QED
  BY <1>1, <1>2, <1>3, <1>8

\* A scope behind the others: its records behind theirs.
LEMMA FlatAppend ==
  ASSUME NEW p \in Seq(ScopeLogs), NEW s \in ScopeLogs
  PROVE  Flat(Append(p, s)) = Flat(p) \o Pairs(s.scope, s.records)
<1>1. <<s>> \in Seq(ScopeLogs) /\ Append(p, s) = p \o <<s>>
  BY AppendIsConcat
<1>2. Flat(p \o <<s>>) = Flat(p) \o Flat(<<s>>)
  BY <1>1, FlatConcat
<1>3. QED
  BY <1>1, <1>2, FlatOne

\* A record is appended to the last scope of an entry: it comes behind all the others.
LEMMA FlatLonger ==
  ASSUME NEW d \in Seq(ScopeLogs), d # <<>>, NEW x \in LogRecord
  PROVE  LET longer == [d EXCEPT ![Len(d)].records = Append(@, x)]
         IN  /\ longer \in Seq(ScopeLogs) /\ longer # <<>> /\ Len(longer) = Len(d)
             /\ d[Len(d)].scope \in Scope /\ longer[Len(d)].scope = d[Len(d)].scope
             /\ Flat(longer) = Flat(d) \o << <<d[Len(d)].scope, x>> >>
<1> DEFINE last == d[Len(d)]
           new == [last EXCEPT !.records = Append(last.records, x)]
           longer == [d EXCEPT ![Len(d)] = new]
<1>1. \E p \in Seq(ScopeLogs), s \in ScopeLogs : d = Append(p, s)
  BY SequenceEmptyOrAppend
<1>2. PICK p \in Seq(ScopeLogs), s \in ScopeLogs : d = Append(p, s)
  BY <1>1
<1>3. /\ Len(p) \in Nat /\ Len(d) = Len(p) + 1 /\ last = s
      /\ \A i \in 1 .. Len(p) : d[i] = p[i]
  <2>1. /\ Len(Append(p, s)) = Len(p) + 1 /\ Append(p, s)[Len(p) + 1] = s
        /\ \A i \in 1 .. Len(p) : Append(p, s)[i] = p[i]
    BY AppendProperties
  <2>2. QED
    BY <1>2, <2>1, LenProperties
<1>4. last \in ScopeLogs /\ last.scope \in Scope /\ last.records \in Seq(LogRecord)
  BY <1>3 DEF ScopeLogs
<1>5. Append(last.records, x) \in Seq(LogRecord) /\ Append(last.records, x) = last.records \o <<x>> /\ <<x>> \in Seq(LogRecord)
  BY <1>4, AppendProperties, AppendIsConcat
<1>6. new \in ScopeLogs /\ new.scope = last.scope /\ new.records = last.records \o <<x>>
  BY <1>4, <1>5 DEF ScopeLogs
<1> HIDE DEF last, new
<1>7. /\ longer \in Seq(ScopeLogs) /\ Len(longer) = Len(d)
      /\ \A i \in 1 .. Len(d) : longer[i] = IF i = Len(d) THEN new ELSE d[i]
  <2>1. Len(d) \in 1 .. Len(d)
    BY <1>3
  <2>2. QED
    BY <1>6, <2>1, ExceptSeq
<1> HIDE DEF longer
<1>8. longer = Append(p, new)
  <2>1. /\ Append(p, new) \in Seq(ScopeLogs) /\ Len(Append(p, new)) = Len(p) + 1
        /\ Append(p, new)[Len(p) + 1] = new
        /\ \A i \in 1 .. Len(p) : Append(p, new)[i] = p[i]
    BY <1>6, AppendProperties
  <2>2. \A i \in 1 .. Len(longer) : longer[i] = Append(p, new)[i]
    <3>1. \A i \in 1 .. Len(longer) : i = Len(d) \/ (i # Len(d) /\ i \in 1 .. Len(p))
      BY <1>3, <1>7
    <3>2. QED
      BY <1>3, <1>7, <2>1, <3>1
  <2>3. QED
    BY <1>3, <1>7, <2>1, <2>2, SeqEqual
<1>9. Flat(longer) = Flat(p) \o Pairs(new.scope, new.records)
  BY <1>6, <1>8, FlatAppend
<1>10. Flat(d) = Flat(p) \o Pairs(last.scope, last.records)
  BY <1>2, <1>3, FlatAppend
<1>11. Pairs(new.scope, new.records) = Pairs(last.scope, last.records) \o << <<last.scope, x>> >>
  <2>1. Pairs(last.scope, last.records \o <<x>>) = Pairs(last.scope, last.records) \o Pairs(last.scope, <<x>>)
    BY <1>4, <1>5, PairsConcat
  <2>2. Pairs(last.scope, <<x>>) = << <<last.scope, x>> >>
    BY DEF Pairs
  <2>3. QED
    BY <1>6, <2>1, <2>2
<1>12. Flat(longer) = Flat(d) \o << <<last.scope, x>> >>
  <2> DEFINE a == Flat(p)
             b == Pairs(last.scope, last.records)
             c == << <<last.scope, x>> >>
  <2>1. a \in Seq(Pair) /\ b \in Seq(Pair) /\ c \in Seq(Pair)
    BY <1>4, FlatType, PairsType DEF Pair
  <2> HIDE DEF a, b, c
  <2>2. (a \o b) \o c = a \o (b \o c)
    BY <2>1, ConcatAssociative
  <2>3. QED
    BY <1>9, <1>10, <1>11, <2>2 DEF a, b, c
<1>13. longer # <<>> /\ Len(d) \in 1 .. Len(d) /\ longer[Len(d)] = new
  <2>1. Len(d) \in 1 .. Len(d) /\ Len(d) # 0
    BY <1>3
  <2>2. QED
    BY <1>7, <2>1, EmptySeq
<1>14. longer = [d EXCEPT ![Len(d)].records = Append(@, x)]
  BY DEF longer, new, last
<1>15. QED
  BY <1>4, <1>6, <1>7, <1>12, <1>13, <1>14 DEF last

\* A sequence cut in two.
LEMMA CutInTwo ==
  ASSUME NEW S, NEW a \in Seq(S), NEW b \in Seq(S)
  PROVE  /\ SubSeq(a \o b, 1, Len(a)) = a
         /\ SubSeq(a \o b, Len(a) + 1, Len(a \o b)) = b
<1> DEFINE c == a \o b
           n == Len(a)
           m == Len(b)
<1>1. /\ c \in Seq(S) /\ n \in Nat /\ m \in Nat /\ Len(c) = n + m
      /\ \A i \in 1 .. n + m : c[i] = IF i <= n THEN a[i] ELSE b[i - n]
  BY ConcatProperties, LenProperties
<1> HIDE DEF c, n, m
<1>2. \A i \in 1 .. n + m : c[i] \in S
  BY <1>1, ElementOfSeq
<1>3. SubSeq(c, 1, n) = a
  <2> DEFINE s == SubSeq(c, 1, n)
  <2>1. 1 \in Int /\ n \in Int /\ \A i \in 1 .. n : c[i] \in S
    BY <1>1, <1>2
  <2>2. s \in Seq(S) /\ Len(s) = (IF 1 <= n THEN n - 1 + 1 ELSE 0) /\ \A i \in 1 .. n - 1 + 1 : s[i] = c[1 + i - 1]
    BY <2>1, SubSeqProperties
  <2> HIDE DEF s
  <2>3. Len(s) = n
    BY <1>1, <2>2
  <2>4. \A i \in 1 .. n : s[i] = a[i]
    <3>1. \A i \in 1 .. n : i \in 1 .. n - 1 + 1 /\ i \in 1 .. n + m /\ i <= n /\ 1 + i - 1 = i
      BY <1>1
    <3>2. QED
      BY <1>1, <2>2, <3>1
  <2>5. s = a
    BY <2>2, <2>3, <2>4, SeqEqual DEF n
  <2>6. QED
    BY <2>5 DEF s
<1>4. SubSeq(c, n + 1, n + m) = b
  <2> DEFINE s == SubSeq(c, n + 1, n + m)
  <2>1. n + 1 \in Int /\ n + m \in Int /\ \A i \in n + 1 .. n + m : c[i] \in S
    BY <1>1, <1>2
  <2>2. /\ s \in Seq(S) /\ Len(s) = (IF n + 1 <= n + m THEN (n + m) - (n + 1) + 1 ELSE 0)
        /\ \A i \in 1 .. (n + m) - (n + 1) + 1 : s[i] = c[(n + 1) + i - 1]
    BY <2>1, SubSeqProperties
  <2> HIDE DEF s
  <2>3. Len(s) = m
    BY <1>1, <2>2
  <2>4. \A i \in 1 .. m : s[i] = b[i]
    <3>1. \A i \in 1 .. m : /\ i \in 1 .. (n + m) - (n + 1) + 1
                            /\ n + i \in 1 .. n + m /\ ~(n + i <= n) /\ (n + i) - n = i
                            /\ (n + 1) + i - 1 = n + i
      BY <1>1
    <3>2. QED
      BY <1>1, <2>2, <3>1
  <2>5. s = b
    BY <2>2, <2>3, <2>4, SeqEqual DEF m
  <2>6. QED
    BY <2>5 DEF s
<1>5. QED
  BY <1>1, <1>3, <1>4 DEF c, n, m

\* Which of two joins comes first does not matter.
LEMMA Associative == \A S : \A x, y, z \in Seq(S) : (x \o y) \o z = x \o (y \o z)
BY ConcatAssociative

\* A scope is kept: it joins what stays.
LEMMA RegroupKept ==
  ASSUME NEW S, NEW a \in Seq(S), NEW k \in Seq(S), NEW h \in Seq(S), NEW t \in Seq(S)
  PROVE  (a \o k) \o (h \o t) = (a \o (k \o h)) \o t
<1>1. k \o h \in Seq(S) /\ h \o t \in Seq(S)
  BY ConcatProperties
<1>2. (a \o k) \o (h \o t) = a \o (k \o (h \o t))
  <2> DEFINE ht == h \o t
  <2>1. ht \in Seq(S)
    BY <1>1
  <2> HIDE DEF ht
  <2>2. (a \o k) \o ht = a \o (k \o ht)
    BY <2>1, Associative, SMTT(60)
  <2>3. QED
    BY <2>2 DEF ht
<1>3. k \o (h \o t) = (k \o h) \o t
  BY Associative, SMTT(60)
<1>4. (a \o (k \o h)) \o t = a \o ((k \o h) \o t)
  <2> DEFINE kh == k \o h
  <2>1. kh \in Seq(S)
    BY <1>1
  <2> HIDE DEF kh
  <2>2. (a \o kh) \o t = a \o (kh \o t)
    BY <2>1, Associative, SMTT(60)
  <2>3. QED
    BY <2>2 DEF kh
<1>5. QED
  BY <1>2, <1>3, <1>4

\* A scope is moved: it joins what moved.
LEMMA RegroupMoved ==
  ASSUME NEW S, NEW a \in Seq(S), NEW h \in Seq(S), NEW t \in Seq(S)
  PROVE  (a \o <<>>) \o (h \o t) = ((a \o h) \o <<>>) \o t
<1>1. a \o <<>> = a /\ (a \o h) \o <<>> = a \o h
  BY ConcatProperties, ConcatEmptySeq
<1>2. a \o (h \o t) = (a \o h) \o t
  BY Associative, SMTT(60)
<1>3. QED
  BY <1>1, <1>2

\* A scope is cut: its records are still to be visited.
LEMMA RegroupCut ==
  ASSUME NEW S, NEW a \in Seq(S), NEW h \in Seq(S), NEW t \in Seq(S)
  PROVE  (a \o <<>>) \o (h \o t) = (a \o (<<>> \o h)) \o t
<1>1. a \o <<>> = a /\ <<>> \o h = h
  BY ConcatEmptySeq
<1>2. a \o (h \o t) = (a \o h) \o t
  BY Associative, SMTT(60)
<1>3. QED
  BY <1>1, <1>2

\* A record is moved: it joins what moved.
LEMMA RegroupRecordMoved ==
  ASSUME NEW S, NEW a \in Seq(S), NEW h \in Seq(S), NEW c \in Seq(S), NEW t \in Seq(S)
  PROVE  (a \o (<<>> \o (h \o c))) \o t = ((a \o h) \o (<<>> \o c)) \o t
<1>1. h \o c \in Seq(S)
  BY ConcatProperties
<1>2. <<>> \o (h \o c) = h \o c /\ <<>> \o c = c
  BY <1>1, ConcatEmptySeq
<1>3. a \o (h \o c) = (a \o h) \o c
  BY Associative, SMTT(60)
<1>4. QED
  BY <1>2, <1>3

\* The first scope, and the others.
LEMMA ScopesHead ==
  ASSUME NEW rl \in Seq(ScopeLogs), rl # <<>>
  PROVE  LET h == Head(rl)
         IN  /\ h \in ScopeLogs /\ h.scope \in Scope /\ h.records \in Seq(LogRecord)
             /\ Len(h.records) \in Nat
             /\ \E j \in DOMAIN rl : rl[j] = h
             /\ Tail(rl) \in Seq(ScopeLogs)
             /\ \A i \in DOMAIN Tail(rl) : \E j \in DOMAIN rl : rl[j] = Tail(rl)[i]
             /\ Flat(rl) = Pairs(h.scope, h.records) \o Flat(Tail(rl))
<1> DEFINE h == Head(rl)
           t == Tail(rl)
<1>1. /\ h \in ScopeLogs /\ t \in Seq(ScopeLogs) /\ Len(t) = Len(rl) - 1
      /\ \A i \in 1 .. Len(t) : t[i] = rl[i + 1]
  BY HeadTailProperties
<1>2. Len(rl) \in Nat /\ Len(rl) # 0 /\ DOMAIN rl = 1 .. Len(rl) /\ DOMAIN t = 1 .. Len(t)
  BY <1>1, LenProperties, EmptySeq
<1>3. h = rl[1] /\ 1 \in DOMAIN rl
  BY <1>2
<1> HIDE DEF h, t
<1>4. \A i \in DOMAIN t : \E j \in DOMAIN rl : rl[j] = t[i]
  <2>1. \A i \in 1 .. Len(t) : i + 1 \in 1 .. Len(rl)
    BY <1>1, <1>2
  <2>2. QED
    BY <1>1, <1>2, <2>1
<1>5. h.scope \in Scope /\ h.records \in Seq(LogRecord) /\ Len(h.records) \in Nat
  <2>1. h.scope \in Scope /\ h.records \in Seq(LogRecord)
    BY <1>1 DEF ScopeLogs
  <2>2. QED
    BY <2>1, LenProperties
<1>6. rl = <<h>> \o t
  <2>1. <<h>> \in Seq(ScopeLogs) /\ Len(<<h>>) = 1 /\ <<h>>[1] = h
    BY <1>1
  <2>2. /\ <<h>> \o t \in Seq(ScopeLogs) /\ Len(<<h>> \o t) = Len(<<h>>) + Len(t)
        /\ \A i \in 1 .. Len(<<h>>) + Len(t) : (<<h>> \o t)[i] = IF i <= Len(<<h>>) THEN <<h>>[i] ELSE t[i - Len(<<h>>)]
    BY <1>1, <2>1, ConcatProperties
  <2>3. Len(<<h>> \o t) = Len(rl)
    BY <1>1, <1>2, <2>1, <2>2
  <2>4. \A i \in 1 .. Len(rl) : (<<h>> \o t)[i] = rl[i]
    <3>1. \A i \in 1 .. Len(rl) : i = 1 \/ (~(i <= 1) /\ i - 1 \in 1 .. Len(t) /\ (i - 1) + 1 = i)
      BY <1>1, <1>2
    <3>2. 1 <= 1 /\ Len(<<h>>) + Len(t) = Len(rl)
      BY <1>1, <1>2, <2>1
    <3>3. QED
      BY <1>1, <1>3, <2>1, <2>2, <3>1, <3>2
  <2>5. QED
    BY <2>2, <2>3, <2>4, SeqEqual
<1>7. Flat(rl) = Flat(<<h>>) \o Flat(t) /\ Flat(<<h>>) = Pairs(h.scope, h.records)
  <2>1. <<h>> \in Seq(ScopeLogs)
    BY <1>1
  <2>2. Flat(<<h>> \o t) = Flat(<<h>>) \o Flat(t)
    BY <1>1, <2>1, FlatConcat
  <2>3. QED
    BY <1>1, <1>6, <2>2, FlatOne
<1>8. QED
  BY <1>1, <1>3, <1>4, <1>5, <1>7 DEF h, t

\* An entry of one scope.
LEMMA FlatOfOne ==
  ASSUME NEW rl \in Seq(ScopeLogs), Len(rl) = 1
  PROVE  rl = <<rl[1]>> /\ rl[1] \in ScopeLogs /\ Flat(rl) = Pairs(rl[1].scope, rl[1].records)
<1>1. rl[1] \in ScopeLogs
  BY ElementOfSeq
<1>2. <<rl[1]>> \in Seq(ScopeLogs) /\ Len(<<rl[1]>>) = 1 /\ \A i \in 1 .. 1 : <<rl[1]>>[i] = rl[i]
  BY <1>1
<1>3. rl = <<rl[1]>>
  BY <1>2, SeqEqual
<1>4. QED
  BY <1>1, <1>3, FlatOne

\* A scope without its records, and with others.
LEMMA WithRecords ==
  ASSUME NEW s \in ScopeLogs, NEW rs \in Seq(LogRecord)
  PROVE  LET new == [s EXCEPT !.records = rs]
         IN  new \in ScopeLogs /\ new.scope = s.scope /\ new.records = rs
BY DEF ScopeLogs

\* The only scope of an entry gets other records.
LEMMA OnlyScopeReplaced ==
  ASSUME NEW rl \in Seq(ScopeLogs), Len(rl) = 1, NEW rs \in Seq(LogRecord)
  PROVE  LET new == [rl EXCEPT ![Len(rl)].records = rs]
         IN  /\ new \in Seq(ScopeLogs) /\ Len(new) = 1 /\ new[1].records = rs
             /\ Flat(new) = Pairs(rl[1].scope, rs)
<1> DEFINE s == [rl[1] EXCEPT !.records = rs]
           new == [rl EXCEPT ![1] = s]
<1>1. rl[1] \in ScopeLogs
  BY FlatOfOne
<1>2. s \in ScopeLogs /\ s.scope = rl[1].scope /\ s.records = rs
  BY <1>1, WithRecords
<1>3. new = [rl EXCEPT ![Len(rl)].records = rs]
  OBVIOUS
<1> HIDE DEF s
<1>4. new \in Seq(ScopeLogs) /\ Len(new) = 1 /\ new[1] = s
  BY <1>2, ExceptSeq
<1> HIDE DEF new
<1>5. Flat(new) = Pairs(s.scope, s.records)
  BY <1>4, FlatOfOne
<1>6. QED
  BY <1>2, <1>3, <1>4, <1>5
----------------------------------------------------------------------------
(* SplitInv is inductive.                                                  *)

\* When splitLogs is called all of the source is still to be visited.
LEMMA InitSplit == Init => SplitTypes /\ SplitInv
<1> SUFFICES ASSUME Init PROVE SplitTypes /\ SplitInv
  OBVIOUS
<1>1. srcRl \in Seq(ScopeLogs) /\ size \in Nat \ {0}
  BY SplitAssumption DEF Init
<1>2. SplitTypes
  BY <1>1, EmptySeq DEF Init, SplitTypes
<1>3. Flat(<<>>) = <<>> /\ Len(<<>>) = 0 /\ DOMAIN <<>> = {}
  BY FlatEmpty
<1>4. Flat(<<>>) \o Flat(<<>>) \o Flat(srcRl) = Flat(srcRl)
  <2>1. Flat(srcRl) \in Seq(Pair) /\ <<>> \in Seq(Pair)
    BY <1>1, FlatType, EmptySeq
  <2>2. <<>> \o <<>> = <<>> /\ <<>> \o Flat(srcRl) = Flat(srcRl)
    BY <2>1, ConcatEmptySeq
  <2>3. QED
    BY <1>3, <2>2
<1>5. PlaceInv
  BY <1>3, <1>4 DEF Init, PlaceInv
<1>6. CutInv
  BY DEF Init, CutInv
<1>7. copied = Len(Flat(destRl)) /\ copied <= size
  BY <1>1, <1>3 DEF Init
<1>8. \A i \in DOMAIN scopes : \E j \in DOMAIN srcRl : srcRl[j] = scopes[i]
  BY DEF Init
<1>9. QED
  BY <1>2, <1>5, <1>6, <1>7, <1>8 DEF Init, SplitInv

\* A source that is short enough is returned as it is: nothing changes.
LEMMA KeptByReturnSource ==
  ASSUME SplitTypes, SplitInv, ReturnSource
  PROVE  SplitTypes' /\ SplitInv'
<1>1. /\ pc = "call" /\ pc' = "source" /\ resourceLRC(srcRl) <= size
      /\ UNCHANGED <<srcRl, size, scopes, records, kept, keptRecords, destRl, copied>>
  BY DEF ReturnSource
<1>2. SplitTypes'
  BY <1>1 DEF SplitTypes
<1>3. PlaceInv' /\ CutInv'
  BY <1>1 DEF SplitInv, PlaceInv, CutInv, Done
<1>4. QED
  BY <1>1, <1>2, <1>3 DEF SplitInv

\* The callback on scopes is about to run: nothing has changed yet.
LEMMA KeptBySplit ==
  ASSUME SplitTypes, SplitInv, Split
  PROVE  SplitTypes' /\ SplitInv'
<1>1. pc = "call" /\ pc' = "scope" /\ UNCHANGED <<srcRl, size, scopes, records, kept, keptRecords, destRl, copied>>
  BY DEF Split
<1>2. SplitTypes'
  BY <1>1 DEF SplitTypes
<1>3. PlaceInv' /\ CutInv'
  BY <1>1 DEF SplitInv, PlaceInv, CutInv, Done
<1>4. QED
  BY <1>1, <1>2, <1>3 DEF SplitInv

\* The next scope leaves the scopes to visit: it is one of the source.
LEMMA NextScopeTaken ==
  ASSUME SplitTypes, SplitInv, NextScope
  PROVE  LET h == Head(scopes)
         IN  /\ h \in ScopeLogs /\ h.scope \in Scope /\ h.records \in Seq(LogRecord)
             /\ Len(h.records) \in Nat
             /\ \E j \in DOMAIN srcRl : srcRl[j] = h
             /\ scopes' \in Seq(ScopeLogs)
             /\ \A i \in DOMAIN scopes' : \E j \in DOMAIN srcRl : srcRl[j] = scopes'[i]
             /\ Flat(scopes) = Pairs(h.scope, h.records) \o Flat(scopes')
             /\ Flat(destRl) \in Seq(Pair) /\ Flat(kept) \in Seq(Pair) /\ Flat(scopes') \in Seq(Pair)
             /\ Pairs(h.scope, h.records) \in Seq(Pair) /\ Len(Pairs(h.scope, h.records)) = Len(h.records)
             /\ Flat(destRl) \o Flat(kept) \o Flat(scopes) = Flat(srcRl)
             /\ ~Done => kept = <<>>
             /\ pc = "scope"
<1> DEFINE h == Head(scopes)
<1>1. /\ pc = "scope" /\ scopes # <<>> /\ scopes' = Tail(scopes) /\ scopes \in Seq(ScopeLogs)
      /\ destRl \in Seq(ScopeLogs) /\ kept \in Seq(ScopeLogs)
  BY DEF NextScope, SplitTypes
<1>2. /\ h \in ScopeLogs /\ h.scope \in Scope /\ h.records \in Seq(LogRecord)
      /\ Len(h.records) \in Nat
      /\ \E j \in DOMAIN scopes : scopes[j] = h
      /\ scopes' \in Seq(ScopeLogs)
      /\ \A i \in DOMAIN scopes' : \E j \in DOMAIN scopes : scopes[j] = scopes'[i]
      /\ Flat(scopes) = Pairs(h.scope, h.records) \o Flat(scopes')
  <2>1. /\ h \in ScopeLogs /\ h.scope \in Scope /\ h.records \in Seq(LogRecord)
        /\ Len(h.records) \in Nat
        /\ \E j \in DOMAIN scopes : scopes[j] = h
        /\ Tail(scopes) \in Seq(ScopeLogs)
        /\ \A i \in DOMAIN Tail(scopes) : \E j \in DOMAIN scopes : scopes[j] = Tail(scopes)[i]
        /\ Flat(scopes) = Pairs(h.scope, h.records) \o Flat(Tail(scopes))
    BY <1>1, ScopesHead
  <2>2. QED
    BY <1>1, <2>1
<1> HIDE DEF h
<1>3. \A i \in DOMAIN scopes : \E j \in DOMAIN srcRl : srcRl[j] = scopes[i]
  BY DEF SplitInv
<1>4. \E j \in DOMAIN srcRl : srcRl[j] = h
  BY <1>2, <1>3
<1>5. \A i \in DOMAIN scopes' : \E j \in DOMAIN srcRl : srcRl[j] = scopes'[i]
  BY <1>2, <1>3
<1>6. Flat(destRl) \in Seq(Pair) /\ Flat(kept) \in Seq(Pair) /\ Flat(scopes') \in Seq(Pair)
  BY <1>1, <1>2, FlatType
<1>7. Pairs(h.scope, h.records) \in Seq(Pair) /\ Len(Pairs(h.scope, h.records)) = Len(h.records)
  BY <1>2, PairsType
<1>8. (Flat(destRl) \o Flat(kept) \o Flat(scopes) = Flat(srcRl)) /\ (~Done => kept = <<>>)
  BY <1>1 DEF SplitInv, PlaceInv
<1>9. QED
  BY <1>1, <1>2, <1>4, <1>5, <1>6, <1>7, <1>8 DEF h

\* The result is complete: the scope is kept behind the others that stay.
LEMMA KeptByKeepScope ==
  ASSUME SplitTypes, SplitInv, KeepScope
  PROVE  SplitTypes' /\ SplitInv'
<1> DEFINE h == Head(scopes)
<1>1. /\ Done /\ kept' = Append(kept, h)
      /\ UNCHANGED <<srcRl, size, records, keptRecords, destRl, copied, pc>>
  BY DEF KeepScope
<1>2. /\ h \in ScopeLogs /\ h.scope \in Scope /\ h.records \in Seq(LogRecord)
      /\ \E j \in DOMAIN srcRl : srcRl[j] = h
      /\ scopes' \in Seq(ScopeLogs)
      /\ \A i \in DOMAIN scopes' : \E j \in DOMAIN srcRl : srcRl[j] = scopes'[i]
      /\ Flat(scopes) = Pairs(h.scope, h.records) \o Flat(scopes')
      /\ Flat(destRl) \in Seq(Pair) /\ Flat(kept) \in Seq(Pair) /\ Flat(scopes') \in Seq(Pair)
      /\ Pairs(h.scope, h.records) \in Seq(Pair)
      /\ Flat(destRl) \o Flat(kept) \o Flat(scopes) = Flat(srcRl)
      /\ pc = "scope"
  BY NextScopeTaken DEF KeepScope
<1> HIDE DEF h
<1>3. /\ kept \in Seq(ScopeLogs) /\ kept' \in Seq(ScopeLogs) /\ Len(kept') = Len(kept) + 1 /\ Len(kept) \in Nat
      /\ \A i \in 1 .. Len(kept) : kept'[i] = kept[i]
      /\ kept'[Len(kept) + 1] = h
      /\ DOMAIN kept' = 1 .. Len(kept') /\ DOMAIN kept = 1 .. Len(kept)
  <2>1. kept \in Seq(ScopeLogs)
    BY DEF SplitTypes
  <2>2. kept' \in Seq(ScopeLogs)
    BY <1>1, <1>2, <2>1, AppendProperties
  <2>3. QED
    BY <1>1, <1>2, <2>1, <2>2, AppendProperties, LenProperties
<1>4. SplitTypes'
  BY <1>1, <1>2, <1>3 DEF SplitTypes
<1>5. Flat(kept') = Flat(kept) \o Pairs(h.scope, h.records)
  BY <1>1, <1>2, <1>3, FlatAppend
<1>6. Flat(destRl) \o Flat(kept') \o Flat(scopes') = Flat(srcRl)
  <2> DEFINE a == Flat(destRl)
             k == Flat(kept)
             p == Pairs(h.scope, h.records)
             t == Flat(scopes')
  <2>1. a \in Seq(Pair) /\ k \in Seq(Pair) /\ p \in Seq(Pair) /\ t \in Seq(Pair)
    BY <1>2
  <2>2. Flat(srcRl) = (a \o k) \o (p \o t) /\ Flat(kept') = k \o p
    BY <1>2, <1>5
  <2> HIDE DEF a, k, p, t
  <2>3. (a \o k) \o (p \o t) = (a \o (k \o p)) \o t
    BY <2>1, RegroupKept, SMTT(60)
  <2>4. QED
    BY <2>2, <2>3 DEF a, t
<1>7. \A i \in DOMAIN kept' : kept'[i].records = <<>> => \E j \in DOMAIN srcRl : srcRl[j] = kept'[i]
  <2>1. \A i \in DOMAIN kept : kept[i].records = <<>> => \E j \in DOMAIN srcRl : srcRl[j] = kept[i]
    BY <1>2 DEF SplitInv, PlaceInv
  <2>2. \A i \in DOMAIN kept' : (i \in DOMAIN kept /\ kept'[i] = kept[i]) \/ kept'[i] = h
    BY <1>3
  <2>3. QED
    BY <1>2, <2>1, <2>2
<1>8. PlaceInv'
  BY <1>1, <1>2, <1>6, <1>7 DEF PlaceInv, Done
<1>9. CutInv'
  BY <1>1, <1>2 DEF CutInv
<1>10. QED
  BY <1>1, <1>2, <1>4, <1>8, <1>9 DEF SplitInv

\* The scope fits: all its records move behind those of the result.
LEMMA KeptByMoveScope ==
  ASSUME SplitTypes, SplitInv, MoveScope
  PROVE  SplitTypes' /\ SplitInv'
<1> DEFINE h == Head(scopes)
<1>1. /\ ~Done /\ Fits(h) /\ destRl' = Append(destRl, h) /\ copied' = copied + Len(h.records)
      /\ UNCHANGED <<srcRl, size, records, kept, keptRecords, pc>>
  BY DEF MoveScope
<1>2. /\ h \in ScopeLogs /\ h.scope \in Scope /\ h.records \in Seq(LogRecord) /\ Len(h.records) \in Nat
      /\ scopes' \in Seq(ScopeLogs)
      /\ \A i \in DOMAIN scopes' : \E j \in DOMAIN srcRl : srcRl[j] = scopes'[i]
      /\ Flat(scopes) = Pairs(h.scope, h.records) \o Flat(scopes')
      /\ Flat(destRl) \in Seq(Pair) /\ Flat(scopes') \in Seq(Pair)
      /\ Pairs(h.scope, h.records) \in Seq(Pair) /\ Len(Pairs(h.scope, h.records)) = Len(h.records)
      /\ Flat(destRl) \o Flat(kept) \o Flat(scopes) = Flat(srcRl)
      /\ kept = <<>>
      /\ pc = "scope"
  BY <1>1, NextScopeTaken DEF MoveScope
<1>3. /\ size \in Nat /\ copied \in Nat /\ destRl \in Seq(ScopeLogs)
      /\ copied = Len(Flat(destRl)) /\ copied + Len(h.records) <= size
  <2>1. size \in Nat /\ copied \in Nat /\ destRl \in Seq(ScopeLogs) /\ copied = Len(Flat(destRl))
    BY DEF SplitTypes, SplitInv
  <2>2. size >= Len(h.records) + copied
    BY <1>1
  <2>3. QED
    BY <1>2, <2>1, <2>2
<1> HIDE DEF h
<1>4. destRl' \in Seq(ScopeLogs)
  BY <1>1, <1>2, <1>3, AppendProperties
<1>5. SplitTypes'
  BY <1>1, <1>2, <1>3, <1>4 DEF SplitTypes
<1>6. Flat(destRl') = Flat(destRl) \o Pairs(h.scope, h.records)
  BY <1>1, <1>2, <1>3, FlatAppend
<1>7. copied' = Len(Flat(destRl')) /\ copied' <= size'
  <2>1. Len(Flat(destRl) \o Pairs(h.scope, h.records)) = Len(Flat(destRl)) + Len(Pairs(h.scope, h.records))
    BY <1>2, ConcatProperties
  <2>2. QED
    BY <1>1, <1>2, <1>3, <1>6, <2>1
<1>8. Flat(destRl') \o Flat(<<>>) \o Flat(scopes') = Flat(srcRl)
  <2> DEFINE a == Flat(destRl)
             p == Pairs(h.scope, h.records)
             t == Flat(scopes')
  <2>1. a \in Seq(Pair) /\ p \in Seq(Pair) /\ t \in Seq(Pair)
    BY <1>2
  <2>2. Flat(srcRl) = (a \o <<>>) \o (p \o t) /\ Flat(destRl') = a \o p /\ Flat(<<>>) = <<>>
    BY <1>2, <1>6, FlatEmpty
  <2> HIDE DEF a, p, t
  <2>3. (a \o <<>>) \o (p \o t) = ((a \o p) \o <<>>) \o t
    BY <2>1, RegroupMoved
  <2>4. QED
    BY <2>2, <2>3 DEF a, t
<1>9. PlaceInv'
  <2>1. kept' = <<>> /\ Flat(kept') = Flat(<<>>)
    BY <1>1, <1>2
  <2>2. DOMAIN kept' = {}
    BY <2>1
  <2>3. QED
    BY <1>1, <1>8, <2>1, <2>2 DEF PlaceInv
<1>10. CutInv'
  BY <1>1, <1>2 DEF CutInv
<1>11. QED
  BY <1>1, <1>2, <1>5, <1>7, <1>9, <1>10 DEF SplitInv

\* The scope does not fit: it has more records than there is room for, and stays, empty
\* for now, as the only scope that does.
LEMMA KeptByCutScope ==
  ASSUME SplitTypes, SplitInv, CutScope
  PROVE  SplitTypes' /\ SplitInv'
<1> DEFINE h == Head(scopes)
           h0 == [h EXCEPT !.records = <<>>]
<1>1. /\ ~Done /\ ~Fits(h) /\ destRl' = Append(destRl, h0) /\ kept' = Append(kept, h0)
      /\ records' = h.records /\ keptRecords' = <<>> /\ pc' = "record"
      /\ UNCHANGED <<srcRl, size, copied>>
  BY DEF CutScope
<1>2. /\ h \in ScopeLogs /\ h.scope \in Scope /\ h.records \in Seq(LogRecord) /\ Len(h.records) \in Nat
      /\ scopes' \in Seq(ScopeLogs)
      /\ \A i \in DOMAIN scopes' : \E j \in DOMAIN srcRl : srcRl[j] = scopes'[i]
      /\ Flat(scopes) = Pairs(h.scope, h.records) \o Flat(scopes')
      /\ Flat(destRl) \in Seq(Pair) /\ Flat(scopes') \in Seq(Pair)
      /\ Pairs(h.scope, h.records) \in Seq(Pair)
      /\ Flat(destRl) \o Flat(kept) \o Flat(scopes) = Flat(srcRl)
      /\ kept = <<>>
  BY <1>1, NextScopeTaken DEF CutScope
<1>3. h0 \in ScopeLogs /\ h0.scope = h.scope /\ h0.records = <<>> /\ <<>> \in Seq(LogRecord)
  <2>1. <<>> \in Seq(LogRecord)
    BY EmptySeq
  <2>2. QED
    BY <1>2, <2>1, WithRecords
<1>4. /\ size \in Nat /\ copied \in Nat /\ destRl \in Seq(ScopeLogs)
      /\ copied = Len(Flat(destRl)) /\ copied <= size /\ copied + 0 + Len(h.records) > size
  <2>1. size \in Nat /\ copied \in Nat /\ destRl \in Seq(ScopeLogs) /\ copied = Len(Flat(destRl)) /\ copied <= size
    BY DEF SplitTypes, SplitInv
  <2>2. ~(size >= Len(h.records) + copied)
    BY <1>1
  <2>3. QED
    BY <1>2, <2>1, <2>2
<1> HIDE DEF h, h0
<1>5. kept' = <<h0>> /\ kept' \in Seq(ScopeLogs) /\ Len(kept') = 1 /\ kept'[1] = h0
  BY <1>1, <1>2, <1>3
<1>6. /\ destRl' \in Seq(ScopeLogs) /\ Len(destRl') = Len(destRl) + 1 /\ destRl'[Len(destRl')] = h0
      /\ destRl' # <<>>
  <2>1. /\ destRl' \in Seq(ScopeLogs) /\ Len(destRl') = Len(destRl) + 1
        /\ destRl'[Len(destRl) + 1] = h0
    BY <1>1, <1>3, <1>4, AppendProperties
  <2>2. Len(destRl) \in Nat
    BY <1>4, LenProperties
  <2>3. Len(destRl') # 0
    BY <2>1, <2>2
  <2>4. QED
    BY <2>1, <2>3, EmptySeq
<1>7. SplitTypes'
  BY <1>1, <1>2, <1>3, <1>4, <1>5, <1>6 DEF SplitTypes
<1>8. Flat(destRl') = Flat(destRl)
  <2>1. Flat(Append(destRl, h0)) = Flat(destRl) \o Pairs(h0.scope, h0.records)
    BY <1>3, <1>4, FlatAppend
  <2>2. Pairs(h0.scope, h0.records) = <<>>
    BY <1>3, PairsEmpty
  <2>3. Flat(destRl) \o <<>> = Flat(destRl)
    BY <1>2, ConcatEmptySeq
  <2>4. QED
    BY <1>1, <2>1, <2>2, <2>3
<1>9. Flat(destRl') \o (Pairs(h.scope, <<>>) \o Pairs(h.scope, h.records)) \o Flat(scopes') = Flat(srcRl)
  <2> DEFINE a == Flat(destRl)
             p == Pairs(h.scope, h.records)
             t == Flat(scopes')
  <2>1. a \in Seq(Pair) /\ p \in Seq(Pair) /\ t \in Seq(Pair)
    BY <1>2
  <2>2. Flat(srcRl) = (a \o <<>>) \o (p \o t) /\ Pairs(h.scope, <<>>) = <<>>
    BY <1>2, FlatEmpty, PairsEmpty
  <2> HIDE DEF a, p, t
  <2>3. (a \o <<>>) \o (p \o t) = (a \o (<<>> \o p)) \o t
    BY <2>1, RegroupCut
  <2>4. QED
    BY <1>8, <2>2, <2>3 DEF a, p, t
<1>10. CutInv'
  <2>1. kept'[1].scope = h.scope /\ kept'[1].records = <<>> /\ destRl'[Len(destRl')].scope = h.scope
    BY <1>3, <1>5, <1>6
  <2>2. Len(<<>>) = 0
    OBVIOUS
  <2>3. copied' + Len(keptRecords') + Len(records') > size'
    BY <1>1, <1>4, <2>2
  <2>4. QED
    BY <1>1, <1>5, <1>6, <1>9, <2>1, <2>3 DEF CutInv
<1>11. PlaceInv'
  BY <1>1 DEF PlaceInv
<1>12. copied' = Len(Flat(destRl')) /\ copied' <= size'
  BY <1>1, <1>4, <1>8
<1>13. QED
  BY <1>1, <1>2, <1>7, <1>10, <1>11, <1>12 DEF SplitInv

\* The records of the scope being moved, as the invariant has them.
LEMMA RecordsInPlace ==
  ASSUME SplitTypes, SplitInv, pc = "record"
  PROVE  /\ Len(kept) = 1 /\ kept \in Seq(ScopeLogs) /\ kept[1].records = <<>> /\ kept[1].scope \in Scope
         /\ destRl \in Seq(ScopeLogs) /\ destRl # <<>> /\ destRl[Len(destRl)].scope = kept[1].scope
         /\ Flat(destRl) \in Seq(Pair) /\ Flat(scopes) \in Seq(Pair)
         /\ Pairs(kept[1].scope, keptRecords) \in Seq(Pair)
         /\ Flat(destRl) \o (Pairs(kept[1].scope, keptRecords) \o Pairs(kept[1].scope, records)) \o Flat(scopes)
              = Flat(srcRl)
         /\ size \in Nat /\ copied \in Nat /\ Len(keptRecords) \in Nat /\ Len(records) \in Nat
         /\ copied = Len(Flat(destRl)) /\ copied <= size
         /\ copied + Len(keptRecords) + Len(records) > size
         /\ ~Done => keptRecords = <<>>
<1>1. /\ Len(kept) = 1 /\ kept[1].records = <<>>
      /\ destRl # <<>> /\ destRl[Len(destRl)].scope = kept[1].scope
      /\ Flat(destRl) \o (Pairs(kept[1].scope, keptRecords) \o Pairs(kept[1].scope, records)) \o Flat(scopes)
           = Flat(srcRl)
      /\ copied + Len(keptRecords) + Len(records) > size
      /\ ~Done => keptRecords = <<>>
  BY DEF SplitInv, CutInv
<1>2. /\ kept \in Seq(ScopeLogs) /\ destRl \in Seq(ScopeLogs) /\ scopes \in Seq(ScopeLogs)
      /\ records \in Seq(LogRecord) /\ keptRecords \in Seq(LogRecord)
      /\ size \in Nat /\ copied \in Nat /\ copied = Len(Flat(destRl)) /\ copied <= size
  BY DEF SplitTypes, SplitInv
<1>3. Len(keptRecords) \in Nat /\ Len(records) \in Nat
  BY <1>2, LenProperties
<1>4. Flat(destRl) \in Seq(Pair) /\ Flat(scopes) \in Seq(Pair)
  BY <1>2, FlatType
<1>5. kept[1].scope \in Scope
  <2>1. kept[1] \in ScopeLogs
    BY <1>1, <1>2, FlatOfOne
  <2>2. QED
    BY <2>1 DEF ScopeLogs
<1>6. Pairs(kept[1].scope, keptRecords) \in Seq(Pair)
  BY <1>2, <1>5, PairsType
<1>7. QED
  BY <1>1, <1>2, <1>3, <1>4, <1>5, <1>6

\* There is room: the record moves behind those of the result, under the same scope.
LEMMA KeptByMoveRecord ==
  ASSUME SplitTypes, SplitInv, MoveRecord
  PROVE  SplitTypes' /\ SplitInv'
<1> DEFINE s == kept[1].scope
           x == Head(records)
<1>1. /\ pc = "record" /\ records # <<>> /\ records' = Tail(records) /\ ~Done
      /\ destRl' = [destRl EXCEPT ![Len(destRl)].records = Append(@, x)] /\ copied' = copied + 1
      /\ UNCHANGED <<srcRl, size, scopes, kept, keptRecords, pc>>
  BY DEF MoveRecord, NextRecord
<1>2. /\ Len(kept) = 1 /\ kept[1].records = <<>> /\ s \in Scope
      /\ destRl \in Seq(ScopeLogs) /\ destRl # <<>> /\ destRl[Len(destRl)].scope = s
      /\ Flat(destRl) \in Seq(Pair) /\ Flat(scopes) \in Seq(Pair)
      /\ Flat(destRl) \o (Pairs(s, keptRecords) \o Pairs(s, records)) \o Flat(scopes) = Flat(srcRl)
      /\ size \in Nat /\ copied \in Nat /\ Len(records) \in Nat
      /\ copied = Len(Flat(destRl)) /\ copied <= size
      /\ copied + Len(keptRecords) + Len(records) > size
      /\ keptRecords = <<>>
  BY <1>1, RecordsInPlace
<1>3. /\ Pairs(s, records) = << <<s, x>> >> \o Pairs(s, Tail(records))
      /\ x \in LogRecord /\ Tail(records) \in Seq(LogRecord) /\ Len(records) = Len(Tail(records)) + 1
  <2>1. records \in Seq(LogRecord) /\ s \in Scope
    BY <1>2 DEF SplitTypes
  <2> HIDE DEF s
  <2>2. QED
    BY <1>1, <2>1, PairsHead
<1>4. /\ destRl' \in Seq(ScopeLogs) /\ destRl' # <<>> /\ Len(destRl') = Len(destRl)
      /\ destRl'[Len(destRl)].scope = s
      /\ Flat(destRl') = Flat(destRl) \o << <<s, x>> >>
  <2> HIDE DEF x, s
  <2> DEFINE longer == [destRl EXCEPT ![Len(destRl)].records = Append(@, x)]
  <2>1. /\ longer \in Seq(ScopeLogs) /\ longer # <<>> /\ Len(longer) = Len(destRl)
        /\ longer[Len(destRl)].scope = destRl[Len(destRl)].scope
        /\ Flat(longer) = Flat(destRl) \o << <<destRl[Len(destRl)].scope, x>> >>
    BY <1>2, <1>3, FlatLonger
  <2>2. QED
    BY <1>1, <1>2, <2>1
<1> HIDE DEF s, x
<1>5. SplitTypes'
  BY <1>1, <1>2, <1>3, <1>4 DEF SplitTypes
<1>6. << <<s, x>> >> \in Seq(Pair) /\ Len(<< <<s, x>> >>) = 1
  BY <1>2, <1>3 DEF Pair
<1>7. copied' = Len(Flat(destRl')) /\ copied' <= size'
  <2>1. Len(Flat(destRl) \o << <<s, x>> >>) = Len(Flat(destRl)) + Len(<< <<s, x>> >>)
    BY <1>2, <1>6, ConcatProperties
  <2>2. copied # size
    BY <1>1 DEF Done
  <2>3. copied + 1 <= size
    BY <1>2, <2>2
  <2>4. QED
    BY <1>1, <1>2, <1>4, <1>6, <2>1, <2>3
<1>8. Flat(destRl') \o (Pairs(s, keptRecords) \o Pairs(s, records')) \o Flat(scopes) = Flat(srcRl)
  <2> DEFINE a == Flat(destRl)
             p == << <<s, x>> >>
             c == Pairs(s, Tail(records))
             t == Flat(scopes)
  <2>1. a \in Seq(Pair) /\ p \in Seq(Pair) /\ c \in Seq(Pair) /\ t \in Seq(Pair)
    BY <1>2, <1>3, <1>6, PairsType
  <2>2. Pairs(s, keptRecords) = <<>>
    BY <1>2, PairsEmpty
  <2>3. Flat(srcRl) = (a \o (<<>> \o (p \o c))) \o t /\ Flat(destRl') = a \o p /\ Pairs(s, records') = c
    BY <1>1, <1>2, <1>3, <1>4, <2>2
  <2> HIDE DEF a, p, c, t
  <2>4. (a \o (<<>> \o (p \o c))) \o t = ((a \o p) \o (<<>> \o c)) \o t
    BY <2>1, RegroupRecordMoved
  <2>5. QED
    BY <2>2, <2>3, <2>4 DEF t
<1>9. copied' + Len(keptRecords') + Len(records') > size'
  <2>1. Len(keptRecords) = 0 /\ Len(Tail(records)) \in Nat
    BY <1>2, <1>3, LenProperties
  <2>2. (copied + 1) + 0 + Len(Tail(records)) > size
    BY <1>2, <1>3, <2>1
  <2>3. QED
    BY <1>1, <2>1, <2>2
<1>10. CutInv'
  BY <1>1, <1>2, <1>4, <1>8, <1>9 DEF CutInv, s
<1>11. PlaceInv'
  BY <1>1 DEF PlaceInv
<1>12. QED
  BY <1>1, <1>5, <1>7, <1>10, <1>11 DEF SplitInv

\* The result is complete: the record stays behind those of its scope that do.
LEMMA KeptByKeepRecord ==
  ASSUME SplitTypes, SplitInv, KeepRecord
  PROVE  SplitTypes' /\ SplitInv'
<1> DEFINE s == kept[1].scope
           x == Head(records)
<1>1. /\ pc = "record" /\ records # <<>> /\ records' = Tail(records) /\ Done
      /\ keptRecords' = Append(keptRecords, x)
      /\ UNCHANGED <<srcRl, size, scopes, kept, destRl, copied, pc>>
  BY DEF KeepRecord, NextRecord
<1>2. /\ Len(kept) = 1 /\ kept[1].records = <<>> /\ s \in Scope
      /\ destRl # <<>> /\ destRl[Len(destRl)].scope = s
      /\ Pairs(s, keptRecords) \in Seq(Pair)
      /\ Flat(destRl) \o (Pairs(s, keptRecords) \o Pairs(s, records)) \o Flat(scopes) = Flat(srcRl)
      /\ size \in Nat /\ copied \in Nat /\ Len(keptRecords) \in Nat /\ Len(records) \in Nat
      /\ copied + Len(keptRecords) + Len(records) > size
  BY <1>1, RecordsInPlace
<1>3. /\ Pairs(s, records) = << <<s, x>> >> \o Pairs(s, Tail(records))
      /\ x \in LogRecord /\ Tail(records) \in Seq(LogRecord) /\ Len(records) = Len(Tail(records)) + 1
  <2>1. records \in Seq(LogRecord) /\ s \in Scope
    BY <1>2 DEF SplitTypes
  <2> HIDE DEF s
  <2>2. QED
    BY <1>1, <2>1, PairsHead
<1> HIDE DEF s, x
<1>4. /\ keptRecords \in Seq(LogRecord) /\ keptRecords' \in Seq(LogRecord) /\ <<x>> \in Seq(LogRecord)
      /\ keptRecords' = keptRecords \o <<x>> /\ Len(keptRecords') = Len(keptRecords) + 1
  <2>1. keptRecords \in Seq(LogRecord)
    BY DEF SplitTypes
  <2>2. QED
    BY <1>1, <1>3, <2>1, AppendProperties, AppendIsConcat
<1>5. SplitTypes'
  BY <1>1, <1>3, <1>4 DEF SplitTypes
<1>6. Pairs(s, keptRecords') = Pairs(s, keptRecords) \o << <<s, x>> >>
  <2>1. Pairs(s, keptRecords \o <<x>>) = Pairs(s, keptRecords) \o Pairs(s, <<x>>)
    BY <1>2, <1>4, PairsConcat
  <2>2. Pairs(s, <<x>>) = << <<s, x>> >>
    BY DEF Pairs
  <2>3. QED
    BY <1>4, <2>1, <2>2
<1>7. Flat(destRl) \o (Pairs(s, keptRecords') \o Pairs(s, records')) \o Flat(scopes) = Flat(srcRl)
  <2> DEFINE a == Flat(destRl)
             k == Pairs(s, keptRecords)
             p == << <<s, x>> >>
             c == Pairs(s, Tail(records))
             t == Flat(scopes)
  <2>1. k \in Seq(Pair) /\ p \in Seq(Pair) /\ c \in Seq(Pair)
    <3>1. c \in Seq(Pair)
      BY <1>2, <1>3, PairsType
    <3>2. p \in Seq(Pair)
      BY <1>2, <1>3 DEF Pair
    <3>3. QED
      BY <1>2, <3>1, <3>2
  <2>2. Flat(srcRl) = (a \o (k \o (p \o c))) \o t /\ Pairs(s, keptRecords') = k \o p /\ Pairs(s, records') = c
    BY <1>1, <1>2, <1>3, <1>6
  <2> HIDE DEF a, k, p, c, t
  <2>3. k \o (p \o c) = (k \o p) \o c
    BY <2>1, Associative, SMTT(60)
  <2>4. QED
    BY <2>2, <2>3 DEF a, t
<1>8. copied' + Len(keptRecords') + Len(records') > size'
  <2>1. Len(Tail(records)) \in Nat
    BY <1>3, LenProperties
  <2>2. copied + (Len(keptRecords) + 1) + Len(Tail(records)) > size
    BY <1>2, <1>3, <2>1
  <2>3. QED
    BY <1>1, <1>4, <2>2
<1>9. CutInv'
  BY <1>1, <1>2, <1>7, <1>8 DEF CutInv, Done, s
<1>10. PlaceInv'
  BY <1>1 DEF PlaceInv
<1>11. QED
  BY <1>1, <1>5, <1>9, <1>10 DEF SplitInv

\* All records of the scope were visited: it has more than there was room for, so that
\* some stay, and the result is complete.
LEMMA KeptByScopeIsCut ==
  ASSUME SplitTypes, SplitInv, ScopeIsCut
  PROVE  SplitTypes' /\ SplitInv'
<1> DEFINE s == kept[1].scope
<1>1. /\ pc = "record" /\ records = <<>> /\ pc' = "scope"
      /\ kept' = [kept EXCEPT ![Len(kept)].records = keptRecords]
      /\ UNCHANGED <<srcRl, size, scopes, records, keptRecords, destRl, copied>>
  BY DEF ScopeIsCut
<1>2. /\ Len(kept) = 1 /\ kept \in Seq(ScopeLogs) /\ s \in Scope
      /\ Flat(destRl) \in Seq(Pair) /\ Flat(scopes) \in Seq(Pair)
      /\ Pairs(s, keptRecords) \in Seq(Pair)
      /\ Flat(destRl) \o (Pairs(s, keptRecords) \o Pairs(s, records)) \o Flat(scopes) = Flat(srcRl)
      /\ size \in Nat /\ copied \in Nat /\ Len(keptRecords) \in Nat
      /\ copied <= size /\ copied + Len(keptRecords) + Len(records) > size
      /\ ~Done => keptRecords = <<>>
  BY <1>1, RecordsInPlace
<1>3. Len(keptRecords) # 0 /\ keptRecords # <<>> /\ Done
  <2>1. Len(records) = 0
    BY <1>1
  <2>2. copied + Len(keptRecords) + 0 > size
    BY <1>2, <2>1
  <2>3. Len(keptRecords) # 0
    BY <1>2, <2>2
  <2>4. keptRecords # <<>>
    BY <2>3
  <2>5. QED
    BY <1>2, <2>3, <2>4
<1>4. /\ kept' \in Seq(ScopeLogs) /\ Len(kept') = 1 /\ kept'[1].records = keptRecords
      /\ Flat(kept') = Pairs(s, keptRecords)
  <2>1. keptRecords \in Seq(LogRecord)
    BY DEF SplitTypes
  <2> DEFINE new == [kept EXCEPT ![Len(kept)].records = keptRecords]
  <2>2. new \in Seq(ScopeLogs) /\ Len(new) = 1 /\ new[1].records = keptRecords /\ Flat(new) = Pairs(s, keptRecords)
    BY <1>2, <2>1, OnlyScopeReplaced
  <2>3. QED
    BY <1>1, <2>2
<1> HIDE DEF s
<1>5. SplitTypes'
  BY <1>1, <1>4 DEF SplitTypes
<1>6. Flat(destRl) \o Flat(kept') \o Flat(scopes) = Flat(srcRl)
  <2>1. Pairs(s, records) = <<>>
    BY <1>1, PairsEmpty
  <2>2. Pairs(s, keptRecords) \o <<>> = Pairs(s, keptRecords)
    BY <1>2, ConcatEmptySeq
  <2>3. QED
    BY <1>2, <1>4, <2>1, <2>2
<1>7. \A i \in DOMAIN kept' : kept'[i].records # <<>>
  <2>1. DOMAIN kept' = 1 .. 1
    BY <1>4, LenProperties
  <2>2. \A i \in 1 .. 1 : i = 1
    OBVIOUS
  <2>3. QED
    BY <1>3, <1>4, <2>1, <2>2
<1>8. PlaceInv'
  BY <1>1, <1>3, <1>6, <1>7 DEF PlaceInv, Done
<1>9. CutInv'
  BY <1>1 DEF CutInv
<1>10. QED
  BY <1>1, <1>5, <1>8, <1>9 DEF SplitInv

\* All scopes were visited.
LEMMA KeptByReturn ==
  ASSUME SplitTypes, SplitInv, Return
  PROVE  SplitTypes' /\ SplitInv'
<1>1. /\ pc = "scope" /\ scopes = <<>> /\ pc' = "return"
      /\ UNCHANGED <<srcRl, size, scopes, records, kept, keptRecords, destRl, copied>>
  BY DEF Return
<1>2. SplitTypes'
  BY <1>1 DEF SplitTypes
<1>3. PlaceInv' /\ CutInv'
  BY <1>1 DEF SplitInv, PlaceInv, CutInv, Done
<1>4. QED
  BY <1>1, <1>2, <1>3 DEF SplitInv

\* After the return, and in a step of something else, nothing changes.
LEMMA KeptUnchanged ==
  ASSUME SplitTypes, SplitInv, UNCHANGED vars
  PROVE  SplitTypes' /\ SplitInv'
BY DEF vars, SplitTypes, SplitInv, CutInv, PlaceInv, Done

\* splitLogs keeps SplitInv.
LEMMA SpecSplitInv == Spec => [](SplitTypes /\ SplitInv)
<1>1. SplitTypes /\ SplitInv /\ [Next]_vars => (SplitTypes /\ SplitInv)'
  <2> SUFFICES ASSUME SplitTypes, SplitInv, [Next]_vars PROVE SplitTypes' /\ SplitInv'
    OBVIOUS
  <2>1. CASE ReturnSource
    BY <2>1, KeptByReturnSource
  <2>2. CASE Split
    BY <2>2, KeptBySplit
  <2>3. CASE KeepScope
    BY <2>3, KeptByKeepScope
  <2>4. CASE MoveScope
    BY <2>4, KeptByMoveScope
  <2>5. CASE CutScope
    BY <2>5, KeptByCutScope
  <2>6. CASE MoveRecord
    BY <2>6, KeptByMoveRecord
  <2>7. CASE KeepRecord
    BY <2>7, KeptByKeepRecord
  <2>8. CASE ScopeIsCut
    BY <2>8, KeptByScopeIsCut
  <2>9. CASE Return
    BY <2>9, KeptByReturn
  <2>10. CASE UNCHANGED vars
    BY <2>10, KeptUnchanged
  <2>11. QED
    BY <2>1, <2>2, <2>3, <2>4, <2>5, <2>6, <2>7, <2>8, <2>9, <2>10 DEF Next, Terminated
<1>2. QED
  BY InitSplit, <1>1, PTL DEF Spec
----------------------------------------------------------------------------
(* The properties.                                                         *)

\* The new entry and what is left of the source, once it was cut.
LEMMA CutAtSize ==
  ASSUME SplitTypes, SplitInv, pc = "return"
  PROVE  LET all == Flat(srcRl)
             n   == Min2(size, resourceLRC(srcRl))
         IN  /\ Flat(destRl) = SubSeq(all, 1, n)
             /\ Flat(kept) = SubSeq(all, n + 1, Len(all))
<1> DEFINE d == Flat(destRl)
           k == Flat(kept)
           f == Flat(srcRl)
<1>1. srcRl \in Seq(ScopeLogs) /\ destRl \in Seq(ScopeLogs) /\ kept \in Seq(ScopeLogs) /\ size \in Nat
  BY DEF SplitTypes
<1>2. d \in Seq(Pair) /\ Len(d) \in Nat /\ k \in Seq(Pair) /\ Len(k) \in Nat
  BY <1>1, FlatType
<1>3. f = d \o k
  <2>1. d \o k \o Flat(scopes) = f /\ scopes = <<>>
    BY DEF SplitInv, PlaceInv
  <2>2. d \o k \in Seq(Pair)
    BY <1>2, ConcatProperties
  <2>3. (d \o k) \o <<>> = d \o k
    <3> DEFINE dk == d \o k
    <3>1. dk \in Seq(Pair)
      BY <2>2
    <3> HIDE DEF dk
    <3>2. dk \o <<>> = dk
      BY <3>1, ConcatEmptySeq
    <3>3. QED
      BY <3>2 DEF dk
  <2>4. QED
    BY <2>1, <2>3, FlatEmpty
<1>4. resourceLRC(srcRl) = Len(f)
  BY <1>1, CountIsLength
<1>5. Len(d) = copied /\ copied <= size /\ (copied # size => k = <<>>)
  <2>1. copied # size => kept = <<>>
    BY DEF SplitInv, PlaceInv, Done
  <2>2. QED
    BY <2>1, FlatEmpty DEF SplitInv
<1> HIDE DEF d, k, f
<1>6. Len(f) = Len(d) + Len(k)
  BY <1>2, <1>3, ConcatProperties
<1>7. Min2(size, Len(f)) = Len(d)
  <2>1. copied # size => Len(k) = 0
    BY <1>5
  <2>2. size \in Nat /\ Len(d) \in Nat /\ Len(k) \in Nat /\ Len(d) <= size /\ (Len(d) # size => Len(k) = 0)
    BY <1>1, <1>2, <1>5, <2>1
  <2>3. IF size < Len(d) + Len(k) THEN size = Len(d) ELSE Len(d) + Len(k) = Len(d)
    BY <2>2
  <2>4. QED
    BY <1>6, <2>3 DEF Min2
<1>8. d = SubSeq(d \o k, 1, Len(d)) /\ k = SubSeq(d \o k, Len(d) + 1, Len(d \o k))
  BY <1>2, CutInTwo
<1>9. QED
  BY <1>3, <1>4, <1>7, <1>8 DEF d, k, f

\* The source is returned itself when it is short enough, and only then.
SourceIfShort ==
  /\ pc = "source" => resourceLRC(srcRl) <= size
  /\ pc \in {"scope", "record", "return"} => resourceLRC(srcRl) > size
LEMMA SpecSourceIfShort == Spec => []SourceIfShort
<1>1. Init => SourceIfShort
  BY DEF Init, SourceIfShort
<1>2. SourceIfShort /\ [Next]_vars => SourceIfShort'
  <2> SUFFICES ASSUME SourceIfShort, [Next]_vars PROVE SourceIfShort'
    OBVIOUS
  <2>1. srcRl' = srcRl /\ size' = size
    BY DEF Next, ReturnSource, Split, NextScope, KeepScope, MoveScope, CutScope, NextRecord,
           MoveRecord, KeepRecord, ScopeIsCut, Return, Terminated, vars
  <2>2. resourceLRC(srcRl)' = resourceLRC(srcRl)
    BY <2>1 DEF resourceLRC
  <2>3. \/ ReturnSource \/ Split \/ pc' = pc
        \/ pc \in {"scope", "record"} /\ pc' \in {"scope", "record", "return"}
    BY DEF Next, NextScope, KeepScope, MoveScope, CutScope, NextRecord,
           MoveRecord, KeepRecord, ScopeIsCut, Return, Terminated, vars
  <2>4. CASE ReturnSource
    BY <2>1, <2>2, <2>4 DEF ReturnSource, SourceIfShort
  <2>5. CASE Split
    BY <2>1, <2>2, <2>5 DEF Split, SourceIfShort
  <2>6. CASE pc' = pc \/ (pc \in {"scope", "record"} /\ pc' \in {"scope", "record", "return"})
    BY <2>1, <2>2, <2>6 DEF SourceIfShort
  <2>7. QED
    BY <2>3, <2>4, <2>5, <2>6
<1>3. QED
  BY <1>1, <1>2, PTL DEF Spec

\* splitLogs returns the first `size' records of the resource entry and leaves the
\* others in the source, each in its order and under the scope it came with.  One that
\* has no more is returned itself, with every record still in it.
THEOREM SplitAtSize == Spec => []SplitsAtSize
<1>1. SplitTypes /\ SplitInv /\ SourceIfShort => SplitsAtSize
  <2> SUFFICES ASSUME SplitTypes, SplitInv, SourceIfShort, pc \in {"source", "return"}
               PROVE  LET all == Flat(srcRl)
                          n   == Min2(size, resourceLRC(srcRl))
                      IN  /\ Flat(Result) = SubSeq(all, 1, n)
                          /\ Flat(Remaining) = IF resourceLRC(srcRl) <= size
                                               THEN all ELSE SubSeq(all, n + 1, Len(all))
    BY DEF SplitsAtSize
  <2> DEFINE all == Flat(srcRl)
  <2>1. /\ srcRl \in Seq(ScopeLogs) /\ kept \in Seq(ScopeLogs) /\ size \in Nat \ {0}
        /\ resourceLRC(srcRl) = Len(all) /\ all \in Seq(Pair) /\ Len(all) \in Nat
    BY CountIsLength, FlatType DEF SplitTypes
  <2>2. CASE pc = "source"
    <3>1. scopes = srcRl /\ kept = <<>> /\ Len(all) <= size
      BY <2>1, <2>2 DEF SplitInv, SourceIfShort
    <3>2. Remaining = srcRl /\ Result = srcRl
      BY <2>1, <2>2, <3>1, ConcatEmptySeq DEF Remaining, Result
    <3>3. Min2(size, Len(all)) = Len(all)
      BY <2>1, <3>1 DEF Min2
    <3> HIDE DEF all
    <3>4. SubSeq(all, 1, Len(all)) = all
      BY <2>1, SubSeqFull
    <3>5. QED
      BY <2>1, <3>1, <3>2, <3>3, <3>4 DEF all
  <2>3. CASE pc = "return"
    <3>1. Remaining = kept /\ Result = destRl
      BY <2>1, <2>3, ConcatEmptySeq DEF SplitInv, Remaining, Result
    <3>2. /\ Flat(destRl) = SubSeq(all, 1, Min2(size, Len(all)))
          /\ Flat(kept) = SubSeq(all, Min2(size, Len(all)) + 1, Len(all))
      BY <2>1, <2>3, CutAtSize
    <3>3. Len(all) > size
      BY <2>1, <2>3 DEF SourceIfShort
    <3>4. ~(resourceLRC(srcRl) <= size)
      BY <2>1, <3>3
    <3> HIDE DEF all
    <3>5. QED
      BY <2>1, <3>1, <3>2, <3>4 DEF all
  <2>4. QED
    BY <2>2, <2>3
<1>2. QED
  BY SpecSplitInv, SpecSourceIfShort, <1>1, PTL

\* At every callback what moved, what was kept and what is still to be visited are the
\* source, in its order: no record is lost and none is in two places.
THEOREM NothingIsLost == Spec => []NothingLost
<1>1. SplitTypes /\ SplitInv => NothingLost
  <2> SUFFICES ASSUME SplitTypes, SplitInv PROVE NothingLost
    OBVIOUS
  <2> DEFINE cut == IF pc = "record"
                    THEN <<[kept[Len(kept)] EXCEPT !.records = keptRecords \o records]>>
                    ELSE <<>>
  <2>1. /\ destRl \in Seq(ScopeLogs) /\ kept \in Seq(ScopeLogs) /\ scopes \in Seq(ScopeLogs)
        /\ keptRecords \in Seq(LogRecord) /\ records \in Seq(LogRecord)
    BY DEF SplitTypes
  <2>2. copied = Len(Flat(destRl)) /\ copied <= size
    BY DEF SplitInv
  <2>3. /\ Flat(destRl) \in Seq(Pair) /\ Flat(kept) \in Seq(Pair) /\ Flat(scopes) \in Seq(Pair)
    BY <2>1, FlatType
  <2>4. cut \in Seq(ScopeLogs) /\ (Flat(destRl) \o Flat(kept) \o Flat(cut)) \o Flat(scopes) = Flat(srcRl)
    <3>1. CASE pc = "record"
      <4> DEFINE s == kept[1].scope
                 joined == keptRecords \o records
                 whole == [kept[1] EXCEPT !.records = joined]
      <4>1. /\ Len(kept) = 1 /\ kept[1].records = <<>> /\ s \in Scope
            /\ Flat(destRl) \o (Pairs(s, keptRecords) \o Pairs(s, records)) \o Flat(scopes) = Flat(srcRl)
        BY <3>1, RecordsInPlace
      <4>2. kept[1] \in ScopeLogs /\ Flat(kept) = Pairs(s, <<>>)
        BY <2>1, <4>1, FlatOfOne
      <4>3. joined \in Seq(LogRecord) /\ Pairs(s, joined) = Pairs(s, keptRecords) \o Pairs(s, records)
        <5> HIDE DEF s
        <5>1. QED
          BY <2>1, <4>1, ConcatProperties, PairsConcat
      <4> HIDE DEF joined
      <4>4. whole \in ScopeLogs /\ whole.scope = s /\ whole.records = joined
        BY <4>2, <4>3, WithRecords
      <4> HIDE DEF whole, s
      <4>5. <<whole>> \in Seq(ScopeLogs) /\ Flat(<<whole>>) = Pairs(s, keptRecords) \o Pairs(s, records)
        BY <4>3, <4>4, FlatOne
      <4>6. cut = <<whole>>
        BY <3>1, <4>1 DEF whole, joined
      <4>7. Flat(destRl) \o Flat(kept) = Flat(destRl)
        BY <2>3, <4>2, PairsEmpty, ConcatEmptySeq
      <4>8. QED
        BY <4>1, <4>5, <4>6, <4>7
    <3>2. CASE pc # "record"
      <4>1. cut = <<>> /\ Flat(cut) = <<>> /\ cut \in Seq(ScopeLogs)
        BY <3>2, FlatEmpty, EmptySeq
      <4>2. Flat(destRl) \o Flat(kept) \o Flat(scopes) = Flat(srcRl)
        BY <3>2 DEF SplitInv, PlaceInv
      <4>3. (Flat(destRl) \o Flat(kept)) \o <<>> = Flat(destRl) \o Flat(kept)
        <5>1. Flat(destRl) \o Flat(kept) \in Seq(Pair)
          BY <2>3, ConcatProperties
        <5> DEFINE dk == Flat(destRl) \o Flat(kept)
        <5>2. dk \in Seq(Pair)
          BY <5>1
        <5> HIDE DEF dk
        <5>3. dk \o <<>> = dk
          BY <5>2, ConcatEmptySeq
        <5>4. QED
          BY <5>3 DEF dk
      <4> HIDE DEF cut
      <4>4. QED
        BY <4>1, <4>2, <4>3
    <3>3. QED
      BY <3>1, <3>2
  <2> HIDE DEF cut
  <2>5. Flat(destRl \o kept \o cut \o scopes) = Flat(destRl) \o Flat(kept) \o Flat(cut) \o Flat(scopes)
    <3> DEFINE dk == destRl \o kept
               dkc == dk \o cut
    <3>1. dk \in Seq(ScopeLogs) /\ Flat(dk) = Flat(destRl) \o Flat(kept)
      BY <2>1, FlatConcat, ConcatProperties
    <3> HIDE DEF dk
    <3>2. dkc \in Seq(ScopeLogs) /\ Flat(dkc) = Flat(dk) \o Flat(cut)
      BY <2>4, <3>1, FlatConcat, ConcatProperties
    <3> HIDE DEF dkc
    <3>3. Flat(dkc \o scopes) = Flat(dkc) \o Flat(scopes)
      BY <2>1, <3>2, FlatConcat
    <3>4. QED
      BY <3>1, <3>2, <3>3 DEF dkc, dk
  <2>6. QED
    BY <2>2, <2>4, <2>5 DEF NothingLost, cut
<1>2. QED
  BY SpecSplitInv, <1>1, PTL

\* A scope without records stays in the source only when it came without records: no
\* split leaves an empty scope for a later one to deliver.
THEOREM NoScopeIsEmptied == Spec => []NoEmptiedScope
<1>1. SplitInv => NoEmptiedScope
  BY DEF SplitInv, PlaceInv, NoEmptiedScope
<1>2. QED
  BY SpecSplitInv, <1>1, PTL
----------------------------------------------------------------------------
(* The groups of the batch: entries of a single scope.                     *)

\* While its only scope is not reached nothing has moved; then it is cut, into one
\* scope that moves and one that stays.
NotReached == scopes = srcRl /\ destRl = <<>>
CutInto == /\ scopes = <<>> /\ Len(destRl) = 1 /\ Len(kept) = 1
           /\ destRl[1].scope = srcRl[1].scope /\ kept[1].scope = srcRl[1].scope
OneScopeInv ==
  Len(srcRl) = 1 /\ resourceLRC(srcRl) > size =>
    \/ pc \in {"call", "scope"} /\ NotReached
    \/ pc \in {"scope", "record", "return"} /\ CutInto

\* The only scope of an entry keeps its name when it gets other records.
LEMMA ScopeStays ==
  ASSUME NEW rl \in Seq(ScopeLogs), Len(rl) = 1, NEW rs \in Seq(LogRecord)
  PROVE  LET new == [rl EXCEPT ![Len(rl)].records = rs]
         IN  Len(new) = 1 /\ new[1].scope = rl[1].scope
<1> DEFINE s == [rl[1] EXCEPT !.records = rs]
           new == [rl EXCEPT ![1] = s]
<1>1. rl[1] \in ScopeLogs
  BY FlatOfOne
<1>2. s \in ScopeLogs /\ s.scope = rl[1].scope
  BY <1>1, WithRecords
<1>3. new = [rl EXCEPT ![Len(rl)].records = rs]
  OBVIOUS
<1> HIDE DEF s
<1>4. Len(new) = 1 /\ new[1] = s
  BY <1>2, ExceptSeq
<1> HIDE DEF new
<1>5. QED
  BY <1>2, <1>3, <1>4

\* The only scope of an entry that is too long has as many records, does not fit and is
\* reached before anything moved.
LEMMA OnlyScopeIsCut ==
  ASSUME SplitTypes, SplitInv, OneScopeInv, NextScope, Len(srcRl) = 1, resourceLRC(srcRl) > size
  PROVE  /\ ~Done /\ ~Fits(Head(scopes)) /\ kept = <<>> /\ destRl = <<>> /\ scopes' = <<>>
         /\ Head(scopes) \in ScopeLogs /\ Head(scopes).scope = srcRl[1].scope
<1>1. /\ scopes # <<>> /\ scopes' = Tail(scopes) /\ srcRl \in Seq(ScopeLogs) /\ size \in Nat \ {0}
      /\ ~Done => kept = <<>>
  BY NextScopeTaken DEF NextScope, SplitTypes
<1>2. scopes = srcRl /\ destRl = <<>>
  BY <1>1 DEF OneScopeInv, NotReached, CutInto
<1>3. /\ srcRl = <<srcRl[1]>> /\ srcRl[1] \in ScopeLogs
      /\ Flat(srcRl) = Pairs(srcRl[1].scope, srcRl[1].records)
  BY <1>1, FlatOfOne
<1>4. Head(scopes) = srcRl[1] /\ Tail(scopes) = <<>>
  <2> DEFINE h == srcRl[1]
  <2>1. scopes = <<h>>
    BY <1>2, <1>3
  <2> HIDE DEF h
  <2>2. Head(scopes) = h /\ Tail(scopes) = <<>>
    BY <2>1
  <2>3. QED
    BY <2>2 DEF h
<1>5. copied = 0
  BY <1>2, FlatEmpty DEF SplitInv
<1>6. Len(srcRl[1].records) > size
  <2>1. srcRl[1].scope \in Scope /\ srcRl[1].records \in Seq(LogRecord)
    BY <1>3 DEF ScopeLogs
  <2>2. resourceLRC(srcRl) = Len(srcRl[1].records)
    BY <1>1, <1>3, <2>1, CountIsLength, PairsType
  <2>3. QED
    BY <2>2
<1>7. ~Done
  BY <1>1, <1>5 DEF Done
<1>8. ~Fits(Head(scopes))
  <2>1. Len(srcRl[1].records) \in Nat
    BY <1>3, LenProperties DEF ScopeLogs
  <2>2. QED
    BY <1>1, <1>4, <1>5, <1>6, <2>1
<1>9. QED
  BY <1>1, <1>2, <1>3, <1>4, <1>7, <1>8

\* Every step keeps OneScopeInv.
LEMMA OneScopeInvStep ==
  ASSUME SplitTypes, SplitInv, OneScopeInv, [Next]_vars
  PROVE  OneScopeInv'
<1>1. srcRl' = srcRl /\ size' = size
  BY DEF Next, ReturnSource, Split, NextScope, KeepScope, MoveScope, CutScope, NextRecord,
         MoveRecord, KeepRecord, ScopeIsCut, Return, Terminated, vars
<1> SUFFICES ASSUME Len(srcRl) = 1, resourceLRC(srcRl) > size
             PROVE  \/ pc' \in {"call", "scope"} /\ NotReached'
                    \/ pc' \in {"scope", "record", "return"} /\ CutInto'
  <2>1. resourceLRC(srcRl)' = resourceLRC(srcRl)
    BY <1>1 DEF resourceLRC
  <2>2. QED
    BY <1>1, <2>1 DEF OneScopeInv
<1>2. \/ pc \in {"call", "scope"} /\ NotReached
      \/ pc \in {"scope", "record", "return"} /\ CutInto
  BY DEF OneScopeInv
<1>3. /\ srcRl \in Seq(ScopeLogs) /\ destRl \in Seq(ScopeLogs) /\ kept \in Seq(ScopeLogs)
      /\ size \in Nat /\ keptRecords \in Seq(LogRecord) /\ records \in Seq(LogRecord)
  BY DEF SplitTypes
<1>4. CASE ReturnSource
  <2>1. resourceLRC(srcRl) <= size /\ resourceLRC(srcRl) \in Nat
    BY <1>3, <1>4, CountIsLength, FlatType DEF ReturnSource
  <2>2. QED
    BY <1>3, <2>1
<1>5. CASE Split
  BY <1>2, <1>5 DEF Split, NotReached, CutInto
<1>6. CASE KeepScope
  BY <1>6, OnlyScopeIsCut DEF KeepScope
<1>7. CASE MoveScope
  BY <1>7, OnlyScopeIsCut DEF MoveScope
<1>8. CASE CutScope
  <2> DEFINE h == Head(scopes)
             h0 == [h EXCEPT !.records = <<>>]
  <2>1. /\ destRl' = Append(destRl, h0) /\ kept' = Append(kept, h0) /\ pc' = "record"
        /\ destRl = <<>> /\ kept = <<>> /\ scopes' = <<>>
        /\ h \in ScopeLogs /\ h.scope = srcRl[1].scope
    BY <1>8, OnlyScopeIsCut DEF CutScope
  <2>2. h0.scope = srcRl[1].scope
    BY <2>1, EmptySeq, WithRecords
  <2> HIDE DEF h, h0
  <2>3. destRl' = <<h0>> /\ kept' = <<h0>>
    BY <2>1
  <2>4. QED
    BY <1>1, <2>1, <2>2, <2>3 DEF CutInto
<1>9. CASE MoveRecord
  <2>1. /\ pc = "record" /\ pc' = pc /\ scopes' = scopes /\ kept' = kept /\ records # <<>>
        /\ destRl' = [destRl EXCEPT ![Len(destRl)].records = Append(@, Head(records))]
    BY <1>9 DEF MoveRecord, NextRecord
  <2>2. CutInto
    BY <1>2, <2>1
  <2> DEFINE rs == Append(destRl[1].records, Head(records))
  <2>3. rs \in Seq(LogRecord)
    <3>1. destRl[1].records \in Seq(LogRecord)
      BY <1>3, <2>2, FlatOfOne DEF CutInto, ScopeLogs
    <3>2. Head(records) \in LogRecord
      BY <1>3, <2>1, HeadTailProperties
    <3>3. QED
      BY <3>1, <3>2, AppendProperties
  <2>4. destRl' = [destRl EXCEPT ![Len(destRl)].records = rs]
    BY <2>1, <2>2 DEF CutInto
  <2> HIDE DEF rs
  <2>5. Len(destRl') = 1 /\ destRl'[1].scope = destRl[1].scope
    BY <1>3, <2>2, <2>3, <2>4, ScopeStays DEF CutInto
  <2>6. QED
    BY <1>1, <2>1, <2>2, <2>5 DEF CutInto
<1>10. CASE KeepRecord
  BY <1>1, <1>2, <1>10 DEF KeepRecord, NextRecord, CutInto
<1>11. CASE ScopeIsCut
  <2>1. /\ pc = "record" /\ pc' = "scope" /\ scopes' = scopes /\ destRl' = destRl
        /\ kept' = [kept EXCEPT ![Len(kept)].records = keptRecords]
    BY <1>11 DEF ScopeIsCut
  <2>2. CutInto
    BY <1>2, <2>1
  <2>3. Len(kept') = 1 /\ kept'[1].scope = kept[1].scope
    BY <1>3, <2>1, <2>2, ScopeStays DEF CutInto
  <2>4. QED
    BY <1>1, <2>1, <2>2, <2>3 DEF CutInto
<1>12. CASE Return
  <2>1. pc = "scope" /\ pc' = "return" /\ scopes = <<>> /\ UNCHANGED <<scopes, destRl, kept>>
    BY <1>12 DEF Return
  <2>2. srcRl # <<>>
    BY EmptySeq
  <2>3. QED
    BY <1>1, <1>2, <2>1, <2>2 DEF CutInto, NotReached
<1>13. CASE UNCHANGED vars
  BY <1>2, <1>13 DEF vars, CutInto, NotReached
<1>14. QED
  BY <1>4, <1>5, <1>6, <1>7, <1>8, <1>9, <1>10, <1>11, <1>12, <1>13 DEF Next, Terminated

\* A part of the pairs of some records is the pairs of that part.
LEMMA PairsPart ==
  ASSUME NEW s \in Scope, NEW g \in Seq(LogRecord), NEW r \in Seq(LogRecord),
         NEW i \in Nat \ {0}, NEW j \in Nat, j <= Len(g),
         Pairs(s, r) = SubSeq(Pairs(s, g), i, j)
  PROVE  r = SubSeq(g, i, j)
<1> DEFINE p == Pairs(s, r)
           q == Pairs(s, g)
           part == SubSeq(g, i, j)
<1>1. /\ p \in Seq(Pair) /\ Len(p) = Len(r) /\ \A n \in 1 .. Len(r) : p[n] = <<s, r[n]>>
      /\ q \in Seq(Pair) /\ Len(q) = Len(g) /\ \A n \in 1 .. Len(g) : q[n] = <<s, g[n]>>
      /\ p = SubSeq(q, i, j)
  BY PairsType
<1>2. Len(r) \in Nat /\ Len(g) \in Nat
  BY LenProperties
<1> HIDE DEF p, q
<1>3. /\ part \in Seq(LogRecord) /\ Len(part) = (IF i <= j THEN j - i + 1 ELSE 0)
      /\ \A n \in 1 .. j - i + 1 : part[n] = g[i + n - 1]
  BY SubSeqProperties
<1>4. /\ Len(p) = (IF i <= j THEN j - i + 1 ELSE 0)
      /\ \A n \in 1 .. j - i + 1 : p[n] = q[i + n - 1]
  BY <1>1, SubSeqProperties
<1> HIDE DEF part
<1>5. Len(r) = Len(part)
  BY <1>1, <1>3, <1>4
<1>6. ASSUME NEW n \in 1 .. Len(r) PROVE r[n] = part[n]
  <2>1. n \in 1 .. j - i + 1 /\ i + n - 1 \in 1 .. Len(g)
    BY <1>1, <1>2, <1>4
  <2>2. p[n] = <<s, r[n]>> /\ q[i + n - 1] = <<s, g[i + n - 1]>>
    BY <1>1, <2>1
  <2>3. <<s, r[n]>> = <<s, g[i + n - 1]>>
    BY <1>4, <2>1, <2>2
  <2>4. QED
    BY <1>3, <2>1, <2>3
<1>7. QED
  BY <1>3, <1>5, <1>6, SeqEqual DEF part

\* A group of the batch is an entry of one scope.  One that is longer than the size is cut
\* into one with its first `size' records and one with the others, both under its scope:
\* this is what SplitOff and SplitRest of module BatchLogs say of the call of splitLogs
\* in batch_logs.go:58-66.
OneScope(scope, rs) == <<[scope |-> scope, records |-> rs]>>
THEOREM GroupIsCut ==
  ASSUME NEW scope \in Scope, NEW group \in Seq(LogRecord)
  PROVE  Spec => [](pc = "return" /\ srcRl = OneScope(scope, group) /\ Len(group) > size =>
                      /\ destRl = OneScope(scope, SubSeq(group, 1, size))
                      /\ kept = OneScope(scope, SubSeq(group, size + 1, Len(group))))
<1> DEFINE Cut == pc = "return" /\ srcRl = OneScope(scope, group) /\ Len(group) > size =>
                    /\ destRl = OneScope(scope, SubSeq(group, 1, size))
                    /\ kept = OneScope(scope, SubSeq(group, size + 1, Len(group)))
<1>1. Init => OneScopeInv
  BY DEF Init, OneScopeInv, NotReached
<1>2. SplitTypes /\ SplitInv /\ OneScopeInv => Cut
  <2> SUFFICES ASSUME SplitTypes, SplitInv, OneScopeInv, pc = "return",
                      srcRl = OneScope(scope, group), Len(group) > size
               PROVE  /\ destRl = OneScope(scope, SubSeq(group, 1, size))
                      /\ kept = OneScope(scope, SubSeq(group, size + 1, Len(group)))
    OBVIOUS
  <2>1. /\ srcRl \in Seq(ScopeLogs) /\ destRl \in Seq(ScopeLogs) /\ kept \in Seq(ScopeLogs)
        /\ size \in Nat /\ Len(group) \in Nat
    BY LenProperties DEF SplitTypes
  <2>2. Len(srcRl) = 1 /\ srcRl[1].scope = scope /\ srcRl[1].records = group
    BY DEF OneScope
  <2>3. Flat(srcRl) = Pairs(scope, group) /\ Len(Flat(srcRl)) = Len(group)
    BY <2>1, <2>2, FlatOfOne, PairsType
  <2>4. resourceLRC(srcRl) = Len(group)
    BY <2>1, <2>3, CountIsLength
  <2>5. CutInto
    BY <2>2, <2>4 DEF OneScopeInv
  <2>6. Min2(size, resourceLRC(srcRl)) = size
    BY <2>1, <2>4 DEF Min2
  <2>7. /\ Flat(destRl) = SubSeq(Pairs(scope, group), 1, size)
        /\ Flat(kept) = SubSeq(Pairs(scope, group), size + 1, Len(group))
    BY <2>3, <2>6, CutAtSize
  <2>8. /\ destRl = <<destRl[1]>> /\ destRl[1] \in ScopeLogs /\ destRl[1].scope = scope
        /\ Flat(destRl) = Pairs(scope, destRl[1].records)
        /\ kept = <<kept[1]>> /\ kept[1] \in ScopeLogs /\ kept[1].scope = scope
        /\ Flat(kept) = Pairs(scope, kept[1].records)
    BY <2>1, <2>2, <2>5, FlatOfOne DEF CutInto
  <2>9. destRl[1].records \in Seq(LogRecord) /\ kept[1].records \in Seq(LogRecord)
    BY <2>8 DEF ScopeLogs
  <2>10. destRl[1].records = SubSeq(group, 1, size)
    <3> DEFINE r == destRl[1].records
    <3>1. r \in Seq(LogRecord) /\ Pairs(scope, r) = SubSeq(Pairs(scope, group), 1, size)
      BY <2>7, <2>8, <2>9, Zenon
    <3>2. 1 \in Nat \ {0} /\ size <= Len(group)
      BY <2>1
    <3> HIDE DEF r
    <3>3. r = SubSeq(group, 1, size)
      BY <2>1, <3>1, <3>2, PairsPart
    <3>4. QED
      BY <3>3 DEF r
  <2>11. kept[1].records = SubSeq(group, size + 1, Len(group))
    <3> DEFINE r == kept[1].records
               i == size + 1
    <3>1. r \in Seq(LogRecord) /\ Pairs(scope, r) = SubSeq(Pairs(scope, group), i, Len(group))
      BY <2>7, <2>8, <2>9, Zenon
    <3>2. i \in Nat \ {0} /\ Len(group) <= Len(group)
      BY <2>1
    <3> HIDE DEF r, i
    <3>3. r = SubSeq(group, i, Len(group))
      BY <2>1, <3>1, <3>2, PairsPart
    <3>4. QED
      BY <3>3 DEF r, i
  <2>12. \A s \in ScopeLogs : s = [scope |-> s.scope, records |-> s.records]
    BY DEF ScopeLogs
  <2>13. QED
    BY <2>8, <2>10, <2>11, <2>12 DEF OneScope
<1>3. QED
  BY <1>1, <1>2, OneScopeInvStep, SpecSplitInv, PTL DEF Spec
============================================================================
