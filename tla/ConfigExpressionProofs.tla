---------------------- MODULE ConfigExpressionProofs -----------------------
(***************************************************************************)
(* Theorems about the validation and the evaluation of expressions (module *)
(* ConfigExpression), for every set of configurations and records that are *)
(* trees, and for every choice of what the regular expressions do with     *)
(* which what they capture are parts of the string.                        *)
(*                                                                         *)
(* validateProfileExp, evalExp and PartsOf are recursive in the operations *)
(* of an expression: TreeRecursion gives the functions, TreeInductionSet   *)
(* what holds of them.  The state holds a configuration, its verdict and   *)
(* then one result of an evaluation (ConfigInv); the properties are about  *)
(* the functions.                                                          *)
(***************************************************************************)
EXTENDS ConfigExpression, RecursionTheorems, FiniteSetTheorems

\* What a value may be made of, where everything else is escaped or left out.
Safe == Strings \ {"nl", "esc", "uni"}

\* What a pattern and its groups match are made of characters of the string, in whatever
\* order.
CapturesAreParts ==
  \A p, s \in Seq(Strings) : FindStringSubmatch(p, s) \in Seq(Seq({s[i] : i \in DOMAIN s}))

\* The outcomes of evalMap and of evalExp.
RawOutcomes == [panic : BOOLEAN, id : Seq(Strings), value : Seq(Strings)]
Outcomes == [panic : BOOLEAN, id : Seq(Strings), value : Seq(Safe)]
----------------------------------------------------------------------------
(* Strings.                                                                *)

\* A sequence over a set is one over a larger set.
LEMMA SeqOfLarger ==
  ASSUME NEW A, NEW B, A \subseteq B, NEW s \in Seq(A)
  PROVE  s \in Seq(B)
<1>1. Len(s) \in Nat /\ DOMAIN s = 1 .. Len(s) /\ s = [i \in 1 .. Len(s) |-> s[i]]
  BY LenProperties
<1>2. \A i \in 1 .. Len(s) : s[i] \in B
  BY <1>1, ElementOfSeq
<1>3. [i \in 1 .. Len(s) |-> s[i]] \in Seq(B)
  BY <1>1, <1>2, IsASeq
<1>4. QED
  BY <1>1, <1>3

\* A part of a sequence.
LEMMA PartOfSeq ==
  ASSUME NEW A, NEW s \in Seq(A), NEW i \in Int, NEW j \in Int, 1 <= i, j <= Len(s)
  PROVE  SubSeq(s, i, j) \in Seq(A)
BY SubSeqProperties, LenProperties

\* A sequence made of another, element by element.
LEMMA MappedSeq ==
  ASSUME NEW A, NEW B, NEW s \in Seq(A), NEW g, DOMAIN g = DOMAIN s,
         g = [i \in DOMAIN s |-> g[i]], \A i \in DOMAIN s : g[i] \in B
  PROVE  g \in Seq(B) /\ Len(g) = Len(s)
<1>1. Len(s) \in Nat /\ DOMAIN s = 1 .. Len(s)
  BY LenProperties
<1>2. g \in Seq(B)
  BY <1>1, IsASeq
<1>3. QED
  BY <1>1, <1>2, LenProperties

\* Printable makes a string of a string.
LEMMA PrintableType ==
  ASSUME NEW s \in Seq(Strings) PROVE Printable(s) \in Seq(Strings)
<1> DEFINE g == [k \in DOMAIN s |-> IF s[k] = "nl" THEN " " ELSE s[k]]
<1>1. \A i \in DOMAIN s : g[i] \in Strings
  BY ElementOfSeq, LenProperties, StringAssumption
<1>2. g \in Seq(Strings)
  <2>1. DOMAIN g = DOMAIN s /\ g = [i \in DOMAIN s |-> g[i]]
    OBVIOUS
  <2>2. QED
    <3> HIDE DEF g
    <3>1. QED
      BY <1>1, <2>1, MappedSeq
<1>3. QED
  <2> HIDE DEF g
  <2>1. Without(g, {"esc"}) \in Seq(Strings)
    BY <1>2, WithoutType
  <2>2. QED
    BY <2>1 DEF Printable, g

\* FilterASCII leaves safe characters only.
LEMMA FilterASCIIType ==
  ASSUME NEW s \in Seq(Strings) PROVE FilterASCII(s) \in Seq(Safe)
<1> DEFINE g == [k \in DOMAIN s |-> CASE s[k] = "uni" -> <<>>
                                      [] s[k] = "esc" -> <<"\\", "0", "3", "3">>
                                      [] s[k] = "nl"  -> <<"\\", "n">>
                                      [] OTHER        -> <<s[k]>>]
<1>1. ASSUME NEW i \in DOMAIN s PROVE g[i] \in Seq(Safe)
  <2>1. s[i] \in Strings
    BY ElementOfSeq, LenProperties
  <2>2. CASE s[i] = "uni"
    BY <2>2
  <2>3. CASE s[i] = "esc"
    <3>1. g[i] = <<"\\", "0", "3", "3">>
      BY <2>3
    <3>2. "\\" \in Safe /\ "0" \in Safe /\ "3" \in Safe
      BY StringAssumption DEF Safe
    <3> HIDE DEF g
    <3>3. QED
      BY <3>1, <3>2
  <2>4. CASE s[i] = "nl"
    <3>1. g[i] = <<"\\", "n">>
      BY <2>4
    <3>2. "\\" \in Safe /\ "n" \in Safe
      BY StringAssumption DEF Safe
    <3> HIDE DEF g
    <3>3. QED
      BY <3>1, <3>2
  <2>5. CASE s[i] \notin {"uni", "esc", "nl"}
    <3>1. g[i] = <<s[i]>>
      BY <2>5
    <3>2. s[i] \in Safe
      BY <2>1, <2>5 DEF Safe
    <3> HIDE DEF g
    <3>3. QED
      BY <3>1, <3>2
  <2>6. QED
    BY <2>2, <2>3, <2>4, <2>5
<1>2. g \in Seq(Seq(Safe))
  <2>1. DOMAIN g = DOMAIN s /\ g = [i \in DOMAIN s |-> g[i]]
    OBVIOUS
  <2>2. QED
    <3> HIDE DEF g
    <3>1. QED
      BY <1>1, <2>1, MappedSeq
<1>3. QED
  <2> HIDE DEF g
  <2>1. FlattenSeq(g) \in Seq(Safe)
    BY <1>2, FlattenSeqType
  <2>2. QED
    BY <2>1 DEF FilterASCII, g
----------------------------------------------------------------------------
(* evalMap.                                                                *)

Maps == UNION {[D -> Values] : D \in SUBSET Seq(Strings)}

\* Where the search of a key path may be.
Places == [ended : BOOLEAN, path : Seq(Strings), in : Maps, val : Values \cup {Invalid}]

\* What is in a map.
LEMMA MapType ==
  ASSUME NEW m
  PROVE  /\ IsMap(m) <=> m \in Maps
         /\ m \in Maps => \A k \in DOMAIN m : k \in Seq(Strings) /\ m[k] \in Values
<1>1. IsMap(m) => m \in Maps
  BY DEF IsMap, Maps
<1>2. ASSUME m \in Maps PROVE IsMap(m) /\ \A k \in DOMAIN m : k \in Seq(Strings) /\ m[k] \in Values
  <2>1. PICK D \in SUBSET Seq(Strings) : m \in [D -> Values]
    BY <1>2 DEF Maps
  <2>2. QED
    BY <2>1 DEF IsMap
<1>3. QED
  BY <1>1, <1>2

\* The text that stands for JSON is a string.
LEMMA JsonIsText == <<"{", "json", "}">> \in Seq(Strings)
<1> DEFINE open == "{"
           word == "json"
           close == "}"
<1>1. open \in Strings /\ word \in Strings /\ close \in Strings
  BY StringAssumption
<1> HIDE DEF open, word, close
<1>2. <<open, word, close>> \in Seq(Strings)
  BY <1>1
<1>3. QED
  BY <1>2 DEF open, word, close

\* The text of a value is a string.
LEMMA AsStringType ==
  ASSUME NEW v \in Values PROVE AsString(v) \in Seq(Strings)
<1>1. CASE v.kind = "string"
  BY <1>1, ValueAssumption DEF AsString
<1>2. CASE v.kind # "string"
  BY <1>2, JsonIsText, Zenon DEF AsString
<1>3. QED
  BY <1>1, <1>2

\* So is that of the items of a slice ...
LEMMA JoinedType ==
  ASSUME NEW items \in Seq(Values) PROVE Joined(items) \in Seq(Strings)
<1> DEFINE Gap(k) == IF \E j \in 1 .. k - 1 : AsString(items[j]) # <<>> THEN <<" ">> ELSE <<>>
           g == [k \in DOMAIN items |-> Gap(k) \o AsString(items[k])]
<1>1. ASSUME NEW k \in DOMAIN items PROVE g[k] \in Seq(Strings)
  <2>1. items[k] \in Values
    BY ElementOfSeq, LenProperties
  <2>2. Gap(k) \in Seq(Strings)
    <3>1. " " \in Strings
      BY StringAssumption
    <3>2. <<" ">> \in Seq(Strings)
      <4> DEFINE blank == " "
      <4> HIDE DEF blank
      <4>1. blank \in Strings => <<blank>> \in Seq(Strings)
        OBVIOUS
      <4>2. QED
        BY <3>1, <4>1 DEF blank
    <3>3. QED
      BY <3>2, EmptySeq
  <2>3. AsString(items[k]) \in Seq(Strings)
    BY <2>1, AsStringType
  <2>4. g[k] = Gap(k) \o AsString(items[k])
    OBVIOUS
  <2> HIDE DEF Gap, g
  <2>5. QED
    BY <2>2, <2>3, <2>4, ConcatProperties
<1>2. g \in Seq(Seq(Strings))
  <2>1. DOMAIN g = DOMAIN items /\ g = [k \in DOMAIN items |-> g[k]]
    OBVIOUS
  <2>2. QED
    <3> HIDE DEF g
    <3>1. QED
      BY <1>1, <2>1, MappedSeq
<1>3. QED
  <2>1. Joined(items) = FlattenSeq(g)
    BY DEF Joined
  <2> HIDE DEF g
  <2>2. QED
    BY <1>2, <2>1, FlattenSeqType

\* ... and what evalValue makes of a value.
LEMMA evalValueType ==
  ASSUME NEW v \in Values PROVE evalValue(v) \in Seq(Strings)
<1>1. CASE v.kind = "slice"
  <2>1. v.items \in Seq(Values)
    BY <1>1, ValueAssumption
  <2>2. Printable(Joined(v.items)) \in Seq(Strings)
    BY <2>1, JoinedType, PrintableType
  <2>3. QED
    BY <1>1, <2>2 DEF evalValue
<1>2. CASE v.kind # "slice"
  <2>1. Printable(AsString(v)) \in Seq(Strings)
    BY AsStringType, PrintableType
  <2>2. QED
    BY <1>2, <2>1 DEF evalValue
<1>3. QED
  BY <1>1, <1>2

\* The path from a path and a part of a key.
LEMMA JoinPathType ==
  ASSUME NEW path \in Seq(Strings), NEW key \in Strings
  PROVE  /\ JoinPath(path, key) \in Seq(Strings)
         /\ JoinPath(path, key) = <<>> => key = ""
<1>1. CASE path # <<>>
  <2>1. Append(path, key) \in Seq(Strings) /\ Append(path, key) # <<>>
    BY AppendProperties
  <2>2. QED
    BY <1>1, <2>1 DEF JoinPath
<1>2. CASE path = <<>>
  <2>1. <<key>> \in Seq(Strings) /\ <<key>> # <<>> /\ <<>> \in Seq(Strings)
    OBVIOUS
  <2>2. QED
    BY <1>2, <2>1 DEF JoinPath
<1>3. QED
  BY <1>1, <1>2

\* A step of the search leads from place to place.
LEMMA LookupType ==
  ASSUME NEW at \in Places, NEW key \in Strings
  PROVE  Lookup(at, key) \in Places
<1> DEFINE next == JoinPath(at.path, key)
<1>1. /\ at.ended \in BOOLEAN /\ at.path \in Seq(Strings) /\ at.in \in Maps
      /\ at.val \in Values \cup {Invalid}
      /\ at = [ended |-> at.ended, path |-> at.path, in |-> at.in, val |-> at.val]
  BY DEF Places
<1>2. next \in Seq(Strings)
  BY <1>1, JoinPathType
<1>3. CASE at.ended
  BY <1>3 DEF Lookup
<1>4. CASE ~at.ended /\ next \notin DOMAIN at.in
  <2>1. Lookup(at, key) = [at EXCEPT !.path = next, !.val = Invalid]
    BY <1>4 DEF Lookup
  <2> HIDE DEF next
  <2>2. QED
    BY <2>1, <1>1, <1>2 DEF Places
<1>5. CASE ~at.ended /\ next \in DOMAIN at.in
  <2>1. at.in[next] \in Values
    BY <1>1, <1>5, MapType
  <2>2. CASE at.in[next].kind = "map"
    <3>1. at.in[next].map \in Maps
      BY <2>1, <2>2, ValueAssumption, MapType
    <3>2. Lookup(at, key) =
            [at EXCEPT !.path = <<>>, !.in = at.in[next].map, !.val = at.in[next]]
      BY <1>5, <2>2 DEF Lookup
    <3>3. <<>> \in Seq(Strings)
      OBVIOUS
    <3> HIDE DEF next
    <3>4. QED
      BY <3>1, <3>2, <3>3, <2>1, <1>1 DEF Places
  <2>3. CASE at.in[next].kind # "map"
    <3>1. Lookup(at, key) = [at EXCEPT !.ended = TRUE, !.val = at.in[next]]
      BY <1>5, <2>3 DEF Lookup
    <3> HIDE DEF next
    <3>2. QED
      BY <3>1, <2>1, <1>1 DEF Places
  <2>4. QED
    BY <2>2, <2>3
<1>6. QED
  BY <1>3, <1>4, <1>5

\* The places a search goes through.
IsWalk(at, parts, in) ==
  /\ at \in [0 .. Len(parts) -> Places]
  /\ at[0] = Searching(in)
  /\ \A n \in 1 .. Len(parts) : at[n] = Lookup(at[n - 1], parts[n])

\* A search goes through places, one for each part, to the last.
LEMMA SearchWalks ==
  ASSUME NEW parts \in Seq(Strings), NEW in \in Maps
  PROVE  \E at : IsWalk(at, parts, in) /\ Search(parts, in) = at[Len(parts)]
<1> DEFINE len == Len(parts)
           step == [vn \in Places \X Nat |->
                      IF vn[2] \in 1 .. len THEN Lookup(vn[1], parts[vn[2]]) ELSE vn[1]]
           start == Searching(in)
           Def(h) == [n \in 0 .. len |-> IF n = 0 THEN start ELSE Lookup(h[n - 1], parts[n])]
           at == CHOOSE h : h = Def(h)
<1>1. len \in Nat /\ \A n \in 1 .. len : parts[n] \in Strings
  BY LenProperties, ElementOfSeq
<1>2. start \in Places
  BY DEF Places, Searching
<1>3. step \in [Places \X Nat -> Places]
  <2>1. ASSUME NEW vn \in Places \X Nat PROVE step[vn] \in Places
    <3>1. vn[1] \in Places /\ vn[2] \in Nat
      OBVIOUS
    <3>2. CASE vn[2] \in 1 .. len
      <4>1. Lookup(vn[1], parts[vn[2]]) \in Places
        BY <1>1, <3>1, <3>2, LookupType
      <4>2. QED
        BY <3>2, <4>1
    <3>3. CASE vn[2] \notin 1 .. len
      BY <3>1, <3>3
    <3>4. QED
      BY <3>2, <3>3
  <2>2. step = [vn \in Places \X Nat |-> step[vn]]
    OBVIOUS
  <2> HIDE DEF step
  <2>3. QED
    BY <2>1, <2>2
<1>4. PICK f \in [Nat -> Places] : FollowsSteps(f, start, step)
  <2> HIDE DEF start, step
  <2>1. QED
    BY <1>2, <1>3, NatRecursion
<1>5. \A n \in 1 .. len : f[n] = Lookup(f[n - 1], parts[n])
  <2>1. ASSUME NEW n \in 1 .. len PROVE f[n] = Lookup(f[n - 1], parts[n])
    <3>1. n - 1 \in Nat /\ (n - 1) + 1 = n /\ n \in Nat
      BY <1>1
    <3>2. f[n] = step[<<f[n - 1], n>>]
      <4> HIDE DEF step, start
      <4>1. f[(n - 1) + 1] = step[<<f[n - 1], (n - 1) + 1>>]
        BY <3>1, <1>4 DEF FollowsSteps
      <4>2. QED
        BY <4>1, <3>1
    <3>3. <<f[n - 1], n>> \in Places \X Nat
      BY <3>1
    <3>4. QED
      BY <3>2, <3>3
  <2>2. QED
    BY <2>1
<1> DEFINE h0 == [n \in 0 .. len |-> f[n]]
<1>6. h0 = Def(h0)
  <2>1. ASSUME NEW n \in 0 .. len
        PROVE  f[n] = IF n = 0 THEN start ELSE Lookup(h0[n - 1], parts[n])
    <3>1. CASE n = 0
      <4> HIDE DEF start, step
      <4>1. QED
        BY <3>1, <1>4 DEF FollowsSteps
    <3>2. CASE n # 0
      <4>1. n \in 1 .. len /\ n - 1 \in 0 .. len
        BY <3>2, <1>1
      <4>2. h0[n - 1] = f[n - 1]
        BY <4>1
      <4>3. f[n] = Lookup(f[n - 1], parts[n])
        BY <4>1, <1>5
      <4> HIDE DEF start, h0
      <4>4. QED
        BY <3>2, <4>2, <4>3
    <3>3. QED
      BY <3>1, <3>2
  <2>2. h0 = [n \in 0 .. len |-> f[n]]
    OBVIOUS
  <2> HIDE DEF h0, start
  <2>3. QED
    BY <2>1, <2>2
<1>7. at = Def(at)
  <2> HIDE DEF Def, h0
  <2>1. QED
    BY <1>6
<1>8. Search(parts, in) = at[len]
  BY DEF Search
<1> DEFINE T == {n \in Nat : n <= len => at[n] \in Places}
<1>9. \A n \in 0 .. len : at[n] = IF n = 0 THEN start ELSE Lookup(at[n - 1], parts[n])
  <2> HIDE DEF at, start
  <2>1. QED
    BY <1>7
<1> HIDE DEF at
<1>10. \A n \in Nat : n \in T
  <2>1. 0 \in T
    <3>1. at[0] = start
      BY <1>1, <1>9
    <3>2. QED
      BY <3>1, <1>2
  <2>2. ASSUME NEW n \in Nat, n \in T PROVE n + 1 \in T
    <3>1. ASSUME n + 1 <= len PROVE at[n + 1] \in Places
      <4>1. n + 1 \in 0 .. len /\ n + 1 # 0 /\ (n + 1) - 1 = n /\ n <= len /\ n + 1 \in 1 .. len
        BY <1>1, <3>1
      <4>2. at[n + 1] = Lookup(at[n], parts[n + 1])
        <5> HIDE DEF start
        <5>1. QED
          BY <4>1, <1>9
      <4>3. at[n] \in Places /\ parts[n + 1] \in Strings
        BY <4>1, <2>2, <1>1
      <4>4. QED
        BY <4>2, <4>3, LookupType
    <3>2. QED
      BY <3>1
  <2>3. QED
    <3> HIDE DEF T
    <3>1. QED
      BY <2>1, <2>2, NatInductionSet
<1>11. IsWalk(at, parts, in)
  <2>1. at \in [0 .. len -> Places]
    <3>1. \A n \in 0 .. len : at[n] \in Places
      BY <1>1, <1>10
    <3>2. at = [n \in 0 .. len |-> at[n]]
      <4>1. at = [n \in 0 .. len |-> IF n = 0 THEN start ELSE Lookup(at[n - 1], parts[n])]
        BY <1>7
      <4> HIDE DEF start
      <4>2. QED
        BY <4>1
    <3>3. QED
      BY <3>1, <3>2
  <2>2. at[0] = Searching(in)
    BY <1>1, <1>9
  <2>3. \A n \in 1 .. len : at[n] = Lookup(at[n - 1], parts[n])
    <3> HIDE DEF start
    <3>1. QED
      BY <1>1, <1>9
  <2>4. QED
    BY <2>1, <2>2, <2>3 DEF IsWalk
<1>12. QED
  BY <1>8, <1>11

\* A value is not the invalid one.
LEMMA ValuesAreValid ==
  ASSUME NEW v \in Values PROVE v # Invalid /\ v.kind # "invalid"
BY ValueAssumption DEF Invalid

\* The parts of a path, one at least.
LEMMA PartsType ==
  ASSUME NEW path \in Seq(Strings)
  PROVE  /\ Parts(path) \in Seq(Strings) /\ Len(Parts(path)) \in Nat /\ Len(Parts(path)) >= 1
         /\ Parts(path)[Len(Parts(path))] = "" => path = <<>> \/ Last(path) = ""
<1>1. CASE path = <<>>
  <2> DEFINE blank == ""
  <2>1. blank \in Strings
    BY StringAssumption
  <2> HIDE DEF blank
  <2>2. <<blank>> \in Seq(Strings) /\ Len(<<blank>>) = 1
    BY <2>1
  <2>3. Parts(path) = <<blank>>
    BY <1>1 DEF Parts, blank
  <2>4. Parts(path) \in Seq(Strings) /\ Len(Parts(path)) = 1
    BY <2>2, <2>3
  <2>5. QED
    BY <1>1, <2>4
<1>2. CASE path # <<>>
  <2>1. Parts(path) = path /\ Len(path) \in Nat /\ Len(path) >= 1
    BY <1>2, EmptySeq, LenProperties DEF Parts
  <2>2. QED
    BY <2>1 DEF Last
<1>3. QED
  BY <1>1, <1>2

\* Where a step of the search leaves the path empty and the value invalid, the part
\* was empty.
LEMMA LookupEndsWithNothing ==
  ASSUME NEW at \in Places, NEW key \in Strings,
         LET found == Lookup(at, key)
         IN  ~found.ended /\ found.path = <<>> /\ found.val = Invalid
  PROVE  key = ""
<1> DEFINE next == JoinPath(at.path, key)
<1>1. /\ at.path \in Seq(Strings) /\ at.in \in Maps
      /\ at = [ended |-> at.ended, path |-> at.path, in |-> at.in, val |-> at.val]
  BY DEF Places
<1>2. ~at.ended
  BY DEF Lookup
<1>3. next \notin DOMAIN at.in
  <2>1. SUFFICES ASSUME next \in DOMAIN at.in PROVE FALSE
    OBVIOUS
  <2>2. at.in[next] \in Values
    BY <1>1, <2>1, MapType
  <2>3. at.in[next] # Invalid
    BY <2>2, ValuesAreValid
  <2>4. Lookup(at, key).val = at.in[next] \/ Lookup(at, key).ended
    <3>1. CASE at.in[next].kind = "map"
      <4>1. Lookup(at, key) =
              [at EXCEPT !.path = <<>>, !.in = at.in[next].map, !.val = at.in[next]]
        BY <1>2, <2>1, <3>1 DEF Lookup
      <4> HIDE DEF next
      <4>2. QED
        BY <1>1, <4>1
    <3>2. CASE at.in[next].kind # "map"
      <4>1. Lookup(at, key) = [at EXCEPT !.ended = TRUE, !.val = at.in[next]]
        BY <1>2, <2>1, <3>2 DEF Lookup
      <4> HIDE DEF next
      <4>2. QED
        BY <1>1, <4>1
    <3>3. QED
      BY <3>1, <3>2
  <2> HIDE DEF next
  <2>5. QED
    BY <2>3, <2>4
<1>4. Lookup(at, key) = [at EXCEPT !.path = next, !.val = Invalid]
  BY <1>2, <1>3 DEF Lookup
<1>5. next = <<>>
  <2> HIDE DEF next
  <2>1. QED
    BY <1>1, <1>4
<1>6. QED
  BY <1>1, <1>5, JoinPathType

\* A search ends somewhere; where it leaves the path empty and the value invalid, the
\* last part was empty.
LEMMA SearchType ==
  ASSUME NEW parts \in Seq(Strings), NEW in \in Maps, Len(parts) >= 1
  PROVE  LET found == Search(parts, in)
         IN  /\ found \in Places
             /\ ~found.ended /\ found.path = <<>> /\ found.val = Invalid
                => parts[Len(parts)] = ""
<1>1. PICK at : IsWalk(at, parts, in) /\ Search(parts, in) = at[Len(parts)]
  BY SearchWalks
<1>2. Len(parts) \in Nat /\ Len(parts) \in 1 .. Len(parts) /\ parts[Len(parts)] \in Strings
      /\ Len(parts) - 1 \in 0 .. Len(parts) /\ Len(parts) \in 0 .. Len(parts)
  BY LenProperties, ElementOfSeq
<1>3. /\ at[Len(parts)] \in Places /\ at[Len(parts) - 1] \in Places
      /\ at[Len(parts)] = Lookup(at[Len(parts) - 1], parts[Len(parts)])
  BY <1>1, <1>2 DEF IsWalk
<1>4. QED
  BY <1>1, <1>2, <1>3, LookupEndsWithNothing

\* What evalMap returns: a string, or a panic where the path ends with nothing.
LEMMA evalMapType ==
  ASSUME NEW path \in Seq(Strings), NEW in \in Maps
  PROVE  /\ evalMap(path, in) \in RawOutcomes
         /\ evalMap(path, in).panic => path = <<>> \/ Last(path) = ""
<1> DEFINE parts == Parts(path)
           found == Search(parts, in)
<1>1. parts \in Seq(Strings) /\ Len(parts) >= 1
      /\ (parts[Len(parts)] = "" => path = <<>> \/ Last(path) = "")
  BY PartsType
<1>2. /\ found \in Places
      /\ ~found.ended /\ found.path = <<>> /\ found.val = Invalid => parts[Len(parts)] = ""
  <2> HIDE DEF parts
  <2>1. QED
    BY <1>1, SearchType
<1>3. found.ended \in BOOLEAN /\ found.path \in Seq(Strings) /\ found.val \in Values \cup {Invalid}
  <2> HIDE DEF found
  <2>1. QED
    BY <1>2 DEF Places
<1>4. <<>> \in Seq(Strings)
  BY EmptySeq
<1>5. CASE found.ended
  <2>1. evalMap(path, in) = Returns(<<>>, evalValue(found.val))
    BY <1>5 DEF evalMap
  <2>2. evalValue(found.val) \in Seq(Strings)
    <3>1. CASE found.val \in Values
      BY <3>1, evalValueType
    <3>2. CASE found.val = Invalid
      <4> DEFINE json == <<"{", "json", "}">>
      <4>1. evalValue(found.val) = Printable(json)
        BY <3>2 DEF evalValue, AsString, Invalid
      <4>2. json \in Seq(Strings)
        BY JsonIsText
      <4> HIDE DEF json
      <4>3. Printable(json) \in Seq(Strings)
        BY <4>2, PrintableType
      <4>4. QED
        BY <4>1, <4>3
    <3>3. QED
      BY <1>3, <3>1, <3>2
  <2> HIDE DEF found
  <2>3. QED
    BY <2>1, <2>2, <1>4 DEF Returns, RawOutcomes
<1>6. CASE ~found.ended /\ found.path # <<>>
  <2>1. evalMap(path, in) = Returns(<<>>, <<>>)
    BY <1>6 DEF evalMap
  <2>2. QED
    BY <2>1, <1>4 DEF Returns, RawOutcomes
<1>7. CASE ~found.ended /\ found.path = <<>> /\ found.val = Invalid
  <2>1. evalMap(path, in) = Panic
    BY <1>7 DEF evalMap
  <2>2. evalMap(path, in) \in RawOutcomes
    BY <2>1, <1>4 DEF Panic, RawOutcomes
  <2>3. QED
    BY <2>2, <1>1, <1>2, <1>7
<1>8. CASE ~found.ended /\ found.path = <<>> /\ found.val # Invalid
  <2>1. evalMap(path, in) = Returns(<<>>, AsString(found.val))
    BY <1>8 DEF evalMap
  <2>2. AsString(found.val) \in Seq(Strings)
    BY <1>3, <1>8, AsStringType
  <2> HIDE DEF found
  <2>3. QED
    BY <2>1, <2>2, <1>4 DEF Returns, RawOutcomes
<1>9. QED
  BY <1>3, <1>5, <1>6, <1>7, <1>8
----------------------------------------------------------------------------
(* evalExp.                                                                *)

\* What a source names is printable, and a panic stays one.
LEMMA NamedType ==
  ASSUME NEW id \in Seq(Strings), NEW r \in RawOutcomes
  PROVE  Named(id, r) \in Outcomes /\ (Named(id, r).panic <=> r.panic)
<1>1. r.panic \in BOOLEAN /\ r.value \in Seq(Strings)
  BY DEF RawOutcomes
<1>2. CASE r.panic
  <2>1. Named(id, r) = Panic
    BY <1>2 DEF Named
  <2>2. QED
    BY <2>1, <1>2, EmptySeq DEF Panic, Outcomes
<1>3. CASE ~r.panic
  <2>1. Named(id, r) = Returns(id, FilterASCII(r.value))
    BY <1>3 DEF Named
  <2>2. FilterASCII(r.value) \in Seq(Safe)
    BY <1>1, FilterASCIIType
  <2>3. QED
    BY <2>1, <2>2, <1>3 DEF Returns, Outcomes
<1>4. QED
  BY <1>1, <1>2, <1>3

\* What a source evaluates to, and where it panics.
LEMMA evalSourceType ==
  ASSUME NEW e \in Expressions, NEW r \in Records
  PROVE  evalSource(e, r) \in Outcomes /\ (evalSource(e, r).panic => EndsWithNothing(e))
<1>1. e.path \in Seq(Strings) /\ <<>> \in Seq(Strings)
  BY ExpressionAssumption, EmptySeq
<1>2. r.attr \in Maps /\ r.rattr \in Maps /\ r.body \in Values
  BY RecordAssumption, MapType
<1>3. ASSUME NEW s \in Seq(Strings)
      PROVE  Named(e.path, Returns(<<>>, s)) \in Outcomes /\ ~Named(e.path, Returns(<<>>, s)).panic
  <2>1. Returns(<<>>, s) \in RawOutcomes /\ ~Returns(<<>>, s).panic
    BY <1>1 DEF Returns, RawOutcomes
  <2>2. QED
    BY <1>1, <2>1, NamedType
<1>4. ASSUME NEW m \in Maps
      PROVE  /\ Named(e.path, evalMap(e.path, m)) \in Outcomes
             /\ Named(e.path, evalMap(e.path, m)).panic => e.path = <<>> \/ Last(e.path) = ""
  BY <1>1, evalMapType, NamedType
<1>5. CASE e.source = "lit"
  BY <1>1, <1>3, <1>5 DEF evalSource
<1>6. CASE e.source = "rattr"
  BY <1>2, <1>4, <1>6 DEF evalSource, EndsWithNothing
<1>7. CASE e.source = "attr"
  BY <1>2, <1>4, <1>7 DEF evalSource, EndsWithNothing
<1>8. CASE e.source = "body"
  <2>1. evalSource(e, r) = evalBody(e, r.body)
    BY <1>8 DEF evalSource
  <2>2. CASE e.path # <<>> /\ r.body.kind \in {"map", "json"}
    <3>1. r.body.map \in Maps
      BY <1>2, <2>2, ValueAssumption, MapType
    <3>2. evalBody(e, r.body) = Named(e.path, evalMap(e.path, r.body.map))
      BY <2>2 DEF evalBody
    <3>3. QED
      BY <2>1, <2>2, <3>1, <3>2, <1>4, <1>8 DEF EndsWithNothing
  <2>3. CASE e.path # <<>> /\ r.body.kind = "string"
    <3>1. evalBody(e, r.body) = Returns(<<>>, <<>>)
      BY <2>3 DEF evalBody
    <3>2. QED
      BY <2>1, <3>1, EmptySeq DEF Returns, Outcomes
  <2>4. CASE e.path = <<>> \/ r.body.kind \notin {"map", "json", "string"}
    <3>1. evalBody(e, r.body) = Named(e.path, Returns(<<>>, evalValue(r.body)))
      BY <2>4 DEF evalBody
    <3>2. evalValue(r.body) \in Seq(Strings)
      BY <1>2, evalValueType
    <3>3. QED
      BY <2>1, <3>1, <3>2, <1>3
  <2>5. QED
    BY <2>2, <2>3, <2>4
<1>9. CASE e.source \notin {"lit", "rattr", "attr", "body"}
  BY <1>1, <1>3, <1>9 DEF evalSource
<1>10. QED
  BY <1>5, <1>6, <1>7, <1>8, <1>9

\* The first element that is not x.
LEMMA FirstOtherIs ==
  ASSUME NEW A, NEW s \in Seq(A), NEW x
  PROVE  \/ FirstOther(s, x) = x /\ \A k \in DOMAIN s : s[k] = x
         \/ \E k \in DOMAIN s : /\ FirstOther(s, x) = s[k] /\ s[k] # x
                                /\ \A j \in 1 .. k - 1 : s[j] = x
<1> DEFINE others == {k \in DOMAIN s : s[k] # x}
           IsFirst(k) == k \in others /\ \A j \in others : k <= j
           first == CHOOSE k \in others : \A j \in others : k <= j
<1>1. Len(s) \in Nat /\ DOMAIN s = 1 .. Len(s)
  BY LenProperties
<1>2. CASE others = {}
  BY <1>2 DEF FirstOther
<1>3. CASE others # {}
  <2>1. others \in SUBSET Nat
    BY <1>1
  <2>2. \E k \in others : \A j \in others : k <= j
    <3> HIDE DEF others
    <3>1. QED
      BY <1>3, <2>1, LeastOf
  <2>3. first \in others /\ \A j \in others : first <= j
    <3> HIDE DEF others
    <3>1. QED
      BY <2>2
  <2>4. FirstOther(s, x) = s[first]
    BY <1>3 DEF FirstOther
  <2> HIDE DEF first
  <2>5. ASSUME NEW j \in 1 .. first - 1 PROVE s[j] = x
    <3>1. first \in Nat /\ first <= Len(s) /\ j \in DOMAIN s /\ ~(first <= j)
      BY <1>1, <2>3
    <3>2. QED
      BY <2>3, <3>1
  <2>6. QED
    BY <2>3, <2>4, <2>5
<1>4. QED
  BY <1>2, <1>3

\* A replacement: the text so far and how many characters are still to be passed over,
\* step by step.
Replacements(A) == [text : Seq(A), skip : Nat]
IsReplacing(A, s, t, new, at) ==
  /\ at \in [0 .. Len(s) -> Replacements(A)]
  /\ at[0] = [text |-> <<>>, skip |-> 0]
  /\ \A n \in 1 .. Len(s) : at[n] = Replacing(s, t, new, at[n - 1], n)

\* There are such steps, and their last text is the one that is returned.
LEMMA ReplaceEveryIs ==
  ASSUME NEW A, NEW s \in Seq(A), NEW t \in Seq(A), NEW new \in Seq(A)
  PROVE  \E at : /\ IsReplacing(A, s, t, new, at)
                 /\ ReplaceEvery(s, t, new) =
                      at[Len(s)].text \o (IF t = <<>> THEN new ELSE <<>>)
<1> DEFINE len == Len(s)
           P == [text : Seq(A), skip : Nat]
           start == [text |-> <<>>, skip |-> 0]
           step == [vn \in P \X Nat |->
                      IF vn[2] \in 1 .. len THEN Replacing(s, t, new, vn[1], vn[2]) ELSE vn[1]]
           Def(h) == [n \in 0 .. len |->
                        IF n = 0 THEN start ELSE Replacing(s, t, new, h[n - 1], n)]
           at == CHOOSE h : h = Def(h)
<1>1. len \in Nat /\ DOMAIN s = 1 .. len /\ \A n \in 1 .. len : s[n] \in A
  BY LenProperties, ElementOfSeq
<1>2. start \in P
  BY EmptySeq
<1>3. ASSUME NEW v \in P, NEW n \in 1 .. len PROVE Replacing(s, t, new, v, n) \in P
  <2>1. v.text \in Seq(A) /\ v.skip \in Nat /\ v = [text |-> v.text, skip |-> v.skip]
    OBVIOUS
  <2>2. CASE v.skip > 0
    <3>1. Replacing(s, t, new, v, n) = [v EXCEPT !.skip = v.skip - 1]
      BY <2>2 DEF Replacing
    <3>2. QED
      BY <2>1, <2>2, <3>1
  <2>3. CASE v.skip = 0 /\ t = <<>>
    <3>1. Replacing(s, t, new, v, n) = [v EXCEPT !.text = v.text \o new \o <<s[n]>>]
      BY <2>3 DEF Replacing
    <3>2. s[n] \in A /\ <<s[n]>> \in Seq(A)
      BY <1>1
    <3>3. v.text \o new \o <<s[n]>> \in Seq(A)
      <4> DEFINE one == <<s[n]>>
      <4> HIDE DEF one
      <4>1. v.text \o new \in Seq(A)
        BY <2>1, ConcatProperties
      <4>2. (v.text \o new) \o one \in Seq(A)
        BY <3>2, <4>1, ConcatProperties DEF one
      <4>3. QED
        BY <4>2 DEF one
    <3>4. QED
      BY <2>1, <3>1, <3>3
  <2>4. CASE v.skip = 0 /\ t # <<>> /\ IsPrefix(t, SubSeq(s, n, Len(s)))
    <3>1. Replacing(s, t, new, v, n) = [text |-> v.text \o new, skip |-> Len(t) - 1]
      BY <2>4 DEF Replacing
    <3>2. v.text \o new \in Seq(A)
      BY <2>1, ConcatProperties
    <3>3. Len(t) - 1 \in Nat
      BY <2>4, EmptySeq, LenProperties
    <3>4. QED
      BY <3>1, <3>2, <3>3
  <2>5. CASE v.skip = 0 /\ t # <<>> /\ ~IsPrefix(t, SubSeq(s, n, Len(s)))
    <3>1. Replacing(s, t, new, v, n) = [v EXCEPT !.text = Append(v.text, s[n])]
      BY <2>5 DEF Replacing
    <3>2. Append(v.text, s[n]) \in Seq(A)
      BY <1>1, <2>1, AppendProperties
    <3>3. QED
      BY <2>1, <3>1, <3>2
  <2>6. QED
    BY <2>1, <2>2, <2>3, <2>4, <2>5
<1>4. step \in [P \X Nat -> P]
  <2>1. ASSUME NEW vn \in P \X Nat PROVE step[vn] \in P
    <3> HIDE DEF P
    <3>1. vn[1] \in P /\ vn[2] \in Nat
      OBVIOUS
    <3>2. QED
      BY <3>1, <1>3
  <2>2. step = [vn \in P \X Nat |-> step[vn]]
    OBVIOUS
  <2> HIDE DEF step, P
  <2>3. QED
    BY <2>1, <2>2
<1>5. PICK f \in [Nat -> P] : FollowsSteps(f, start, step)
  <2> HIDE DEF start, step, P
  <2>1. QED
    BY <1>2, <1>4, NatRecursion
<1>6. \A n \in 1 .. len : f[n] = Replacing(s, t, new, f[n - 1], n)
  <2>1. ASSUME NEW n \in 1 .. len PROVE f[n] = Replacing(s, t, new, f[n - 1], n)
    <3>1. n - 1 \in Nat /\ (n - 1) + 1 = n /\ n \in Nat
      BY <1>1
    <3>2. f[n] = step[<<f[n - 1], n>>]
      <4> HIDE DEF step, start, P
      <4>1. f[(n - 1) + 1] = step[<<f[n - 1], (n - 1) + 1>>]
        BY <3>1, <1>5 DEF FollowsSteps
      <4>2. QED
        BY <4>1, <3>1
    <3> HIDE DEF P
    <3>3. <<f[n - 1], n>> \in P \X Nat
      BY <3>1
    <3>4. QED
      BY <3>2, <3>3
  <2>2. QED
    BY <2>1
<1> DEFINE h0 == [n \in 0 .. len |-> f[n]]
<1>7. h0 = Def(h0)
  <2>1. ASSUME NEW n \in 0 .. len
        PROVE  f[n] = IF n = 0 THEN start ELSE Replacing(s, t, new, h0[n - 1], n)
    <3>1. CASE n = 0
      <4> HIDE DEF start, step, P
      <4>1. QED
        BY <3>1, <1>5 DEF FollowsSteps
    <3>2. CASE n # 0
      <4>1. n \in 1 .. len /\ n - 1 \in 0 .. len
        BY <3>2, <1>1
      <4>2. h0[n - 1] = f[n - 1]
        BY <4>1
      <4>3. f[n] = Replacing(s, t, new, f[n - 1], n)
        BY <4>1, <1>6
      <4> HIDE DEF start, h0
      <4>4. QED
        BY <3>2, <4>2, <4>3
    <3>3. QED
      BY <3>1, <3>2
  <2>2. h0 = [n \in 0 .. len |-> f[n]]
    OBVIOUS
  <2> HIDE DEF h0, start
  <2>3. QED
    BY <2>1, <2>2
<1>8. at = Def(at)
  <2> HIDE DEF Def, h0
  <2>1. QED
    BY <1>7
<1>9. ReplaceEvery(s, t, new) = at[len].text \o (IF t = <<>> THEN new ELSE <<>>)
  BY DEF ReplaceEvery
<1>10. \A n \in 0 .. len : at[n] = IF n = 0 THEN start ELSE Replacing(s, t, new, at[n - 1], n)
  <2> HIDE DEF at, start
  <2>1. QED
    BY <1>8
<1> HIDE DEF at
<1> DEFINE T == {n \in Nat : n <= len => at[n] \in P}
<1>11. \A n \in Nat : n \in T
  <2>1. 0 \in T
    <3> HIDE DEF start, P
    <3>1. at[0] = start
      BY <1>1, <1>10
    <3>2. QED
      BY <3>1, <1>2
  <2>2. ASSUME NEW n \in Nat, n \in T PROVE n + 1 \in T
    <3> HIDE DEF P
    <3>1. ASSUME n + 1 <= len PROVE at[n + 1] \in P
      <4> HIDE DEF P, start
      <4>1. n + 1 \in 0 .. len /\ n + 1 # 0 /\ (n + 1) - 1 = n /\ n <= len /\ n + 1 \in 1 .. len
        BY <1>1, <3>1
      <4>2. at[n + 1] = Replacing(s, t, new, at[n], n + 1)
        BY <4>1, <1>10
      <4>3. at[n] \in P
        BY <4>1, <2>2
      <4>4. QED
        BY <4>1, <4>2, <4>3, <1>3
    <3>2. QED
      BY <3>1
  <2>3. QED
    <3> HIDE DEF T
    <3>1. QED
      BY <2>1, <2>2, NatInductionSet
<1>12. IsReplacing(A, s, t, new, at)
  <2>1. at \in [0 .. len -> P]
    <3>1. \A n \in 0 .. len : at[n] \in P
      <4> HIDE DEF P
      <4>1. \A n \in 0 .. len : n \in Nat /\ n <= len
        BY <1>1
      <4>2. QED
        BY <1>11, <4>1
    <3>2. at = [n \in 0 .. len |-> at[n]]
      <4>1. DOMAIN at = 0 .. len /\ at = [n \in DOMAIN at |-> at[n]]
        BY <1>8
      <4>2. QED
        BY <4>1
    <3> HIDE DEF P
    <3>3. QED
      BY <3>1, <3>2
  <2>2. at[0] = start /\ \A n \in 1 .. len : at[n] = Replacing(s, t, new, at[n - 1], n)
    <3>1. 0 \in 0 .. len /\ \A n \in 1 .. len : n \in 0 .. len /\ n # 0
      BY <1>1
    <3> HIDE DEF start
    <3>2. QED
      BY <1>10, <3>1
  <2>3. QED
    BY <2>1, <2>2 DEF IsReplacing, Replacements
<1>13. QED
  BY <1>9, <1>12

\* Its text is a string.
LEMMA ReplaceEveryType ==
  ASSUME NEW A, NEW s \in Seq(A), NEW t \in Seq(A), NEW new \in Seq(A)
  PROVE  ReplaceEvery(s, t, new) \in Seq(A)
<1>1. PICK at : /\ IsReplacing(A, s, t, new, at)
                /\ ReplaceEvery(s, t, new) =
                     at[Len(s)].text \o (IF t = <<>> THEN new ELSE <<>>)
  BY ReplaceEveryIs
<1> DEFINE text == at[Len(s)].text
           last == IF t = <<>> THEN new ELSE <<>>
<1>2. text \in Seq(A)
  <2>1. Len(s) \in 0 .. Len(s)
    BY LenProperties
  <2>2. at[Len(s)] \in Replacements(A)
    BY <1>1, <2>1 DEF IsReplacing
  <2>3. QED
    BY <2>2 DEF Replacements
<1>3. last \in Seq(A)
  BY EmptySeq
<1> HIDE DEF text, last
<1>4. text \o last \in Seq(A)
  BY <1>2, <1>3, ConcatProperties
<1>5. QED
  BY <1>1, <1>4 DEF text, last

\* The numbers of expressions, operator by operator.
LEMMA NumExpsIs ==
  ASSUME NEW op
  PROVE  /\ op \in DOMAIN cfgOpMap <=>
              op \in {"alphanum", "lc", "unescape", "rmprefix", "rmsuffix", "rmtail",
                      "regexp", "replace", "and", "or"}
         /\ op \in {"alphanum", "lc", "unescape"} => NumExps(op) = 1
         /\ op \in {"rmprefix", "rmsuffix", "rmtail", "regexp"} => NumExps(op) = 2
         /\ op = "replace" => NumExps(op) = 3
         /\ op \in {"and", "or"} => NumExps(op) = 10
         /\ op \notin DOMAIN cfgOpMap => NumExps(op) = 0
         /\ NumExps(op) \in Nat
<1>1. op \in DOMAIN cfgOpMap <=>
        op \in {"alphanum", "lc", "unescape", "rmprefix", "rmsuffix", "rmtail",
                "regexp", "replace", "and", "or"}
  BY DEF cfgOpMap
<1>2. CASE op \in {"alphanum", "lc", "unescape"}
  <2>1. cfgOpMap[op] = 1
    BY <1>2 DEF cfgOpMap
  <2>2. QED
    BY <1>1, <1>2, <2>1 DEF NumExps
<1>3. CASE op \in {"rmprefix", "rmsuffix", "rmtail", "regexp"}
  <2>1. cfgOpMap[op] = 2
    BY <1>3 DEF cfgOpMap
  <2>2. QED
    BY <1>1, <1>3, <2>1 DEF NumExps
<1>4. CASE op = "replace"
  <2>1. cfgOpMap[op] = 3
    BY <1>4 DEF cfgOpMap
  <2>2. QED
    BY <1>1, <1>4, <2>1 DEF NumExps
<1>5. CASE op \in {"and", "or"}
  <2>1. cfgOpMap[op] = 10
    BY <1>5 DEF cfgOpMap
  <2>2. QED
    BY <1>1, <1>5, <2>1 DEF NumExps
<1>6. CASE op \notin DOMAIN cfgOpMap
  BY <1>1, <1>6 DEF NumExps
<1>7. QED
  BY <1>1, <1>2, <1>3, <1>4, <1>5, <1>6

\* The index of a last occurrence is in the string, and it is an occurrence.
LEMMA LastIndexIs ==
  ASSUME NEW A, NEW s \in Seq(A), NEW t \in Seq(A)
  PROVE  LET at == {k \in 0 .. Len(s) - Len(t) : SubSeq(s, k + 1, k + Len(t)) = t}
         IN  \/ LastIndex(s, t) = -1 /\ at = {}
             \/ LastIndex(s, t) \in at /\ \A j \in at : j <= LastIndex(s, t)
<1> DEFINE at == {k \in 0 .. Len(s) - Len(t) : SubSeq(s, k + 1, k + Len(t)) = t}
<1>1. Len(s) \in Nat /\ Len(t) \in Nat
  BY LenProperties
<1>2. CASE at = {}
  BY <1>2 DEF LastIndex
<1>3. CASE at # {}
  <2>1. LastIndex(s, t) = CHOOSE k \in at : \A j \in at : j <= k
    BY <1>3 DEF LastIndex
  <2>2. at \in SUBSET (0 .. Len(s))
    BY <1>1
  <2> HIDE DEF at
  <2>3. \E k \in at : \A j \in at : j <= k
    BY <1>1, <1>3, <2>2, GreatestOf
  <2>4. LastIndex(s, t) \in at /\ \A j \in at : j <= LastIndex(s, t)
    BY <2>1, <2>3
  <2>5. QED
    BY <2>4 DEF at
<1>4. QED
  BY <1>2, <1>3

\* The arguments of `and', each behind a space but the first.
Spaced(a) == [k \in DOMAIN a |-> IF k = 1 THEN a[k] ELSE <<" ">> \o a[k]]

\* They are safe strings.
SafeText == Seq(Safe)
LEMMA SpacedType ==
  ASSUME NEW a \in Seq(SafeText)
  PROVE  Spaced(a) \in Seq(SafeText) /\ Len(Spaced(a)) = Len(a)
<1> DEFINE g == Spaced(a)
           blank == " "
           one == <<blank>>
<1>1. DOMAIN g = DOMAIN a /\ g = [k \in DOMAIN a |-> g[k]]
  BY DEF Spaced
<1>2. \A k \in DOMAIN a : g[k] = IF k = 1 THEN a[k] ELSE one \o a[k]
  BY DEF Spaced
<1>3. one \in SafeText
  <2>1. blank \in Safe
    BY StringAssumption DEF Safe
  <2> HIDE DEF blank
  <2>2. QED
    BY <2>1 DEF SafeText
<1> HIDE DEF g, one
<1>4. \A k \in DOMAIN a : a[k] \in SafeText
  BY ElementOfSeq, LenProperties
<1>5. ASSUME NEW t \in SafeText PROVE one \o t \in SafeText
  BY <1>3, ConcatProperties DEF SafeText
<1>6. \A k \in DOMAIN a : g[k] \in SafeText
  BY <1>2, <1>4, <1>5
<1>7. g \in Seq(SafeText) /\ Len(g) = Len(a)
  BY <1>1, <1>6, MappedSeq
<1>8. QED
  BY <1>7 DEF g

\* Lower case is as safe as what it is made of.
LEMMA SafeLower == \A c \in Safe : ToLower(c) \in Safe
BY CharacterAssumption DEF Safe

\* What a pattern and its groups match of a safe string is safe.
LEMMA SubmatchType ==
  ASSUME CapturesAreParts, NEW p \in Seq(Safe), NEW s \in Seq(Safe)
  PROVE  FindStringSubmatch(p, s) \in Seq(SafeText)
<1>1. s \in Seq(Strings) /\ p \in Seq(Strings)
  <2>1. Safe \subseteq Strings
    BY DEF Safe
  <2>2. QED
    BY <2>1, SeqOfLarger
<1> DEFINE C == {s[i] : i \in DOMAIN s}
           arr == FindStringSubmatch(p, s)
<1>2. arr \in Seq(Seq(C))
  BY <1>1 DEF CapturesAreParts
<1>3. C \subseteq Safe
  BY ElementOfSeq, LenProperties
<1> HIDE DEF C, arr
<1>4. \A q \in Seq(C) : q \in SafeText
  BY <1>3, SeqOfLarger DEF SafeText
<1>5. Seq(C) \subseteq SafeText
  BY <1>4
<1>6. arr \in Seq(SafeText)
  BY <1>2, <1>5, SeqOfLarger
<1>7. QED
  BY <1>6 DEF arr

\* The operators make safe strings of safe strings.
LEMMA ApplyType ==
  ASSUME CapturesAreParts, NEW op, NEW a \in Seq(Seq(Safe)), Len(a) >= 1,
         NumExps(op) > 1 => Len(a) >= 2, op = "replace" => Len(a) >= 3
  PROVE  Apply(op, a) \in Seq(Safe)
<1>1. Len(a) \in Nat /\ DOMAIN a = 1 .. Len(a) /\ a[1] \in Seq(Safe)
  BY LenProperties, ElementOfSeq
<1>2. Safe \subseteq Strings
  BY DEF Safe
<1>3. NumExps(op) > 1 => a[2] \in Seq(Safe)
  <2>1. Len(a) >= 2 => 2 \in 1 .. Len(a)
    BY <1>1
  <2>2. QED
    BY <2>1, ElementOfSeq
<1>4. Len(a[1]) \in Nat
  BY <1>1, LenProperties
<1>5. CASE op = "rmprefix"
  <2>1. a[2] \in Seq(Safe) /\ Len(a[2]) \in Nat
    BY <1>3, <1>5, NumExpsIs, LenProperties
  <2>2. SubSeq(a[1], Len(a[2]) + 1, Len(a[1])) \in Seq(Safe)
    BY <1>1, <1>4, <2>1, PartOfSeq
  <2>3. QED
    BY <1>1, <1>5, <2>2 DEF Apply
<1>6. CASE op = "rmsuffix"
  <2>1. a[2] \in Seq(Safe) /\ Len(a[2]) \in Nat
    BY <1>3, <1>6, NumExpsIs, LenProperties
  <2>2. SubSeq(a[1], 1, Len(a[1]) - Len(a[2])) \in Seq(Safe)
    BY <1>1, <1>4, <2>1, PartOfSeq
  <2>3. QED
    BY <1>1, <1>6, <2>2 DEF Apply
<1>7. CASE op = "rmtail"
  <2>1. a[2] \in Seq(Safe) /\ Len(a[2]) \in Nat
    BY <1>3, <1>7, NumExpsIs, LenProperties
  <2> DEFINE i == LastIndex(a[1], a[2])
  <2>2. i = -1 \/ i \in 0 .. Len(a[1]) - Len(a[2])
    BY <1>1, <2>1, LastIndexIs
  <2>3. Apply(op, a) = IF i > -1 THEN SubSeq(a[1], 1, i) ELSE a[1]
    BY <1>7 DEF Apply
  <2> HIDE DEF i
  <2>4. CASE i \in 0 .. Len(a[1]) - Len(a[2])
    <3>1. i \in Int /\ i <= Len(a[1])
      BY <1>4, <2>1, <2>4
    <3>2. SubSeq(a[1], 1, i) \in Seq(Safe)
      BY <1>1, <3>1, PartOfSeq
    <3>3. QED
      BY <1>1, <2>3, <3>2
  <2>5. QED
    BY <1>1, <2>2, <2>3, <2>4
<1>8. CASE op = "alphanum"
  <2> DEFINE X == Strings \ AlphaNum
  <2>1. Apply(op, a) = Without(a[1], X)
    BY <1>8 DEF Apply
  <2> HIDE DEF X
  <2>2. QED
    BY <1>1, <2>1, WithoutType
<1>9. CASE op = "lc"
  <2> DEFINE g == [k \in DOMAIN a[1] |-> ToLower(a[1][k])]
  <2>1. Apply(op, a) = g
    BY <1>9 DEF Apply
  <2>2. \A k \in DOMAIN a[1] : g[k] \in Safe
    BY <1>1, SafeLower, ElementOfSeq, LenProperties
  <2>3. DOMAIN g = DOMAIN a[1] /\ g = [k \in DOMAIN a[1] |-> g[k]]
    OBVIOUS
  <2> HIDE DEF g
  <2>4. g \in Seq(Safe)
    BY <1>1, <2>2, <2>3, MappedSeq
  <2>5. QED
    BY <2>1, <2>4
<1>10. CASE op = "unescape"
  <2>1. Apply(op, a) = Without(a[1], {"esc"})
    BY <1>10 DEF Apply
  <2> DEFINE X == {"esc"}
  <2>2. Without(a[1], X) \in Seq(Safe)
    <3> HIDE DEF X
    <3>1. QED
      BY <1>1, WithoutType
  <2>3. QED
    BY <2>1, <2>2
<1>11. CASE op = "replace"
  <2>1. a[2] \in Seq(Safe) /\ a[3] \in Seq(Safe)
    <3>1. 3 \in 1 .. Len(a)
      BY <1>1, <1>11
    <3>2. QED
      BY <1>3, <1>11, <3>1, NumExpsIs, ElementOfSeq
  <2>2. Apply(op, a) = ReplaceEvery(a[1], a[2], a[3])
    BY <1>11 DEF Apply
  <2>3. QED
    BY <1>1, <2>1, <2>2, ReplaceEveryType
<1>12. CASE op = "regexp"
  <2>1. a[2] \in Seq(Safe)
    BY <1>3, <1>12, NumExpsIs
  <2> DEFINE arr == FindStringSubmatch(a[2], a[1])
  <2>2. arr \in Seq(SafeText)
    BY <1>1, <2>1, SubmatchType
  <2>3. Apply(op, a) = IF ~Compiles(a[2]) THEN a[1]
                       ELSE IF Len(arr) > 1 THEN FlattenSeq(Tail(arr)) ELSE <<>>
    BY <1>12 DEF Apply
  <2> HIDE DEF arr
  <2>4. Len(arr) > 1 => FlattenSeq(Tail(arr)) \in Seq(Safe)
    <3>1. Len(arr) > 1 => Tail(arr) \in Seq(SafeText)
      BY <2>2, EmptySeq, HeadTailProperties
    <3>2. QED
      BY <3>1, FlattenSeqType DEF SafeText
  <2>5. QED
    BY <1>1, <2>3, <2>4, EmptySeq
<1>13. CASE op = "and"
  <2>1. Apply(op, a) = FlattenSeq(Spaced(a))
    BY <1>13 DEF Apply, Spaced
  <2>2. Spaced(a) \in Seq(Seq(Safe))
    BY SpacedType DEF SafeText
  <2>3. QED
    BY <2>1, <2>2, FlattenSeqType
<1>14. CASE op = "or"
  <2>1. Apply(op, a) = FirstOther(a, <<>>)
    BY <1>14 DEF Apply
  <2>2. \/ FirstOther(a, <<>>) = <<>>
        \/ \E k \in DOMAIN a : FirstOther(a, <<>>) = a[k]
    BY FirstOtherIs
  <2>3. <<>> \in Seq(Safe) /\ \A k \in DOMAIN a : a[k] \in Seq(Safe)
    BY <1>1, EmptySeq, ElementOfSeq
  <2>4. QED
    BY <2>1, <2>2, <2>3
<1>15. CASE op \notin {"alphanum", "lc", "unescape", "rmprefix", "rmsuffix", "rmtail",
                      "regexp", "replace", "and", "or"}
  <2>1. Apply(op, a) = a[1]
    BY <1>15 DEF Apply
  <2>2. QED
    BY <1>1, <2>1
<1>16. QED
  BY <1>5, <1>6, <1>7, <1>8, <1>9, <1>10, <1>11, <1>12, <1>13, <1>14, <1>15

\* How many expressions are evaluated.
LEMMA ArityIs ==
  ASSUME NEW e \in Expressions
  PROVE  /\ Arity(e) \in Nat /\ Arity(e) >= 1
         /\ NumExps(e.op) > 1 => Arity(e) >= 2
         /\ e.op = "replace" => Arity(e) >= 3
<1>1. Len(e.exps) \in Nat /\ NumExps(e.op) \in Nat
  BY ExpressionAssumption, LenProperties, NumExpsIs
<1>2. CASE e.op = "replace"
  <2>1. NumExps(e.op) = 3
    BY <1>2, NumExpsIs
  <2>2. Arity(e) = 3
    BY <1>2, <2>1 DEF Arity, Variadic
  <2>3. QED
    BY <2>2
<1>3. CASE e.op # "replace" /\ Variadic(e.op) /\ Len(e.exps) >= 2
  <2>1. Arity(e) = Len(e.exps)
    BY <1>3 DEF Arity
  <2>2. QED
    BY <1>1, <1>3, <2>1
<1>4. CASE e.op # "replace" /\ ~(Variadic(e.op) /\ Len(e.exps) >= 2)
  <2>1. Arity(e) = IF NumExps(e.op) > 1 THEN 2 ELSE 1
    BY <1>4 DEF Arity
  <2>2. QED
    BY <1>1, <1>4, <2>1
<1>5. QED
  BY <1>2, <1>3, <1>4

\* The values of the expressions that are evaluated.
Arguments(e, outcomes) == [k \in 1 .. Arity(e) |-> outcomes[k].value]

\* They are as many safe strings.
LEMMA ArgumentsType ==
  ASSUME NEW e \in Expressions, NEW outcomes \in Seq(Outcomes), Arity(e) <= Len(outcomes)
  PROVE  Arguments(e, outcomes) \in Seq(SafeText) /\ Len(Arguments(e, outcomes)) = Arity(e)
<1>1. Arity(e) \in Nat /\ Len(outcomes) \in Nat
  BY ArityIs, LenProperties
<1>2. ASSUME NEW k \in 1 .. Arity(e) PROVE outcomes[k].value \in SafeText
  <2>1. k \in 1 .. Len(outcomes)
    BY <1>1
  <2>2. outcomes[k] \in Outcomes
    BY <2>1, ElementOfSeq
  <2>3. QED
    BY <2>2 DEF Outcomes, SafeText
<1>3. Arguments(e, outcomes) \in Seq(SafeText)
  BY <1>1, <1>2, IsASeq DEF Arguments
<1>4. QED
  BY <1>1, <1>3, LenProperties DEF Arguments

\* The outcome of an expression, from those of its parts.
LEMMA OutcomeType ==
  ASSUME CapturesAreParts, NEW e \in Expressions, NEW r \in Records,
         NEW outcomes \in Seq(Outcomes)
  PROVE  Outcome(e, r, outcomes) \in Outcomes
<1>1. CASE e = Nil
  <2>1. Outcome(e, r, outcomes) = Returns(<<>>, <<>>)
    BY <1>1 DEF Outcome
  <2>2. QED
    BY <2>1, EmptySeq DEF Returns, Outcomes
<1>2. CASE e # Nil /\ HasSource(e)
  <2>1. Outcome(e, r, outcomes) = evalSource(e, r)
    BY <1>2 DEF Outcome
  <2>2. QED
    BY <2>1, evalSourceType
<1>3. CASE e # Nil /\ ~HasSource(e)
  <2> DEFINE Fails == \/ Arity(e) > Len(outcomes)
                      \/ \E k \in 1 .. Arity(e) : outcomes[k].panic
             a == Arguments(e, outcomes)
  <2>1. Outcome(e, r, outcomes) =
          IF Fails THEN Panic ELSE Returns(outcomes[1].id, Apply(e.op, a))
    BY <1>3 DEF Outcome, Arguments
  <2>2. CASE Fails
    <3> HIDE DEF Fails
    <3>1. Outcome(e, r, outcomes) = Panic
      BY <2>1, <2>2
    <3>2. QED
      BY <3>1, EmptySeq DEF Panic, Outcomes
  <2>3. CASE ~Fails
    <3>1. Arity(e) \in Nat /\ Len(outcomes) \in Nat /\ Arity(e) <= Len(outcomes)
      BY <2>3, ArityIs, LenProperties
    <3>2. a \in Seq(SafeText) /\ Len(a) = Arity(e)
      BY <3>1, ArgumentsType
    <3> HIDE DEF a, Fails
    <3>3. Apply(e.op, a) \in Seq(Safe)
      <4>1. /\ Len(a) >= 1 /\ (NumExps(e.op) > 1 => Len(a) >= 2)
            /\ e.op = "replace" => Len(a) >= 3
        BY <3>2, ArityIs
      <4>2. a \in Seq(Seq(Safe))
        BY <3>2 DEF SafeText
      <4>3. QED
        BY <4>1, <4>2, ApplyType
    <3>4. outcomes[1].id \in Seq(Strings)
      <4>1. 1 \in 1 .. Len(outcomes)
        BY <3>1, ArityIs
      <4>2. outcomes[1] \in Outcomes
        BY <4>1, ElementOfSeq
      <4>3. QED
        BY <4>2 DEF Outcomes
    <3>5. Outcome(e, r, outcomes) = Returns(outcomes[1].id, Apply(e.op, a))
      BY <2>1, <2>3
    <3>6. QED
      BY <3>3, <3>4, <3>5 DEF Returns, Outcomes
  <2>4. QED
    BY <2>2, <2>3
<1>4. QED
  BY <1>1, <1>2, <1>3

\* The trees: the expressions, with their parts and their depth.
partsOf == [e \in Expressions |-> e.exps]
depthOf == [e \in Expressions |-> Depth(e)]

LEMMA ExpressionsAreTrees ==
  /\ DepthDecreases(Expressions, partsOf, depthOf)
  /\ \A e \in Expressions : partsOf[e] = e.exps /\ e.exps \in Seq(Expressions)
<1>1. \A e \in Expressions : e.exps \in Seq(Expressions) /\ Depth(e) \in Nat
  BY ExpressionAssumption
<1>2. ASSUME NEW e \in Expressions, NEW k \in DOMAIN partsOf[e]
      PROVE  depthOf[partsOf[e][k]] < depthOf[e]
  <2>1. partsOf[e] = e.exps /\ k \in DOMAIN e.exps
    BY DEF partsOf
  <2>2. e.exps[k] \in Expressions
    BY <1>1, <2>1, ElementOfSeq, LenProperties
  <2>3. Depth(e.exps[k]) < Depth(e)
    BY <2>1, ExpressionAssumption
  <2>4. QED
    BY <2>1, <2>2, <2>3 DEF depthOf
<1>3. QED
  BY <1>1, <1>2 DEF DepthDecreases, partsOf, depthOf

\* A set that holds every expression whose parts it holds, holds every expression.
LEMMA ExpressionInduction ==
  ASSUME NEW T,
         \A e \in Expressions : (\A k \in DOMAIN e.exps : e.exps[k] \in T) => e \in T
  PROVE  \A e \in Expressions : e \in T
<1>1. DepthDecreases(Expressions, partsOf, depthOf)
  BY ExpressionsAreTrees
<1>2. HasWithParts(Expressions, partsOf, T)
  BY ExpressionsAreTrees DEF HasWithParts
<1>3. QED
  BY <1>1, <1>2, TreeInductionSet

\* evalExp is what the recursion defines, and its values are outcomes.
OutcomesAt(e, r) == [k \in DOMAIN e.exps |-> evalExp[e.exps[k]][r]]
LEMMA evalExpIs ==
  ASSUME CapturesAreParts
  PROVE  \A e \in Expressions : \A r \in Records :
           /\ evalExp[e][r] = Outcome(e, r, OutcomesAt(e, r))
           /\ evalExp[e][r] \in Outcomes
           /\ OutcomesAt(e, r) \in Seq(Outcomes) /\ Len(OutcomesAt(e, r)) = Len(e.exps)
<1> DEFINE V == [Records -> Outcomes]
           At(vs, r) == [k \in DOMAIN vs |-> vs[k][r]]
           step == [ev \in Expressions \X Seq(V) |->
                      [r \in Records |-> Outcome(ev[1], r, At(ev[2], r))]]
           Def(h) == [e \in Expressions |->
                        [r \in Records |-> Outcome(e, r, [k \in DOMAIN e.exps |-> h[e.exps[k]][r]])]]
<1>1. DepthDecreases(Expressions, partsOf, depthOf)
      /\ \A e \in Expressions : partsOf[e] = e.exps /\ e.exps \in Seq(Expressions)
  BY ExpressionsAreTrees
<1>2. ASSUME NEW vs \in Seq(V), NEW r \in Records PROVE At(vs, r) \in Seq(Outcomes)
  <2>1. Len(vs) \in Nat /\ DOMAIN vs = 1 .. Len(vs) /\ \A k \in 1 .. Len(vs) : vs[k] \in V
    <3> HIDE DEF V
    <3>1. QED
      BY LenProperties, ElementOfSeq
  <2>2. \A k \in 1 .. Len(vs) : vs[k][r] \in Outcomes
    BY <2>1
  <2> HIDE DEF V
  <2>3. At(vs, r) = [k \in 1 .. Len(vs) |-> vs[k][r]]
    BY <2>1
  <2>4. QED
    BY <2>1, <2>2, <2>3, IsASeq
<1>3. ASSUME NEW e \in Expressions, NEW vs \in Seq(V)
      PROVE  [r \in Records |-> Outcome(e, r, At(vs, r))] \in V
  <2>1. \A r \in Records : Outcome(e, r, At(vs, r)) \in Outcomes
    <3>1. ASSUME NEW r \in Records PROVE Outcome(e, r, At(vs, r)) \in Outcomes
      <4> DEFINE o == At(vs, r)
      <4>1. o \in Seq(Outcomes)
        BY <1>2
      <4> HIDE DEF o
      <4>2. Outcome(e, r, o) \in Outcomes
        BY <4>1, OutcomeType
      <4>3. QED
        BY <4>2 DEF o
    <3>2. QED
      BY <3>1
  <2> HIDE DEF At
  <2>2. QED
    BY <2>1
<1>4. step \in [Expressions \X Seq(V) -> V]
  <2> HIDE DEF V, At
  <2>1. QED
    BY <1>3
<1>5. [r \in Records |-> Panic] \in V
  <2>1. Panic \in Outcomes
    BY EmptySeq DEF Panic, Outcomes
  <2>2. QED
    BY <2>1
<1>6. PICK f \in [Expressions -> V] : FollowsParts(f, Expressions, partsOf, step)
  <2> DEFINE v0 == [r \in Records |-> Panic]
  <2> HIDE DEF V, step, v0
  <2>1. v0 \in V
    BY <1>5 DEF v0
  <2>2. QED
    BY <1>1, <1>4, <2>1, TreeRecursion
<1>7. f = Def(f)
  <2>1. ASSUME NEW e \in Expressions
        PROVE  f[e] = [r \in Records |-> Outcome(e, r, [k \in DOMAIN e.exps |-> f[e.exps[k]][r]])]
    <3> DEFINE vs == AtParts(f, partsOf, e)
    <3>1. vs \in Seq(V) /\ vs = [k \in DOMAIN e.exps |-> f[e.exps[k]]]
      <4> HIDE DEF V
      <4>1. partsOf \in [Expressions -> Seq(Expressions)]
        BY <1>1 DEF DepthDecreases
      <4>2. \A k \in DOMAIN partsOf[e] : f[partsOf[e][k]] \in V
        BY <1>1, <1>6, ElementOfSeq, LenProperties
      <4>3. vs \in Seq(V)
        BY <4>1, <4>2, AtPartsType
      <4>4. QED
        BY <1>1, <4>3 DEF AtParts
    <3>2. f[e] = step[<<e, vs>>]
      <4> HIDE DEF step, V
      <4>1. QED
        BY <1>6 DEF FollowsParts
    <3>3. step[<<e, vs>>] = [r \in Records |-> Outcome(e, r, At(vs, r))]
      <4> HIDE DEF V, vs, At
      <4>1. <<e, vs>> \in Expressions \X Seq(V)
        BY <3>1
      <4>2. QED
        BY <4>1
    <3>4. ASSUME NEW r \in Records PROVE At(vs, r) = [k \in DOMAIN e.exps |-> f[e.exps[k]][r]]
      <4> HIDE DEF vs
      <4>1. QED
        BY <3>1
    <3> HIDE DEF vs, step, At
    <3>5. QED
      BY <3>2, <3>3, <3>4
  <2>2. f = [e \in Expressions |-> f[e]]
    <3> HIDE DEF V
    <3>1. QED
      BY <1>6
  <2>3. QED
    BY <2>1, <2>2
<1>8. evalExp = Def(evalExp)
  <2>1. evalExp = CHOOSE h : h = Def(h)
    BY DEF evalExp
  <2> HIDE DEF Def
  <2>2. QED
    BY <1>7, <2>1
<1>9. \A e \in Expressions : \A r \in Records : evalExp[e][r] = Outcome(e, r, OutcomesAt(e, r))
  <2>1. ASSUME NEW e \in Expressions
        PROVE  evalExp[e] =
                 [r \in Records |-> Outcome(e, r, [k \in DOMAIN e.exps |-> evalExp[e.exps[k]][r]])]
    BY <1>8
  <2>2. QED
    BY <2>1 DEF OutcomesAt
<1> DEFINE T == {e \in Expressions : \A r \in Records : evalExp[e][r] \in Outcomes}
<1>10. ASSUME NEW e \in Expressions, NEW r \in Records,
              \A k \in DOMAIN e.exps : e.exps[k] \in T
       PROVE  OutcomesAt(e, r) \in Seq(Outcomes) /\ Len(OutcomesAt(e, r)) = Len(e.exps)
  <2>1. Len(e.exps) \in Nat /\ DOMAIN e.exps = 1 .. Len(e.exps)
    BY <1>1, LenProperties
  <2>2. \A k \in 1 .. Len(e.exps) : evalExp[e.exps[k]][r] \in Outcomes
    BY <1>10, <2>1
  <2>3. OutcomesAt(e, r) = [k \in 1 .. Len(e.exps) |-> evalExp[e.exps[k]][r]]
    BY <2>1 DEF OutcomesAt
  <2>4. OutcomesAt(e, r) \in Seq(Outcomes)
    BY <2>1, <2>2, <2>3, IsASeq
  <2>5. QED
    BY <2>1, <2>3, <2>4, LenProperties
<1>11. \A e \in Expressions : e \in T
  <2>1. ASSUME NEW e \in Expressions, \A k \in DOMAIN e.exps : e.exps[k] \in T
        PROVE  e \in T
    <3>1. \A k \in DOMAIN e.exps : e.exps[k] \in T
      BY <2>1
    <3>2. ASSUME NEW r \in Records PROVE evalExp[e][r] \in Outcomes
      <4>1. OutcomesAt(e, r) \in Seq(Outcomes)
        BY <1>10, <3>1
      <4>2. QED
        BY <1>9, <4>1, OutcomeType
    <3>3. QED
      BY <3>2
  <2>2. QED
    <3> HIDE DEF T
    <3>1. QED
      BY <2>1, ExpressionInduction
<1>12. ASSUME NEW e \in Expressions PROVE \A k \in DOMAIN e.exps : e.exps[k] \in T
  <2>1. \A k \in DOMAIN e.exps : e.exps[k] \in Expressions
    BY <1>1, ElementOfSeq, LenProperties
  <2>2. QED
    BY <1>11, <2>1
<1>13. QED
  BY <1>9, <1>10, <1>11, <1>12
----------------------------------------------------------------------------
(* validateProfileExp and PartsOf.                                         *)

Verdicts == {"accepted", "rejected", "panic"}

\* The first refusal is a verdict, and one of those it is taken from.
LEMMA FirstRefusalIs ==
  ASSUME NEW verdicts \in Seq(Verdicts)
  PROVE  /\ FirstRefusal(verdicts) \in Verdicts
         /\ FirstRefusal(verdicts) = "accepted" => \A k \in DOMAIN verdicts : verdicts[k] = "accepted"
         /\ FirstRefusal(verdicts) # "accepted" =>
              \E k \in DOMAIN verdicts : verdicts[k] = FirstRefusal(verdicts)
<1> DEFINE x == "accepted"
           r == FirstRefusal(verdicts)
<1>1. r = FirstOther(verdicts, x)
  BY DEF FirstRefusal
<1>2. x \in Verdicts /\ \A k \in DOMAIN verdicts : verdicts[k] \in Verdicts
  <2>1. \A k \in DOMAIN verdicts : verdicts[k] \in Verdicts
    BY ElementOfSeq, LenProperties
  <2>2. QED
    BY <2>1 DEF Verdicts
<1> HIDE DEF x, r
<1>3. \/ r = x /\ \A k \in DOMAIN verdicts : verdicts[k] = x
      \/ \E k \in DOMAIN verdicts : r = verdicts[k] /\ verdicts[k] # x
  BY <1>1, FirstOtherIs
<1>4. /\ r \in Verdicts
      /\ r = x => \A k \in DOMAIN verdicts : verdicts[k] = x
      /\ r # x => \E k \in DOMAIN verdicts : verdicts[k] = r
  BY <1>2, <1>3
<1>5. QED
  BY <1>4 DEF x, r

\* The check of an expression alone: it crashes on the pattern of a regexp that has
\* been counted.
LEMMA CheckIs ==
  ASSUME NEW e \in Expressions
  PROVE  /\ Check(e) \in Verdicts
         /\ Check(e) = "panic" =>
              /\ e.op = "regexp" /\ Counted(e)
              /\ Len(e.exps) < 2 \/ e.exps[2] = Nil
                 \/ (e.exps[2].source = "lit" /\ ~e.exps[2].colon)
         /\ Check(e) = "accepted" =>
              /\ ~(HasSource(e) <=> e.op # "")
              /\ e.source \in cfgSourceMap \cup {""}
              /\ e.op \in DOMAIN cfgOpMap \cup {""}
              /\ e.op # "" => Counted(e)
<1> DEFINE Bad == \/ HasSource(e) = (e.op # "")
                  \/ e.source \notin cfgSourceMap \cup {""}
                  \/ e.op \notin DOMAIN cfgOpMap \cup {""}
                  \/ e.op # "" /\ ~Counted(e)
<1>1. CheckPattern(e.exps) \in Verdicts
      /\ (CheckPattern(e.exps) = "panic" =>
            Len(e.exps) < 2 \/ e.exps[2] = Nil \/ (e.exps[2].source = "lit" /\ ~e.exps[2].colon))
  BY DEF CheckPattern, Verdicts
<1>2. CASE Bad
  <2>1. Check(e) = "rejected"
    BY <1>2 DEF Check
  <2> HIDE DEF Bad
  <2>2. QED
    BY <2>1 DEF Verdicts
<1>3. CASE ~Bad
  <2>1. Check(e) = IF e.op = "regexp" THEN CheckPattern(e.exps) ELSE "accepted"
    BY <1>3 DEF Check
  <2>2. /\ ~(HasSource(e) <=> e.op # "")
        /\ e.source \in cfgSourceMap \cup {""}
        /\ e.op \in DOMAIN cfgOpMap \cup {""}
        /\ e.op # "" => Counted(e)
    <3>1. HasSource(e) \in BOOLEAN /\ (e.op # "") \in BOOLEAN
      BY DEF HasSource
    <3>2. QED
      BY <1>3, <3>1
  <2> HIDE DEF Bad
  <2>3. CASE e.op = "regexp"
    <3>1. Check(e) = CheckPattern(e.exps) /\ Counted(e)
      BY <2>1, <2>2, <2>3
    <3>2. QED
      BY <1>1, <2>2, <2>3, <3>1
  <2>4. CASE e.op # "regexp"
    <3>1. Check(e) = "accepted"
      BY <2>1, <2>4
    <3>2. QED
      BY <2>2, <3>1 DEF Verdicts
  <2>5. QED
    BY <2>3, <2>4
<1>4. QED
  BY <1>2, <1>3

\* The verdict on an expression, from those on its parts.
LEMMA VerdictType ==
  ASSUME NEW e \in Expressions, NEW verdicts \in Seq(Verdicts)
  PROVE  Verdict(e, verdicts) \in Verdicts
<1>1. Check(e) \in Verdicts /\ FirstRefusal(verdicts) \in Verdicts /\ "accepted" \in Verdicts
  BY CheckIs, FirstRefusalIs DEF Verdicts
<1>2. QED
  BY <1>1 DEF Verdict

\* validateProfileExp is what the recursion defines, and its values are verdicts.
VerdictsOn(e) == [k \in DOMAIN e.exps |-> validateProfileExp[e.exps[k]]]
LEMMA validateProfileExpIs ==
  \A e \in Expressions :
    /\ validateProfileExp[e] = Verdict(e, VerdictsOn(e))
    /\ validateProfileExp[e] \in Verdicts
    /\ VerdictsOn(e) \in Seq(Verdicts) /\ Len(VerdictsOn(e)) = Len(e.exps)
<1> DEFINE step == [ev \in Expressions \X Seq(Verdicts) |-> Verdict(ev[1], ev[2])]
           Def(h) == [e \in Expressions |-> Verdict(e, [k \in DOMAIN e.exps |-> h[e.exps[k]]])]
<1>1. DepthDecreases(Expressions, partsOf, depthOf)
      /\ \A e \in Expressions : partsOf[e] = e.exps /\ e.exps \in Seq(Expressions)
  BY ExpressionsAreTrees
<1>2. step \in [Expressions \X Seq(Verdicts) -> Verdicts]
  BY VerdictType
<1>3. PICK f \in [Expressions -> Verdicts] : FollowsParts(f, Expressions, partsOf, step)
  <2> DEFINE v0 == "panic"
  <2>1. v0 \in Verdicts
    BY DEF Verdicts
  <2> HIDE DEF v0, step
  <2>2. QED
    BY <1>1, <1>2, <2>1, TreeRecursion
<1>4. f = Def(f)
  <2>1. ASSUME NEW e \in Expressions
        PROVE  f[e] = Verdict(e, [k \in DOMAIN e.exps |-> f[e.exps[k]]])
    <3> DEFINE vs == AtParts(f, partsOf, e)
    <3>1. vs \in Seq(Verdicts) /\ vs = [k \in DOMAIN e.exps |-> f[e.exps[k]]]
      <4>1. partsOf \in [Expressions -> Seq(Expressions)]
        BY <1>1 DEF DepthDecreases
      <4>2. \A k \in DOMAIN partsOf[e] : f[partsOf[e][k]] \in Verdicts
        BY <1>1, <1>3, ElementOfSeq, LenProperties
      <4>3. vs \in Seq(Verdicts)
        BY <4>1, <4>2, AtPartsType
      <4>4. QED
        BY <1>1, <4>3 DEF AtParts
    <3>2. f[e] = step[<<e, vs>>]
      <4> HIDE DEF step
      <4>1. QED
        BY <1>3 DEF FollowsParts
    <3> HIDE DEF vs
    <3>3. step[<<e, vs>>] = Verdict(e, vs)
      <4>1. <<e, vs>> \in Expressions \X Seq(Verdicts)
        BY <3>1
      <4>2. QED
        BY <4>1
    <3> HIDE DEF step
    <3>4. QED
      BY <3>1, <3>2, <3>3
  <2>2. f = [e \in Expressions |-> f[e]]
    BY <1>3
  <2>3. QED
    BY <2>1, <2>2
<1>5. validateProfileExp = Def(validateProfileExp)
  <2>1. validateProfileExp = CHOOSE h : h = Def(h)
    BY DEF validateProfileExp
  <2> HIDE DEF Def
  <2>2. QED
    BY <1>4, <2>1
<1>6. \A e \in Expressions : validateProfileExp[e] = Verdict(e, VerdictsOn(e))
  BY <1>5 DEF VerdictsOn
<1> DEFINE T == {e \in Expressions : validateProfileExp[e] \in Verdicts}
<1>7. ASSUME NEW e \in Expressions, \A k \in DOMAIN e.exps : e.exps[k] \in T
      PROVE  VerdictsOn(e) \in Seq(Verdicts) /\ Len(VerdictsOn(e)) = Len(e.exps)
  <2>1. e.exps \in Seq(Expressions) /\ DOMAIN VerdictsOn(e) = DOMAIN e.exps
    BY <1>1 DEF VerdictsOn
  <2>2. VerdictsOn(e) = [k \in DOMAIN e.exps |-> VerdictsOn(e)[k]]
    BY DEF VerdictsOn
  <2>3. \A k \in DOMAIN e.exps : VerdictsOn(e)[k] \in Verdicts
    BY <1>7 DEF VerdictsOn
  <2>4. QED
    <3> DEFINE g == VerdictsOn(e)
               s == e.exps
    <3>1. /\ s \in Seq(Expressions) /\ DOMAIN g = DOMAIN s
          /\ g = [k \in DOMAIN s |-> g[k]] /\ \A k \in DOMAIN s : g[k] \in Verdicts
      BY <2>1, <2>2, <2>3
    <3> HIDE DEF g, s
    <3>2. g \in Seq(Verdicts) /\ Len(g) = Len(s)
      BY <3>1, MappedSeq
    <3>3. QED
      BY <3>2 DEF g, s
<1>8. \A e \in Expressions : e \in T
  <2>1. ASSUME NEW e \in Expressions, \A k \in DOMAIN e.exps : e.exps[k] \in T
        PROVE  e \in T
    <3>1. VerdictsOn(e) \in Seq(Verdicts)
      BY <1>7, <2>1
    <3>2. QED
      BY <1>6, <3>1, VerdictType
  <2>2. QED
    <3> HIDE DEF T
    <3>1. QED
      BY <2>1, ExpressionInduction
<1>9. ASSUME NEW e \in Expressions PROVE \A k \in DOMAIN e.exps : e.exps[k] \in T
  <2>1. \A k \in DOMAIN e.exps : e.exps[k] \in Expressions
    BY <1>1, ElementOfSeq, LenProperties
  <2>2. QED
    BY <1>8, <2>1
<1>10. QED
  BY <1>6, <1>7, <1>8, <1>9

\* PartsOf is what the recursion defines.
LEMMA PartsOfIs ==
  \A e \in Expressions :
    PartsOf[e] = {e} \cup UNION {PartsOf[e.exps[k]] : k \in DOMAIN e.exps}
<1> DEFINE V == SUBSET Expressions
           From(e, vs) == {e} \cup UNION {vs[k] : k \in DOMAIN vs}
           step == [ev \in Expressions \X Seq(V) |-> From(ev[1], ev[2])]
           Def(h) == [e \in Expressions |-> {e} \cup UNION {h[e.exps[k]] : k \in DOMAIN e.exps}]
<1>1. DepthDecreases(Expressions, partsOf, depthOf)
      /\ \A e \in Expressions : partsOf[e] = e.exps /\ e.exps \in Seq(Expressions)
  BY ExpressionsAreTrees
<1>2. step \in [Expressions \X Seq(V) -> V]
  <2>1. ASSUME NEW e \in Expressions, NEW vs \in Seq(V) PROVE From(e, vs) \in V
    <3>1. \A k \in DOMAIN vs : vs[k] \in V
      <4> HIDE DEF V
      <4>1. QED
        BY ElementOfSeq, LenProperties
    <3>2. QED
      BY <3>1
  <2> HIDE DEF V, From
  <2>2. QED
    BY <2>1
<1>3. PICK f \in [Expressions -> V] : FollowsParts(f, Expressions, partsOf, step)
  <2> DEFINE v0 == {}
  <2>1. v0 \in V
    OBVIOUS
  <2> HIDE DEF v0, step, V
  <2>2. QED
    BY <1>1, <1>2, <2>1, TreeRecursion
<1>4. f = Def(f)
  <2>1. ASSUME NEW e \in Expressions
        PROVE  f[e] = {e} \cup UNION {f[e.exps[k]] : k \in DOMAIN e.exps}
    <3> DEFINE vs == AtParts(f, partsOf, e)
    <3>1. vs \in Seq(V) /\ vs = [k \in DOMAIN e.exps |-> f[e.exps[k]]]
      <4> HIDE DEF V
      <4>1. partsOf \in [Expressions -> Seq(Expressions)]
        BY <1>1 DEF DepthDecreases
      <4>2. \A k \in DOMAIN partsOf[e] : f[partsOf[e][k]] \in V
        BY <1>1, <1>3, ElementOfSeq, LenProperties
      <4>3. vs \in Seq(V)
        BY <4>1, <4>2, AtPartsType
      <4>4. QED
        BY <1>1, <4>3 DEF AtParts
    <3>2. f[e] = step[<<e, vs>>]
      <4> HIDE DEF step, V
      <4>1. QED
        BY <1>3 DEF FollowsParts
    <3> HIDE DEF vs
    <3>3. step[<<e, vs>>] = From(e, vs)
      <4> HIDE DEF V, From
      <4>1. <<e, vs>> \in Expressions \X Seq(V)
        BY <3>1
      <4>2. QED
        BY <4>1
    <3>4. From(e, vs) = {e} \cup UNION {f[e.exps[k]] : k \in DOMAIN e.exps}
      <4>1. DOMAIN vs = DOMAIN e.exps /\ \A k \in DOMAIN e.exps : vs[k] = f[e.exps[k]]
        BY <3>1
      <4>2. {vs[k] : k \in DOMAIN vs} = {f[e.exps[k]] : k \in DOMAIN e.exps}
        BY <4>1
      <4>3. QED
        BY <4>2
    <3> HIDE DEF step, From
    <3>5. QED
      BY <3>2, <3>3, <3>4
  <2>2. f = [e \in Expressions |-> f[e]]
    <3> HIDE DEF V
    <3>1. QED
      BY <1>3
  <2>3. QED
    BY <2>1, <2>2
<1>5. PartsOf = Def(PartsOf)
  <2>1. PartsOf = CHOOSE h : h = Def(h)
    BY DEF PartsOf
  <2> HIDE DEF Def
  <2>2. QED
    BY <1>4, <2>1
<1>6. QED
  BY <1>5

\* An expression is a part of itself, and what is a part of a part is one.
LEMMA PartsOfParts ==
  ASSUME NEW e \in Expressions
  PROVE  /\ e \in PartsOf[e]
         /\ \A k \in DOMAIN e.exps : \A x \in PartsOf[e.exps[k]] : x \in PartsOf[e]
BY PartsOfIs

\* An operation that was counted evaluates the expressions it has.
LEMMA CountedHasArity ==
  ASSUME NEW e \in Expressions, e.op \in DOMAIN cfgOpMap, Counted(e)
  PROVE  /\ Arity(e) = Len(e.exps)
         /\ NumExps(e.op) # 10 => Len(e.exps) = NumExps(e.op)
<1>1. Len(e.exps) \in Nat /\ NumExps(e.op) \in {1, 2, 3, 10}
      /\ (NumExps(e.op) = 3 <=> e.op = "replace")
  BY ExpressionAssumption, LenProperties, NumExpsIs
<1>2. Variadic(e.op) <=> NumExps(e.op) = 10
  BY DEF Variadic
<1>3. CASE NumExps(e.op) = 10
  <2>1. Variadic(e.op) /\ Len(e.exps) >= 2 /\ e.op # "replace"
    BY <1>1, <1>2, <1>3 DEF Counted
  <2>2. QED
    BY <1>3, <2>1 DEF Arity
<1>4. CASE NumExps(e.op) # 10
  <2>1. ~Variadic(e.op) /\ Len(e.exps) = NumExps(e.op)
    BY <1>2, <1>4 DEF Counted
  <2>2. Arity(e) = NumExps(e.op)
    BY <1>1, <1>4, <2>1 DEF Arity
  <2>3. QED
    BY <2>1, <2>2
<1>5. QED
  BY <1>3, <1>4

\* An operation panics only if it lacks an expression or one of them panics.
LEMMA OperationPanics ==
  ASSUME NEW e \in Expressions, NEW r, NEW outcomes, Outcome(e, r, outcomes).panic,
         e # Nil, ~HasSource(e), Arity(e) <= Len(outcomes), Len(outcomes) \in Nat
  PROVE  \E k \in 1 .. Arity(e) : outcomes[k].panic
<1>1. Arity(e) \in Nat
  BY ArityIs
<1>2. ASSUME ~\E k \in 1 .. Arity(e) : outcomes[k].panic PROVE FALSE
  <2>1. Outcome(e, r, outcomes) =
          Returns(outcomes[1].id, Apply(e.op, [k \in 1 .. Arity(e) |-> outcomes[k].value]))
    BY <1>1, <1>2 DEF Outcome
  <2>2. ~Outcome(e, r, outcomes).panic
    BY <2>1 DEF Returns
  <2>3. QED
    BY <2>2
<1>3. QED
  BY <1>2

\* What was accepted panics only at a source that ends with nothing.
LEMMA AcceptedEvaluates ==
  ASSUME CapturesAreParts
  PROVE  \A e \in Expressions : \A r \in Records :
           validateProfileExp[e] = "accepted" /\ evalExp[e][r].panic =>
             \E x \in PartsOf[e] : EndsWithNothing(x)
<1> DEFINE T == {e \in Expressions : \A r \in Records :
                   validateProfileExp[e] = "accepted" /\ evalExp[e][r].panic =>
                     \E x \in PartsOf[e] : EndsWithNothing(x)}
<1>1. ASSUME NEW e \in Expressions, \A k \in DOMAIN e.exps : e.exps[k] \in T
      PROVE  e \in T
  <2> SUFFICES ASSUME NEW r \in Records, validateProfileExp[e] = "accepted", evalExp[e][r].panic
               PROVE  \E x \in PartsOf[e] : EndsWithNothing(x)
    OBVIOUS
  <2> DEFINE outcomes == OutcomesAt(e, r)
  <2>1. /\ evalExp[e][r] = Outcome(e, r, outcomes)
        /\ outcomes \in Seq(Outcomes) /\ Len(outcomes) = Len(e.exps)
    BY evalExpIs
  <2>2. /\ validateProfileExp[e] = Verdict(e, VerdictsOn(e))
        /\ VerdictsOn(e) \in Seq(Verdicts) /\ Len(VerdictsOn(e)) = Len(e.exps)
    BY validateProfileExpIs
  <2>3. e \in PartsOf[e]
    BY PartsOfParts
  <2>4. CASE e = Nil
    <3>1. ~Outcome(e, r, outcomes).panic
      <4> HIDE DEF outcomes
      <4>1. QED
        BY <2>4 DEF Outcome, Returns
    <3>2. QED
      BY <2>1, <3>1
  <2>5. CASE e # Nil /\ HasSource(e)
    <3>1. Outcome(e, r, outcomes) = evalSource(e, r)
      <4> HIDE DEF outcomes
      <4>1. QED
        BY <2>5 DEF Outcome
    <3>2. EndsWithNothing(e)
      BY <2>1, <3>1, evalSourceType
    <3>3. QED
      BY <2>3, <3>2
  <2>6. CASE e # Nil /\ ~HasSource(e)
    <3>1. Check(e) = "accepted" /\ FirstRefusal(VerdictsOn(e)) = "accepted"
      BY <2>2, <2>6 DEF Verdict
    <3>2. e.op \in DOMAIN cfgOpMap /\ Counted(e)
      BY <2>6, <3>1, CheckIs
    <3>3. Arity(e) <= Len(e.exps) /\ Arity(e) \in Nat
      BY <3>2, CountedHasArity, ArityIs
    <3>4. Len(outcomes) \in Nat /\ DOMAIN VerdictsOn(e) = 1 .. Len(e.exps) /\ Len(e.exps) \in Nat
      <4> HIDE DEF outcomes
      <4>1. QED
        BY <2>1, <2>2, LenProperties
    <3>5. PICK k \in 1 .. Arity(e) : outcomes[k].panic
      <4> HIDE DEF outcomes
      <4>1. QED
        BY <2>1, <2>6, <3>3, <3>4, OperationPanics
    <3>6. k \in DOMAIN VerdictsOn(e) /\ k \in DOMAIN e.exps
      <4>1. k \in DOMAIN VerdictsOn(e)
        BY <3>3, <3>4
      <4>2. QED
        BY <4>1 DEF VerdictsOn
    <3>7. outcomes[k] = evalExp[e.exps[k]][r]
      BY <3>6 DEF OutcomesAt
    <3>8. validateProfileExp[e.exps[k]] = "accepted"
      <4>1. VerdictsOn(e)[k] = "accepted"
        BY <2>2, <3>1, <3>6, FirstRefusalIs
      <4>2. QED
        BY <4>1, <3>6 DEF VerdictsOn
    <3>9. \E x \in PartsOf[e.exps[k]] : EndsWithNothing(x)
      BY <1>1, <3>5, <3>6, <3>7, <3>8
    <3>10. QED
      BY <3>6, <3>9, PartsOfParts
  <2>7. QED
    BY <2>4, <2>5, <2>6
<1>2. QED
  <2>1. \A e \in Expressions : (\A k \in DOMAIN e.exps : e.exps[k] \in T) => e \in T
    BY <1>1
  <2> HIDE DEF T
  <2>2. \A e \in Expressions : e \in T
    BY <2>1, ExpressionInduction
  <2>3. QED
    BY <2>2 DEF T

\* The pattern of a regexp that is not there, or has no text.
HasNoPattern(e) == /\ e.op = "regexp" /\ Len(e.exps) = 2
                   /\ \/ e.exps[2] = Nil
                      \/ e.exps[2].source = "lit" /\ ~e.exps[2].colon

\* The validation panics at such a part of the expression only.
LEMMA PanicIsPattern ==
  \A e \in Expressions : validateProfileExp[e] = "panic" => \E x \in PartsOf[e] : HasNoPattern(x)
<1> DEFINE T == {e \in Expressions :
                   validateProfileExp[e] = "panic" => \E x \in PartsOf[e] : HasNoPattern(x)}
<1>1. ASSUME NEW e \in Expressions, \A k \in DOMAIN e.exps : e.exps[k] \in T
      PROVE  e \in T
  <2> SUFFICES ASSUME validateProfileExp[e] = "panic"
               PROVE  \E x \in PartsOf[e] : HasNoPattern(x)
    OBVIOUS
  <2>1. /\ validateProfileExp[e] = Verdict(e, VerdictsOn(e))
        /\ VerdictsOn(e) \in Seq(Verdicts)
    BY validateProfileExpIs
  <2>2. CASE Check(e) = "panic"
    <3>1. e.op = "regexp" /\ Counted(e)
      BY <2>2, CheckIs
    <3>2. Len(e.exps) = 2
      <4>1. NumExps(e.op) = 2
        BY <3>1, NumExpsIs
      <4>2. ~Variadic(e.op)
        BY <4>1 DEF Variadic
      <4>3. QED
        BY <3>1, <4>1, <4>2 DEF Counted
    <3>3. e.exps[2] = Nil \/ (e.exps[2].source = "lit" /\ ~e.exps[2].colon)
      <4>1. Len(e.exps) < 2 \/ e.exps[2] = Nil \/ (e.exps[2].source = "lit" /\ ~e.exps[2].colon)
        BY <2>2, CheckIs
      <4>2. ~(Len(e.exps) < 2)
        BY <3>2
      <4>3. QED
        BY <4>1, <4>2, Zenon
    <3>4. QED
      BY <3>1, <3>2, <3>3, PartsOfParts DEF HasNoPattern
  <2>3. CASE Check(e) # "panic"
    <3>1. FirstRefusal(VerdictsOn(e)) = "panic"
      BY <2>1, <2>3 DEF Verdict
    <3>2. PICK k \in DOMAIN VerdictsOn(e) : VerdictsOn(e)[k] = "panic"
      BY <2>1, <3>1, FirstRefusalIs
    <3>3. k \in DOMAIN e.exps /\ validateProfileExp[e.exps[k]] = "panic"
      BY <3>2 DEF VerdictsOn
    <3>4. \E x \in PartsOf[e.exps[k]] : HasNoPattern(x)
      BY <1>1, <3>3
    <3>5. QED
      BY <3>3, <3>4, PartsOfParts
  <2>4. QED
    BY <2>2, <2>3
<1>2. QED
  <2>1. \A e \in Expressions : (\A k \in DOMAIN e.exps : e.exps[k] \in T) => e \in T
    BY <1>1
  <2> HIDE DEF T
  <2>2. \A e \in Expressions : e \in T
    BY <2>1, ExpressionInduction
  <2>3. QED
    BY <2>2 DEF T
----------------------------------------------------------------------------
(* The configuration.                                                      *)

\* The verdict on an element is that on its expression, or on its pattern.
LEMMA ElemVerdict ==
  ASSUME NEW a \in Attributes
  PROVE  /\ validateProfileElem(a) \in Verdicts
         /\ validateProfileElem(a) = "accepted" /\ a # NoAttribute =>
              /\ validateProfileExp[a.exp] = "accepted"
              /\ a.validate = <<>> \/ Compiles(a.validate)
         /\ validateProfileElem(a) = "panic" => validateProfileExp[a.exp] = "panic"
<1> DEFINE v == validateProfileExp[a.exp]
           w == IF a.validate = <<>> \/ Compiles(a.validate) THEN "accepted" ELSE "rejected"
           s == <<v, w>>
<1>1. a.exp \in Expressions
  BY DEF Attributes
<1>2. v \in Verdicts
  BY <1>1, validateProfileExpIs
<1>3. w \in Verdicts /\ w # "panic"
  BY DEF Verdicts
<1>4. validateProfileElem(a) = IF a = NoAttribute THEN "accepted" ELSE FirstRefusal(s)
  BY DEF validateProfileElem
<1>5. w = "accepted" => a.validate = <<>> \/ Compiles(a.validate)
  OBVIOUS
<1> HIDE DEF v, w
<1>6. s \in Seq(Verdicts) /\ DOMAIN s = 1..2 /\ s[1] = v /\ s[2] = w
  BY <1>2, <1>3
<1> HIDE DEF s
<1>7. /\ FirstRefusal(s) \in Verdicts
      /\ FirstRefusal(s) = "accepted" => v = "accepted" /\ w = "accepted"
      /\ FirstRefusal(s) = "panic" => v = "panic"
  <2>1. \A k \in DOMAIN s : s[k] = v \/ s[k] = w
    BY <1>6
  <2>2. FirstRefusal(s) = "accepted" => s[1] = "accepted" /\ s[2] = "accepted"
    BY <1>6, FirstRefusalIs
  <2>3. FirstRefusal(s) = "panic" => \E k \in DOMAIN s : s[k] = "panic"
    BY <1>6, FirstRefusalIs
  <2>4. FirstRefusal(s) \in Verdicts
    BY <1>6, FirstRefusalIs
  <2>5. QED
    BY <1>3, <1>6, <2>1, <2>2, <2>3, <2>4
<1>8. "accepted" \in Verdicts
  BY DEF Verdicts
<1>9. QED
  BY <1>4, <1>5, <1>7, <1>8 DEF v

\* What decides is among the verdicts joined, and one that accepts has them all.
LEMMA FirstRefusalOfThree ==
  ASSUME NEW q1 \in Seq(Verdicts), NEW q2 \in Seq(Verdicts), NEW q3 \in Seq(Verdicts)
  PROVE  LET f == FirstRefusal(q1 \o q2 \o q3)
         IN  /\ f \in Verdicts
             /\ f = "accepted" => \A x : Has(q1, x) \/ Has(q2, x) \/ Has(q3, x) => x = "accepted"
             /\ f = "panic" => Has(q1, "panic") \/ Has(q2, "panic") \/ Has(q3, "panic")
<1> DEFINE q12 == q1 \o q2
           q == q12 \o q3
<1>1. q12 \in Seq(Verdicts)
  BY ConcatProperties
<1>2. \A x : Has(q12, x) <=> Has(q1, x) \/ Has(q2, x)
  BY ConcatElements
<1> HIDE DEF q12
<1>3. q \in Seq(Verdicts)
  BY <1>1, ConcatProperties
<1>4. \A x : Has(q, x) <=> Has(q12, x) \/ Has(q3, x)
  BY <1>1, ConcatElements
<1> HIDE DEF q
<1>5. /\ FirstRefusal(q) \in Verdicts
      /\ FirstRefusal(q) = "accepted" => \A x : Has(q, x) => x = "accepted"
      /\ FirstRefusal(q) = "panic" => Has(q, "panic")
  <2>1. FirstRefusal(q) = "accepted" => \A k \in DOMAIN q : q[k] = "accepted"
    BY <1>3, FirstRefusalIs
  <2>2. FirstRefusal(q) = "panic" => \E k \in DOMAIN q : q[k] = "panic"
    BY <1>3, FirstRefusalIs
  <2>3. QED
    BY <1>3, <2>1, <2>2, FirstRefusalIs DEF Has
<1>6. /\ FirstRefusal(q) \in Verdicts
      /\ FirstRefusal(q) = "accepted" => \A x : Has(q1, x) \/ Has(q2, x) \/ Has(q3, x) => x = "accepted"
      /\ FirstRefusal(q) = "panic" => Has(q1, "panic") \/ Has(q2, "panic") \/ Has(q3, "panic")
  BY <1>2, <1>4, <1>5
<1>7. QED
  BY <1>6 DEF q, q12

\* The elements of a profile.
LEMMA ElementsType ==
  ASSUME NEW p \in Profiles
  PROVE  /\ \A n \in 1..5 : p[ElementNames[n]] \in Attributes
         /\ p.labels \in Seq(Attributes) /\ \A k \in DOMAIN p.labels : p.labels[k] \in Attributes
         /\ \A a : a \in Elements(p) <=> \/ \E n \in 1..5 : a = p[ElementNames[n]]
                                         \/ \E k \in DOMAIN p.labels : a = p.labels[k]
<1>1. p.service_group \in Attributes /\ p.host \in Attributes /\ p.logbasename \in Attributes
      /\ p.severity \in Attributes /\ p.message \in Attributes /\ p.labels \in Seq(Attributes)
  BY DEF Profiles
<1>2. ASSUME NEW n \in 1..5 PROVE p[ElementNames[n]] \in Attributes
  <2>1. CASE n = 1
    BY <1>1, <2>1 DEF ElementNames
  <2>2. CASE n = 2
    BY <1>1, <2>2 DEF ElementNames
  <2>3. CASE n = 3
    BY <1>1, <2>3 DEF ElementNames
  <2>4. CASE n = 4
    BY <1>1, <2>4 DEF ElementNames
  <2>5. CASE n = 5
    BY <1>1, <2>5 DEF ElementNames
  <2>6. QED
    BY <2>1, <2>2, <2>3, <2>4, <2>5
<1>3. \A k \in DOMAIN p.labels : p.labels[k] \in Attributes
  BY <1>1, ElementOfSeq, LenProperties
<1>4. QED
  BY <1>1, <1>2, <1>3 DEF Elements, ToSet

\* The verdict on a profile.
LEMMA ProfileVerdict ==
  ASSUME NEW p \in Profiles
  PROVE  /\ ValidateProfile(p) \in Verdicts
         /\ ValidateProfile(p) = "accepted" =>
              \A a \in Elements(p) : validateProfileElem(a) = "accepted"
         /\ ValidateProfile(p) = "panic" =>
              \E a \in Elements(p) : validateProfileElem(a) = "panic"
<1> DEFINE q1 == [n \in 1..5 |-> validateProfileElem(p[ElementNames[n]])]
           w == IF p.format \in cfgFormatMap \cup {""} THEN "accepted" ELSE "rejected"
           q2 == <<w>>
           q3 == LabelVerdicts(p)
<1>1. q1 \in Seq(Verdicts)
  <2>1. \A n \in 1..5 : q1[n] \in Verdicts
    BY ElementsType, ElemVerdict
  <2>2. 5 \in Nat /\ q1 = [n \in 1..5 |-> q1[n]]
    OBVIOUS
  <2> HIDE DEF q1
  <2>3. QED
    BY <2>1, <2>2, IsASeq
<1>2. q2 \in Seq(Verdicts) /\ ~Has(q2, "panic")
  <2>1. w \in Verdicts /\ w # "panic"
    BY DEF Verdicts
  <2> HIDE DEF w
  <2>2. QED
    BY <2>1 DEF Has
<1>3. q3 \in Seq(Verdicts)
  <2> DEFINE s == p.labels
  <2>1. s \in Seq(Attributes)
    BY ElementsType
  <2>2. /\ DOMAIN q3 = DOMAIN s /\ q3 = [k \in DOMAIN s |-> q3[k]]
        /\ \A k \in DOMAIN s : q3[k] \in Verdicts
    BY ElementsType, ElemVerdict DEF LabelVerdicts
  <2> HIDE DEF s, q3
  <2>3. QED
    BY <2>1, <2>2, MappedSeq
<1>4. ValidateProfile(p) = FirstRefusal(q1 \o q2 \o q3)
  BY DEF ValidateProfile
<1>5. \A x : Has(q1, x) <=> \E n \in 1..5 : x = validateProfileElem(p[ElementNames[n]])
  BY DEF Has
<1>6. \A x : Has(q3, x) <=> \E k \in DOMAIN p.labels : x = validateProfileElem(p.labels[k])
  BY DEF Has, LabelVerdicts
<1> HIDE DEF q1, q2, q3
<1>7. /\ ValidateProfile(p) \in Verdicts
      /\ ValidateProfile(p) = "accepted" =>
           \A x : Has(q1, x) \/ Has(q2, x) \/ Has(q3, x) => x = "accepted"
      /\ ValidateProfile(p) = "panic" => Has(q1, "panic") \/ Has(q2, "panic") \/ Has(q3, "panic")
  BY <1>1, <1>2, <1>3, <1>4, FirstRefusalOfThree
<1>8. ASSUME ValidateProfile(p) = "accepted", NEW a \in Elements(p)
      PROVE  validateProfileElem(a) = "accepted"
  <2>1. Has(q1, validateProfileElem(a)) \/ Has(q3, validateProfileElem(a))
    BY <1>5, <1>6, ElementsType
  <2>2. QED
    BY <1>7, <1>8, <2>1
<1>9. ASSUME ValidateProfile(p) = "panic"
      PROVE  \E a \in Elements(p) : validateProfileElem(a) = "panic"
  <2>1. Has(q1, "panic") \/ Has(q3, "panic")
    BY <1>2, <1>7, <1>9
  <2>2. QED
    BY <1>5, <1>6, <2>1, ElementsType
<1>10. QED
  BY <1>7, <1>8, <1>9

\* The verdict on a configuration is that on the elements of its profiles, on a
\* format or on the sizes, and only an element can make the validation panic.
LEMMA ConfigVerdict ==
  ASSUME NEW c \in Configs
  PROVE  /\ Validate(c) \in Verdicts
         /\ c.profiles \in Seq(Profiles) /\ \A n \in DOMAIN c.profiles : c.profiles[n] \in Profiles
         /\ Validate(c) = "accepted" =>
              \A n \in DOMAIN c.profiles : \A a \in Elements(c.profiles[n]) :
                validateProfileElem(a) = "accepted"
         /\ Validate(c) = "panic" =>
              \E n \in DOMAIN c.profiles : \E a \in Elements(c.profiles[n]) :
                validateProfileElem(a) = "panic"
<1> DEFINE s == c.profiles
           q1 == [n \in DOMAIN c.profiles |-> ValidateProfile(c.profiles[n])]
           w == IF c.maxSize > 0 /\ c.maxSize < c.size THEN "rejected" ELSE "accepted"
           q2 == <<w>>
           q3 == <<>>
<1>1. s \in Seq(Profiles) /\ \A n \in DOMAIN s : s[n] \in Profiles
  <2>1. s \in Seq(Profiles)
    BY ConfigAssumption
  <2> HIDE DEF s
  <2>2. QED
    BY <2>1, ElementOfSeq, LenProperties
<1>2. q1 \in Seq(Verdicts)
  <2>1. /\ DOMAIN q1 = DOMAIN s /\ q1 = [n \in DOMAIN s |-> q1[n]]
        /\ \A n \in DOMAIN s : q1[n] \in Verdicts
    BY <1>1, ProfileVerdict
  <2> HIDE DEF s, q1
  <2>2. QED
    BY <1>1, <2>1, MappedSeq
<1>3. q2 \in Seq(Verdicts) /\ ~Has(q2, "panic") /\ q3 \in Seq(Verdicts) /\ ~Has(q3, "panic")
  <2>1. w \in Verdicts /\ w # "panic"
    BY DEF Verdicts
  <2> HIDE DEF w
  <2>2. QED
    BY <2>1 DEF Has
<1>4. Validate(c) = FirstRefusal(q1 \o q2 \o q3)
  <2>1. Validate(c) = FirstRefusal(q1 \o q2)
    BY DEF Validate
  <2> HIDE DEF q1, q2
  <2>2. q1 \o q2 \in Seq(Verdicts)
    BY <1>2, <1>3, ConcatProperties
  <2>3. q1 \o q2 \o q3 = q1 \o q2
    BY <2>2, ConcatEmptySeq
  <2>4. QED
    BY <2>1, <2>3
<1>5. \A x : Has(q1, x) <=> \E n \in DOMAIN c.profiles : x = ValidateProfile(c.profiles[n])
  BY DEF Has
<1> HIDE DEF s, q1, q2, q3
<1>6. /\ Validate(c) \in Verdicts
      /\ Validate(c) = "accepted" =>
           \A x : Has(q1, x) \/ Has(q2, x) \/ Has(q3, x) => x = "accepted"
      /\ Validate(c) = "panic" => Has(q1, "panic") \/ Has(q2, "panic") \/ Has(q3, "panic")
  BY <1>2, <1>3, <1>4, FirstRefusalOfThree
<1>7. c.profiles \in Seq(Profiles) /\ \A n \in DOMAIN c.profiles : c.profiles[n] \in Profiles
  BY <1>1 DEF s
<1>8. ASSUME Validate(c) = "accepted", NEW n \in DOMAIN c.profiles,
             NEW a \in Elements(c.profiles[n])
      PROVE  validateProfileElem(a) = "accepted"
  <2>1. ValidateProfile(c.profiles[n]) = "accepted"
    BY <1>5, <1>6, <1>8
  <2>2. QED
    BY <1>7, <2>1, ProfileVerdict
<1>9. ASSUME Validate(c) = "panic"
      PROVE  \E n \in DOMAIN c.profiles : \E a \in Elements(c.profiles[n]) :
               validateProfileElem(a) = "panic"
  <2>1. PICK n \in DOMAIN c.profiles : ValidateProfile(c.profiles[n]) = "panic"
    BY <1>3, <1>5, <1>6, <1>9
  <2>2. QED
    BY <1>7, <2>1, ProfileVerdict
<1>10. QED
  BY <1>6, <1>7, <1>8, <1>9

\* EvalElem panics if the expression does or the pattern is none, and otherwise
\* returns the expression's value or, if a pattern is to be matched, nothing.
LEMMA EvalElemType ==
  ASSUME CapturesAreParts, NEW a \in Attributes, NEW r \in Records
  PROVE  /\ EvalElem(a, r).panic =>
              /\ a # NoAttribute
              /\ evalExp[a.exp][r].panic \/ (a.validate # <<>> /\ ~Compiles(a.validate))
         /\ EvalElem(a, r).value \in Seq(Safe)
         /\ ~EvalElem(a, r).panic /\ a # NoAttribute /\ a.validate = <<>> =>
              /\ ~evalExp[a.exp][r].panic
              /\ EvalElem(a, r).value = evalExp[a.exp][r].value
<1> DEFINE v == evalExp[a.exp][r]
           id == IF a.rename = <<>> THEN v.id ELSE a.rename
<1>1. v.value \in Seq(Safe) /\ v.panic \in BOOLEAN
  <2>1. a.exp \in Expressions
    BY DEF Attributes
  <2>2. v \in Outcomes
    BY <2>1, evalExpIs
  <2>3. QED
    BY <2>2 DEF Outcomes
<1>2. EvalElem(a, r) =
        IF a = NoAttribute THEN Returns(<<>>, <<>>)
        ELSE IF v.panic \/ (a.validate # <<>> /\ ~Compiles(a.validate)) THEN Panic
        ELSE Returns(id, IF a.validate = <<>> \/ Matches(a.validate, v.value)
                         THEN v.value ELSE <<>>)
  BY DEF EvalElem
<1>3. <<>> \in Seq(Safe)
  BY EmptySeq
<1> HIDE DEF v, id
<1>4. CASE a = NoAttribute
  <2>1. EvalElem(a, r) = Returns(<<>>, <<>>)
    BY <1>2, <1>4
  <2>2. QED
    BY <1>3, <1>4, <2>1 DEF Returns
<1>5. CASE a # NoAttribute /\ (v.panic \/ (a.validate # <<>> /\ ~Compiles(a.validate)))
  <2>1. EvalElem(a, r) = Panic
    BY <1>2, <1>5
  <2>2. EvalElem(a, r).panic /\ EvalElem(a, r).value = <<>>
    BY <2>1 DEF Panic
  <2>3. QED
    BY <1>3, <1>5, <2>2 DEF v
<1>6. CASE /\ a # NoAttribute /\ ~v.panic
           /\ a.validate = <<>> \/ Compiles(a.validate)
  <2>1. \/ EvalElem(a, r) = Returns(id, v.value)
        \/ EvalElem(a, r) = Returns(id, <<>>) /\ a.validate # <<>>
    BY <1>1, <1>2, <1>6
  <2>2. ~EvalElem(a, r).panic
        /\ (EvalElem(a, r).value = v.value \/ (EvalElem(a, r).value = <<>> /\ a.validate # <<>>))
    BY <2>1 DEF Returns
  <2>3. QED
    BY <1>1, <1>3, <1>6, <2>2 DEF v
<1>7. QED
  BY <1>4, <1>5, <1>6

\* The state: before the verdict, with the verdict of the configuration, and with
\* the evaluation of an element of a configuration that was accepted.
Evaluated(c, a, r, outcome) ==
  /\ Validate(c) = "accepted"
  /\ \E n \in DOMAIN c.profiles : a \in Elements(c.profiles[n])
  /\ outcome = EvalElem(a, r)
ConfigInv ==
  /\ config \in Configs /\ rec \in Records
  /\ pc \in {"read", "done"} \cup Verdicts
  /\ pc \in Verdicts => pc = Validate(config)
  /\ pc = "done" => Evaluated(config, elem, rec, result)

\* The state is always so.
LEMMA ConfigInvariant == Spec => []ConfigInv
<1>1. Init => ConfigInv
  BY DEF Init, ConfigInv, Verdicts
<1>2. ConfigInv /\ [Next]_vars => ConfigInv'
  <2> SUFFICES ASSUME ConfigInv, [Next]_vars PROVE ConfigInv'
    OBVIOUS
  <2>1. CASE Read
    <3>1. /\ pc' = Validate(config) /\ config' = config /\ rec' = rec
          /\ config \in Configs /\ rec \in Records
      BY <2>1 DEF Read, ConfigInv
    <3>2. Validate(config) \in Verdicts
      BY <3>1, ConfigVerdict
    <3>3. pc' # "done"
      BY <3>1, <3>2 DEF Verdicts
    <3>4. QED
      BY <3>1, <3>2, <3>3 DEF ConfigInv
  <2>2. CASE Evaluate
    <3>1. /\ pc = "accepted" /\ pc' = "done" /\ config' = config /\ rec' = rec
          /\ \E n \in DOMAIN config.profiles : elem' \in Elements(config.profiles[n])
          /\ result' = EvalElem(elem', rec)
      BY <2>2 DEF Evaluate
    <3>2. Validate(config) = "accepted"
      BY <3>1 DEF ConfigInv, Verdicts
    <3>3. Evaluated(config', elem', rec', result')
      BY <3>1, <3>2 DEF Evaluated
    <3>4. "done" \notin Verdicts
      BY DEF Verdicts
    <3>5. QED
      BY <3>1, <3>3, <3>4 DEF ConfigInv
  <2>3. CASE UNCHANGED vars
    BY <2>3 DEF vars, ConfigInv
  <2>4. QED
    BY <2>1, <2>2, <2>3 DEF Next, Done
<1>3. QED
  BY <1>1, <1>2, PTL DEF Spec

\* What the evaluation needs of an expression: a source or an operator that it knows,
\* as many expressions as the operator takes, and of a regexp a pattern with a text that
\* compiles, if it is literal.
IsWellFormed(e) ==
  \/ e = Nil
  \/ /\ HasSource(e) <=> e.op = ""
     /\ e.source \in cfgSourceMap \cup {""}
     /\ e.op # "" => e.op \in DOMAIN cfgOpMap /\ Counted(e)
     /\ e.op = "regexp" =>
          /\ Len(e.exps) = 2 /\ e.exps[2] # Nil
          /\ e.exps[2].source = "lit" => e.exps[2].colon /\ Compiles(e.exps[2].path)

\* An expression that is accepted by itself is well-formed.
LEMMA CheckedIsWellFormed ==
  ASSUME NEW e \in Expressions, Check(e) = "accepted"
  PROVE  IsWellFormed(e)
<1>1. /\ ~(HasSource(e) <=> e.op # "")
      /\ e.source \in cfgSourceMap \cup {""}
      /\ e.op \in DOMAIN cfgOpMap \cup {""}
      /\ e.op # "" => Counted(e)
  BY CheckIs
<1>2. ASSUME e.op = "regexp"
      PROVE  /\ Len(e.exps) = 2 /\ e.exps[2] # Nil
             /\ e.exps[2].source = "lit" => e.exps[2].colon /\ Compiles(e.exps[2].path)
  <2> DEFINE pattern == e.exps[2]
  <2>1. Len(e.exps) = 2
    <3>1. NumExps(e.op) = 2
      BY <1>2, NumExpsIs
    <3>2. ~Variadic(e.op)
      BY <3>1 DEF Variadic
    <3>3. e.op # ""
      BY <1>2
    <3>4. QED
      BY <1>1, <3>1, <3>2, <3>3 DEF Counted
  <2>2. CheckPattern(e.exps) = "accepted"
    <3>1. Check(e) = "accepted" => CheckPattern(e.exps) = "accepted"
      BY <1>2 DEF Check
    <3>2. QED
      BY <3>1
  <2>3. ~(Len(e.exps) < 2)
    BY <2>1
  <2>4. /\ ~(pattern = Nil \/ (pattern.source = "lit" /\ ~pattern.colon))
        /\ ~(pattern.source = "lit" /\ ~Compiles(pattern.path))
    BY <2>2, <2>3 DEF CheckPattern
  <2> HIDE DEF pattern
  <2>5. pattern # Nil /\ (pattern.source = "lit" => pattern.colon /\ Compiles(pattern.path))
    BY <2>4, Zenon
  <2>6. QED
    BY <2>1, <2>5 DEF pattern
<1>3. (HasSource(e) <=> e.op = "") /\ (e.op # "" => e.op \in DOMAIN cfgOpMap)
  BY <1>1
<1>4. QED
  BY <1>1, <1>2, <1>3, Zenon DEF IsWellFormed

\* So are all the parts of one that is accepted, at any depth.
LEMMA PartsAreWellFormed ==
  \A e \in Expressions : validateProfileExp[e] = "accepted" => \A x \in PartsOf[e] : IsWellFormed(x)
<1> DEFINE T == {e \in Expressions : validateProfileExp[e] = "accepted" =>
                                       \A x \in PartsOf[e] : IsWellFormed(x)}
<1>1. ASSUME NEW e \in Expressions, \A k \in DOMAIN e.exps : e.exps[k] \in T
      PROVE  e \in T
  <2> SUFFICES ASSUME validateProfileExp[e] = "accepted", NEW x \in PartsOf[e]
               PROVE  IsWellFormed(x)
    OBVIOUS
  <2>1. /\ validateProfileExp[e] = Verdict(e, VerdictsOn(e))
        /\ VerdictsOn(e) \in Seq(Verdicts)
    BY validateProfileExpIs
  <2>2. CASE x = e
    <3>1. e = Nil \/ Check(e) = "accepted"
      BY <2>1 DEF Verdict
    <3>2. QED
      BY <2>2, <3>1, CheckedIsWellFormed DEF IsWellFormed
  <2>3. CASE x # e
    <3>1. PICK k \in DOMAIN e.exps : x \in PartsOf[e.exps[k]]
      BY <2>3, PartsOfIs
    <3>2. e # Nil
      <4>1. Nil.exps = <<>>
        BY DEF Nil, Source
      <4>2. DOMAIN Nil.exps = {}
        BY <4>1
      <4>3. QED
        BY <3>1, <4>2
    <3>3. FirstRefusal(VerdictsOn(e)) = "accepted"
      BY <2>1, <3>2 DEF Verdict
    <3>4. \A j \in DOMAIN VerdictsOn(e) : VerdictsOn(e)[j] = "accepted"
      BY <2>1, <3>3, FirstRefusalIs
    <3>5. k \in DOMAIN VerdictsOn(e) /\ VerdictsOn(e)[k] = validateProfileExp[e.exps[k]]
      BY <3>1 DEF VerdictsOn
    <3>6. validateProfileExp[e.exps[k]] = "accepted"
      BY <3>4, <3>5
    <3>7. QED
      BY <1>1, <3>1, <3>6
  <2>4. QED
    BY <2>2, <2>3
<1>2. QED
  <2>1. \A e \in Expressions : (\A k \in DOMAIN e.exps : e.exps[k] \in T) => e \in T
    BY <1>1
  <2> HIDE DEF T
  <2>2. \A e \in Expressions : e \in T
    BY <2>1, ExpressionInduction
  <2>3. QED
    BY <2>2 DEF T

\* An accepted configuration has nothing the evaluation cannot deal with: no expression
\* in any of its elements, at any depth, lacks what evalExp indexes or compiles, and no
\* validate pattern is none.
AcceptedIsWellFormed ==
  pc \in {"accepted", "done"} =>
    \A n \in DOMAIN config.profiles : \A a \in Elements(config.profiles[n]) :
      /\ \A e \in PartsOf[a.exp] : IsWellFormed(e)
      /\ a.validate = <<>> \/ Compiles(a.validate)

\* What Config.Validate accepts is well-formed throughout, whatever the configuration:
\* every element of every profile, its labels included, and every expression nested in
\* them is looked at (config.go:112-230).
THEOREM AcceptedThroughout == Spec => []AcceptedIsWellFormed
<1>1. ConfigInv => AcceptedIsWellFormed
  <2> SUFFICES ASSUME ConfigInv, pc \in {"accepted", "done"},
                      NEW n \in DOMAIN config.profiles, NEW a \in Elements(config.profiles[n])
               PROVE  /\ \A e \in PartsOf[a.exp] : IsWellFormed(e)
                      /\ a.validate = <<>> \/ Compiles(a.validate)
    BY Zenon DEF AcceptedIsWellFormed
  <2>1. config \in Configs /\ Validate(config) = "accepted"
    BY DEF ConfigInv, Evaluated, Verdicts
  <2>2. a \in Attributes /\ validateProfileElem(a) = "accepted"
    BY <2>1, ConfigVerdict, ElementsType
  <2>3. CASE a = NoAttribute
    <3>1. a.exp = Nil /\ a.validate = <<>>
      BY <2>3 DEF NoAttribute, Attribute
    <3>2. PartsOf[Nil] = {Nil}
      <4>1. Nil.exps = <<>> /\ Nil \in Expressions
        BY ExpressionAssumption DEF Nil, Source
      <4>2. DOMAIN Nil.exps = {}
        BY <4>1
      <4>3. PartsOf[Nil] = {Nil} \cup UNION {PartsOf[Nil.exps[k]] : k \in DOMAIN Nil.exps}
        BY <4>1, PartsOfIs
      <4>4. QED
        BY <4>2, <4>3
    <3>3. QED
      BY <3>1, <3>2 DEF IsWellFormed
  <2>4. CASE a # NoAttribute
    <3>1. /\ validateProfileExp[a.exp] = "accepted" /\ a.exp \in Expressions
          /\ a.validate = <<>> \/ Compiles(a.validate)
      BY <2>2, <2>4, ElemVerdict DEF Attributes
    <3>2. QED
      BY <3>1, PartsAreWellFormed
  <2>5. QED
    BY <2>3, <2>4
<1>2. QED
  BY <1>1, ConfigInvariant, PTL

\* Where a result is, it is that of an element whose expression was accepted.
LEMMA DoneHasElem ==
  ASSUME ConfigInv, pc = "done"
  PROVE  /\ elem \in Attributes /\ rec \in Records /\ result = EvalElem(elem, rec)
         /\ validateProfileElem(elem) = "accepted"
<1>1. config \in Configs /\ rec \in Records /\ Evaluated(config, elem, rec, result)
  BY DEF ConfigInv
<1>2. PICK n \in DOMAIN config.profiles : elem \in Elements(config.profiles[n])
  BY <1>1 DEF Evaluated
<1>3. config.profiles[n] \in Profiles
  BY <1>1, ConfigVerdict
<1>4. elem \in Attributes
  BY <1>2, <1>3, ElementsType
<1>5. validateProfileElem(elem) = "accepted"
  BY <1>1, <1>2, ConfigVerdict DEF Evaluated
<1>6. QED
  BY <1>1, <1>4, <1>5 DEF Evaluated

\* The evaluation finds every expression it needs, and a validate pattern that is
\* one, in whatever configuration was accepted and on whatever record: the only
\* crash left is the one at a key that is empty (match_profile.go:299-357 and 370
\* rely on config.go:142-230).
THEOREM AcceptedIsEvaluated ==
  ASSUME CapturesAreParts
  PROVE  Spec => []AcceptedHasItsExpressions
<1>1. ConfigInv => AcceptedHasItsExpressions
  <2> SUFFICES ASSUME ConfigInv, pc = "done", result.panic
               PROVE  \E e \in PartsOf[exp] : EndsWithNothing(e)
    BY DEF AcceptedHasItsExpressions
  <2>1. /\ elem \in Attributes /\ rec \in Records /\ result = EvalElem(elem, rec)
        /\ validateProfileElem(elem) = "accepted"
    BY DoneHasElem
  <2>2. /\ elem # NoAttribute
        /\ evalExp[elem.exp][rec].panic \/ (elem.validate # <<>> /\ ~Compiles(elem.validate))
    BY <2>1, EvalElemType
  <2>3. /\ validateProfileExp[elem.exp] = "accepted"
        /\ elem.validate = <<>> \/ Compiles(elem.validate)
    BY <2>1, <2>2, ElemVerdict
  <2>4. elem.exp \in Expressions
    BY <2>1 DEF Attributes
  <2>5. QED
    BY <2>1, <2>2, <2>3, <2>4, AcceptedEvaluates DEF exp
<1>2. QED
  BY <1>1, ConfigInvariant, PTL

\* The validation crashes on a regexp with an empty pattern only, whatever the
\* regular expressions do: it counts before it looks (config.go:157-174).
THEOREM ValidationIsCounted == Spec => []ValidationCountsFirst
<1>1. ConfigInv => ValidationCountsFirst
  <2> SUFFICES ASSUME ConfigInv, pc = "panic" PROVE ValidationCountsFirst
    BY DEF ValidationCountsFirst
  <2>1. config \in Configs /\ Validate(config) = "panic"
    BY DEF ConfigInv, Verdicts
  <2>2. PICK n \in DOMAIN config.profiles : \E a \in Elements(config.profiles[n]) :
               validateProfileElem(a) = "panic"
    BY <2>1, ConfigVerdict
  <2>3. PICK a \in Elements(config.profiles[n]) : validateProfileElem(a) = "panic"
    BY <2>2
  <2>4. a \in Attributes
    BY <2>1, ConfigVerdict, ElementsType
  <2>5. a.exp \in Expressions /\ validateProfileExp[a.exp] = "panic"
    BY <2>3, <2>4, ElemVerdict DEF Attributes
  <2>6. \E e \in PartsOf[a.exp] : HasNoPattern(e)
    BY <2>5, PanicIsPattern
  <2>7. QED
    BY <2>6 DEF ValidationCountsFirst, HasNoPattern
<1>2. QED
  BY <1>1, ConfigInvariant, PTL

\* Whatever a record carries, a value has no control character, no newline and no
\* character outside ASCII (FilterASCII and evalValue; the operators take parts of
\* values and join them).
THEOREM ValuesPrint ==
  ASSUME CapturesAreParts
  PROVE  Spec => []ValuesArePrintable
<1>1. ConfigInv => ValuesArePrintable
  <2> SUFFICES ASSUME ConfigInv, pc = "done", NEW k \in DOMAIN result.value
               PROVE  result.value[k] \notin {"nl", "esc", "uni"}
    BY DEF ValuesArePrintable
  <2>1. result.value \in Seq(Safe)
    BY DoneHasElem, EvalElemType
  <2>2. result.value[k] \in Safe
    BY <2>1, ElementOfSeq, LenProperties
  <2>3. QED
    BY <2>2 DEF Safe
<1>2. QED
  BY <1>1, ConfigInvariant, PTL
----------------------------------------------------------------------------
(* The keys of attributes.                                                 *)

\* The head of a sequence is its first element.
LEMMA HeadIsFirst ==
  ASSUME NEW A, NEW s \in Seq(A), s # <<>>
  PROVE  Head(s) = s[1]
<1>1. Len(s) \in Nat /\ Len(s) >= 1
  BY EmptySeq, LenProperties
<1>2. Head(SubSeq(s, 1, Len(s))) = s[1]
  BY <1>1, HeadTailOfSubSeq
<1>3. QED
  BY <1>2, SubSeqFull

\* A prefix and the element after it are the next prefix.
LEMMA PrefixGrows ==
  ASSUME NEW A, NEW k \in Seq(A), NEW n \in Nat, n < Len(k)
  PROVE  /\ n = 0 => SubSeq(k, 1, n) = <<>> /\ <<k[n + 1]>> = SubSeq(k, 1, n + 1)
         /\ n # 0 => SubSeq(k, 1, n) # <<>> /\ Append(SubSeq(k, 1, n), k[n + 1]) = SubSeq(k, 1, n + 1)
         /\ SubSeq(k, 1, n + 1) # <<>>
         /\ n + 1 < Len(k) => IsStrictPrefix(SubSeq(k, 1, n + 1), k)
<1> DEFINE s == SubSeq(k, 1, n)
           t == SubSeq(k, 1, n + 1)
<1>1. Len(k) \in Nat /\ \A i \in 1 .. Len(k) : k[i] \in A
  BY LenProperties, ElementOfSeq
<1>2. s \in Seq(A) /\ Len(s) = n /\ \A i \in 1 .. n : s[i] = k[i]
  BY <1>1, SubSeqProperties
<1>3. t \in Seq(A) /\ Len(t) = n + 1 /\ \A i \in 1 .. n + 1 : t[i] = k[i]
  BY <1>1, SubSeqProperties
<1>4. k[n + 1] \in A
  BY <1>1
<1>5. t # <<>>
  <2> HIDE DEF t
  <2>1. QED
    BY <1>3, EmptySeq
<1>6. ASSUME n = 0 PROVE s = <<>> /\ <<k[n + 1]>> = t
  <2> HIDE DEF s, t
  <2>1. s = <<>>
    BY <1>2, <1>6, EmptySeq
  <2> DEFINE one == <<k[n + 1]>>
  <2>2. one \in Seq(A) /\ Len(one) = 1 /\ one[1] = k[n + 1]
    BY <1>4
  <2> HIDE DEF one
  <2>3. Len(one) = Len(t) /\ \A i \in 1 .. Len(one) : one[i] = t[i]
    BY <2>2, <1>3, <1>6
  <2>4. one = t
    BY <2>2, <2>3, <1>3, SeqEqual
  <2>5. QED
    BY <2>1, <2>4 DEF one
<1>7. ASSUME n # 0 PROVE s # <<>> /\ Append(s, k[n + 1]) = t
  <2> HIDE DEF s, t
  <2>1. s # <<>>
    BY <1>2, <1>7, EmptySeq
  <2> DEFINE longer == Append(s, k[n + 1])
  <2>2. /\ longer \in Seq(A) /\ Len(longer) = n + 1
        /\ \A i \in 1 .. n : longer[i] = s[i]
        /\ longer[n + 1] = k[n + 1]
    BY <1>2, <1>4, AppendProperties
  <2> HIDE DEF longer
  <2>3. \A i \in 1 .. n + 1 : longer[i] = t[i]
    BY <2>2, <1>2, <1>3
  <2>4. longer = t
    BY <2>2, <2>3, <1>3, SeqEqual
  <2>5. QED
    BY <2>1, <2>4 DEF longer
<1>8. ASSUME n + 1 < Len(k) PROVE IsStrictPrefix(t, k)
  <2>1. SubSeq(k, 1, Len(t)) = t
    BY <1>3
  <2> HIDE DEF t
  <2>2. SubSeq(t, 1, Len(t)) = t
    BY <1>3, SubSeqFull
  <2>3. Len(t) <= Len(k) /\ t # k
    BY <1>1, <1>3, <1>8
  <2>4. QED
    BY <2>1, <2>2, <2>3 DEF IsPrefix, IsStrictPrefix
<1>9. QED
  BY <1>5, <1>6, <1>7, <1>8

\* The path after some parts of a key is that much of the key.
LEMMA PathIsPrefix ==
  ASSUME NEW k \in Seq(Strings), NEW n \in Nat, n < Len(k), n = 0 => k[n + 1] # ""
  PROVE  JoinPath(SubSeq(k, 1, n), k[n + 1]) = SubSeq(k, 1, n + 1)
<1> DEFINE s == SubSeq(k, 1, n)
           t == SubSeq(k, 1, n + 1)
           x == k[n + 1]
<1>1. /\ n = 0 => s = <<>> /\ <<x>> = t
      /\ n # 0 => s # <<>> /\ Append(s, x) = t
      /\ n = 0 => x # ""
  <2>1. /\ n = 0 => SubSeq(k, 1, n) = <<>> /\ <<k[n + 1]>> = SubSeq(k, 1, n + 1)
        /\ n # 0 => SubSeq(k, 1, n) # <<>> /\ Append(SubSeq(k, 1, n), k[n + 1]) = SubSeq(k, 1, n + 1)
    BY PrefixGrows, Zenon
  <2>2. QED
    BY <2>1, Zenon
<1> HIDE DEF s, t, x
<1>2. ASSUME n = 0 PROVE JoinPath(s, x) = t
  BY <1>1, <1>2, Zenon DEF JoinPath
<1>3. ASSUME n # 0 PROVE JoinPath(s, x) = t
  BY <1>1, <1>3, Zenon DEF JoinPath
<1>4. JoinPath(s, x) = t
  BY <1>2, <1>3, Zenon
<1>5. QED
  BY <1>4 DEF s, t, x

\* The search starts in M with no path, the parts after the first m are k, and the
\* place a is where the search is when it has found v.
Enters(a, M) == ~a.ended /\ a.path = <<>> /\ a.in = M
PartsAfter(parts, m, k) ==
  m + Len(k) <= Len(parts) /\ \A n \in 1 .. Len(k) : parts[m + n] = k[n]
HasFound(a, v) ==
  a.val = v /\ (v.kind # "map" => a.ended) /\ (v.kind = "map" => Enters(a, v.map))

\* A reachable key is found after its last part, from wherever the search for it
\* starts in its map: a map is entered, another value ends the search.
LEMMA KeyIsFound ==
  ASSUME NEW parts \in Seq(Strings), NEW in0, NEW at, IsWalk(at, parts, in0),
         NEW M \in Maps, NEW k \in Seq(Strings), Reachable(k, M),
         NEW m \in Nat, PartsAfter(parts, m, k), Enters(at[m], M)
  PROVE  HasFound(at[m + Len(k)], M[k])
<1> DEFINE Along(n) == /\ ~at[m + n].ended
                       /\ at[m + n].path = SubSeq(k, 1, n)
                       /\ at[m + n].in = M
           T == {n \in Nat : n < Len(k) => Along(n)}
<1>1. /\ k \in DOMAIN M /\ k # <<>>
      /\ \A j \in DOMAIN M : IsStrictPrefix(j, k) => j = <<>>
  BY Zenon DEF Reachable, Hidden
<1>a. /\ m + Len(k) <= Len(parts)
      /\ \A n \in 1 .. Len(k) : parts[m + n] = k[n]
      /\ ~at[m].ended /\ at[m].path = <<>> /\ at[m].in = M
  BY Zenon DEF PartsAfter, Enters
<1>0. \A n \in Nat : n = 0 => k[n + 1] # ""
  <2>1. Head(k) = k[1]
    BY <1>1, HeadIsFirst
  <2>2. \A n \in Nat : n = 0 => k[n + 1] = k[1]
    OBVIOUS
  <2>3. Head(k) # ""
    BY Zenon DEF Reachable
  <2>4. QED
    BY <2>1, <2>2, <2>3, Zenon
<1>2. Len(k) \in Nat /\ Len(k) >= 1 /\ Len(parts) \in Nat /\ \A i \in 1 .. Len(k) : k[i] \in Strings
  BY <1>1, EmptySeq, LenProperties, ElementOfSeq
<1>3. ASSUME NEW n \in Nat, n < Len(k)
      PROVE  /\ at[m + n] \in Places /\ at[m + (n + 1)] = Lookup(at[m + n], k[n + 1])
  <2>1. m + n \in 0 .. Len(parts) /\ m + (n + 1) \in 1 .. Len(parts)
        /\ (m + (n + 1)) - 1 = m + n /\ n + 1 \in 1 .. Len(k)
    BY <1>a, <1>2, <1>3
  <2>2. parts[m + (n + 1)] = k[n + 1]
    BY <1>a, <2>1
  <2>3. QED
    BY <2>1, <2>2 DEF IsWalk
<1>4. \A n \in Nat : n \in T
  <2>1. 0 \in T
    <3>1. SubSeq(k, 1, 0) = <<>> /\ m + 0 = m
      BY SubSeqEmpty
    <3>2. Along(0)
      BY <1>a, <3>1
    <3>3. QED
      BY <3>2
  <2>2. ASSUME NEW n \in Nat, n \in T PROVE n + 1 \in T
    <3> SUFFICES ASSUME n + 1 < Len(k) PROVE Along(n + 1)
      OBVIOUS
    <3>1. Along(n) /\ n < Len(k)
      BY <1>2, <2>2
    <3> DEFINE a == at[m + n]
               next == SubSeq(k, 1, n + 1)
    <3>2. a \in Places /\ at[m + (n + 1)] = Lookup(a, k[n + 1])
      BY <1>3, <3>1
    <3>3. JoinPath(a.path, k[n + 1]) = next /\ next # <<>> /\ IsStrictPrefix(next, k)
      <4>1. JoinPath(SubSeq(k, 1, n), k[n + 1]) = next
        BY <1>0, <3>1, PathIsPrefix, Zenon
      <4>2. next # <<>> /\ IsStrictPrefix(next, k)
        BY <3>1, PrefixGrows
      <4>3. QED
        BY <4>1, <4>2, <3>1, Zenon
    <3>4. next \notin DOMAIN M
      <4> HIDE DEF next
      <4>1. QED
        BY <1>1, <3>3
    <3>5. Lookup(a, k[n + 1]) = [a EXCEPT !.path = next, !.val = Invalid]
      <4> HIDE DEF next
      <4>1. ~a.ended /\ a.in = M
        BY <3>1
      <4> HIDE DEF a
      <4>2. QED
        BY <3>3, <3>4, <4>1 DEF Lookup
    <3>6. ~a.ended /\ a.in = M
      BY <3>1
    <3> HIDE DEF next, a
    <3>7. LET b == [a EXCEPT !.path = next, !.val = Invalid]
          IN  ~b.ended /\ b.path = next /\ b.in = M
      BY <3>2, <3>6 DEF Places
    <3>8. QED
      BY <3>2, <3>5, <3>7 DEF next
  <2>3. QED
    <3> HIDE DEF T
    <3>1. QED
      BY <2>1, <2>2, NatInductionSet
<1> DEFINE n == Len(k) - 1
           a == at[m + n]
<1>5. n \in Nat /\ n < Len(k) /\ n + 1 = Len(k) /\ Along(n)
  <2>1. n \in Nat /\ n < Len(k) /\ n + 1 = Len(k)
    BY <1>2
  <2>2. n \in T
    BY <1>4, <2>1
  <2>3. QED
    BY <2>1, <2>2
<1>6. a \in Places /\ at[m + Len(k)] = Lookup(a, k[n + 1])
  BY <1>3, <1>5
<1>7. ~a.ended /\ a.in = M /\ JoinPath(a.path, k[n + 1]) = k
  <2>1. SubSeq(k, 1, n + 1) = k
    BY <1>5, SubSeqFull
  <2>2. JoinPath(SubSeq(k, 1, n), k[n + 1]) = SubSeq(k, 1, n + 1)
    BY <1>0, <1>5, PathIsPrefix, Zenon
  <2>3. QED
    BY <1>5, <2>1, <2>2, Zenon
<1> HIDE DEF a, n
<1>8. CASE M[k].kind # "map"
  <2>1. Lookup(a, k[n + 1]) = [a EXCEPT !.ended = TRUE, !.val = M[k]]
    BY <1>1, <1>7, <1>8 DEF Lookup
  <2>2. LET b == [a EXCEPT !.ended = TRUE, !.val = M[k]] IN b.ended /\ b.val = M[k]
    BY <1>6 DEF Places
  <2>3. QED
    BY <1>6, <1>8, <2>1, <2>2 DEF HasFound
<1>9. CASE M[k].kind = "map"
  <2>1. Lookup(a, k[n + 1]) = [a EXCEPT !.path = <<>>, !.in = M[k].map, !.val = M[k]]
    BY <1>1, <1>7, <1>9 DEF Lookup
  <2>2. LET b == [a EXCEPT !.path = <<>>, !.in = M[k].map, !.val = M[k]]
        IN  ~b.ended /\ b.path = <<>> /\ b.in = M[k].map /\ b.val = M[k]
    BY <1>6, <1>7 DEF Places
  <2>3. QED
    BY <1>6, <1>9, <2>1, <2>2 DEF HasFound, Enters
<1>10. QED
  BY <1>8, <1>9

\* A path that is the name of a reachable key gives its value ...
LEMMA KeyIsRead ==
  ASSUME NEW M \in Maps, NEW k, Reachable(k, M), M[k].kind # "map"
  PROVE  evalMap(k, M).value = evalValue(M[k])
<1>1. k \in DOMAIN M /\ k # <<>>
  BY Zenon DEF Reachable
<1>2. k \in Seq(Strings)
  BY <1>1, MapType
<1>3. Parts(k) = k
  BY <1>1 DEF Parts
<1>4. PICK at : IsWalk(at, k, M) /\ Search(k, M) = at[Len(k)]
  BY <1>2, SearchWalks
<1>5. ~at[0].ended /\ at[0].path = <<>> /\ at[0].in = M
  BY <1>4 DEF IsWalk, Searching
<1>6. Len(k) \in Nat /\ 0 \in Nat /\ 0 + Len(k) <= Len(k) /\ 0 + Len(k) = Len(k)
      /\ \A n \in 1 .. Len(k) : k[0 + n] = k[n]
  BY <1>2, LenProperties
<1>7. at[Len(k)].val = M[k] /\ at[Len(k)].ended
  <2>1. PartsAfter(k, 0, k) /\ Enters(at[0], M)
    BY <1>5, <1>6 DEF PartsAfter, Enters
  <2>2. HasFound(at[0 + Len(k)], M[k])
    BY <1>2, <1>4, <1>6, <2>1, KeyIsFound
  <2>3. QED
    BY <1>6, <2>2 DEF HasFound
<1>8. evalMap(k, M) = Returns(<<>>, evalValue(M[k]))
  BY <1>3, <1>4, <1>7 DEF evalMap
<1>9. QED
  BY <1>8 DEF Returns

\* ... and so does one that is the name of a reachable key whose value is a map and
\* the name of a reachable key in it.
LEMMA KeyInMapIsRead ==
  ASSUME NEW M \in Maps, NEW k, Reachable(k, M), M[k].kind = "map",
         NEW k2, Reachable(k2, M[k].map), M[k].map[k2].kind # "map"
  PROVE  evalMap(k \o k2, M).value = evalValue(M[k].map[k2])
<1> DEFINE N == M[k].map
           parts == k \o k2
<1>1. k \in DOMAIN M /\ k # <<>> /\ k2 \in DOMAIN N /\ k2 # <<>>
  BY Zenon DEF Reachable
<1>2. k \in Seq(Strings) /\ M[k] \in Values
  BY <1>1, MapType
<1>3. N \in Maps
  BY <1>2, ValueAssumption, MapType
<1>4. k2 \in Seq(Strings)
  <2> HIDE DEF N
  <2>1. QED
    BY <1>1, <1>3, MapType
<1>5. Reachable(k2, N) /\ N[k2].kind # "map"
  OBVIOUS
<1>6. /\ Len(k) \in Nat /\ Len(k2) \in Nat /\ Len(k2) >= 1
      /\ parts \in Seq(Strings) /\ Len(parts) = Len(k) + Len(k2)
      /\ \A i \in 1 .. Len(k) + Len(k2) : parts[i] = IF i <= Len(k) THEN k[i] ELSE k2[i - Len(k)]
  BY <1>1, <1>2, <1>4, LenProperties, ConcatProperties, EmptySeq
<1> HIDE DEF parts, N
<1>7. Parts(parts) = parts
  <2>1. parts # <<>>
    BY <1>6, EmptySeq
  <2>2. QED
    BY <2>1 DEF Parts
<1>8. PICK at : IsWalk(at, parts, M) /\ Search(parts, M) = at[Len(parts)]
  BY <1>6, SearchWalks
<1>9. ~at[0].ended /\ at[0].path = <<>> /\ at[0].in = M
  BY <1>8 DEF IsWalk, Searching
<1>10. /\ 0 \in Nat /\ 0 + Len(k) <= Len(parts) /\ 0 + Len(k) = Len(k)
       /\ \A n \in 1 .. Len(k) : parts[0 + n] = k[n]
  BY <1>6
<1>11. Enters(at[Len(k)], N)
  <2>1. PartsAfter(parts, 0, k) /\ Enters(at[0], M)
    BY <1>9, <1>10 DEF PartsAfter, Enters
  <2>2. HasFound(at[0 + Len(k)], M[k])
    BY <1>2, <1>6, <1>8, <1>10, <2>1, KeyIsFound
  <2>3. QED
    BY <1>10, <2>2, Zenon DEF HasFound, N
<1>12. /\ Len(k) + Len(k2) <= Len(parts)
       /\ \A n \in 1 .. Len(k2) : parts[Len(k) + n] = k2[n]
  BY <1>6, ShiftedIndices
<1>13. at[Len(k) + Len(k2)].val = N[k2] /\ at[Len(k) + Len(k2)].ended
  <2>1. PartsAfter(parts, Len(k), k2)
    BY <1>12 DEF PartsAfter
  <2>2. HasFound(at[Len(k) + Len(k2)], N[k2])
    BY <1>3, <1>4, <1>5, <1>6, <1>8, <1>11, <2>1, KeyIsFound
  <2>3. QED
    BY <1>5, <2>2 DEF HasFound
<1>14. evalMap(parts, M) = Returns(<<>>, evalValue(N[k2]))
  BY <1>6, <1>7, <1>8, <1>13 DEF evalMap
<1>15. QED
  BY <1>14 DEF Returns, parts, N

\* The value of an element whose expression names an attribute.
LEMMA AttributeIsRead ==
  ASSUME CapturesAreParts, ConfigInv, IsValue, exp.source = "attr"
  PROVE  /\ rec.attr \in Maps
         /\ result.value = FilterASCII(evalMap(exp.path, rec.attr).value)
<1>1. /\ elem \in Attributes /\ rec \in Records /\ result = EvalElem(elem, rec)
      /\ pc = "done" /\ ~result.panic /\ elem # NoAttribute /\ elem.validate = <<>>
  BY DoneHasElem DEF IsValue
<1>2. ~evalExp[exp][rec].panic /\ result.value = evalExp[exp][rec].value
  BY <1>1, EvalElemType DEF exp
<1>3. exp \in Expressions
  BY <1>1 DEF exp, Attributes
<1>4. evalExp[exp][rec] = Outcome(exp, rec, OutcomesAt(exp, rec))
  BY <1>1, <1>3, evalExpIs
<1>5. exp # Nil /\ HasSource(exp)
  <2>1. Nil.source = "nil"
    BY DEF Nil, Source
  <2>2. QED
    BY <2>1 DEF HasSource
<1>6. Outcome(exp, rec, OutcomesAt(exp, rec)) = evalSource(exp, rec)
  BY <1>5 DEF Outcome
<1>7. evalSource(exp, rec) = Named(exp.path, evalMap(exp.path, rec.attr))
  BY DEF evalSource
<1> DEFINE found == evalMap(exp.path, rec.attr)
<1>8. ~Named(exp.path, found).panic /\ result.value = Named(exp.path, found).value
  BY <1>2, <1>4, <1>6, <1>7
<1> HIDE DEF found
<1>9. ~found.panic => Named(exp.path, found) = Returns(exp.path, FilterASCII(found.value))
  BY DEF Named
<1>10. found.panic => Named(exp.path, found).panic
  BY DEF Named, Panic
<1>11. result.value = FilterASCII(found.value)
  BY <1>8, <1>9, <1>10 DEF Returns
<1>12. rec.attr \in Maps
  BY <1>1, RecordAssumption, MapType
<1>13. QED
  BY <1>11, <1>12 DEF found

\* Every key of the attributes, and of a map in them, is found by its name, dots and
\* all, if no shorter key hides it and it does not begin with a dot: the parts read
\* since the last map are the beginning of the key (match_profile.go:206-237).
THEOREM KeysAreReached ==
  ASSUME CapturesAreParts
  PROVE  Spec => []KeysAreReachable
<1>1. ConfigInv => KeysAreReachable
  <2> SUFFICES ASSUME ConfigInv, IsValue, exp.source = "attr",
                      NEW k \in DOMAIN rec.attr, Reachable(k, rec.attr)
               PROVE  IF rec.attr[k].kind # "map"
                      THEN exp.path = k => result.value = FilterASCII(evalValue(rec.attr[k]))
                      ELSE \A k2 \in DOMAIN rec.attr[k].map :
                             /\ Reachable(k2, rec.attr[k].map) /\ rec.attr[k].map[k2].kind # "map"
                             /\ exp.path = k \o k2
                             => result.value = FilterASCII(evalValue(rec.attr[k].map[k2]))
    BY Zenon DEF KeysAreReachable
  <2>1. rec.attr \in Maps /\ result.value = FilterASCII(evalMap(exp.path, rec.attr).value)
    BY AttributeIsRead
  <2>2. ASSUME rec.attr[k].kind # "map", exp.path = k
        PROVE  result.value = FilterASCII(evalValue(rec.attr[k]))
    <3>1. evalMap(k, rec.attr).value = evalValue(rec.attr[k])
      BY <2>1, <2>2, KeyIsRead
    <3>2. QED
      BY <2>1, <2>2, <3>1
  <2>3. ASSUME rec.attr[k].kind = "map", NEW k2 \in DOMAIN rec.attr[k].map,
               Reachable(k2, rec.attr[k].map), rec.attr[k].map[k2].kind # "map",
               exp.path = k \o k2
        PROVE  result.value = FilterASCII(evalValue(rec.attr[k].map[k2]))
    <3>1. evalMap(k \o k2, rec.attr).value = evalValue(rec.attr[k].map[k2])
      BY <2>1, <2>3, KeyInMapIsRead
    <3>2. QED
      BY <2>1, <2>3, <3>1
  <2>4. QED
    BY <2>2, <2>3
<1>2. QED
  BY <1>1, ConfigInvariant, PTL
----------------------------------------------------------------------------
(* The operators.                                                          *)

\* A part of a string after a beginning: the beginning is of length n.
LEMMA SplitAt ==
  ASSUME NEW A, NEW s \in Seq(A), NEW n \in 0 .. Len(s)
  PROVE  /\ SubSeq(s, 1, n) \o SubSeq(s, n + 1, Len(s)) = s
         /\ SubSeq(s, 1, n) \in Seq(A) /\ Len(SubSeq(s, 1, n)) = n
         /\ SubSeq(s, n + 1, Len(s)) \in Seq(A) /\ Len(SubSeq(s, n + 1, Len(s))) = Len(s) - n
         /\ \A i \in 1 .. n : SubSeq(s, 1, n)[i] = s[i]
         /\ \A i \in 1 .. Len(s) - n : SubSeq(s, n + 1, Len(s))[i] = s[n + i]
<1> DEFINE p == SubSeq(s, 1, n)
           q == SubSeq(s, n + 1, Len(s))
<1>1. Len(s) \in Nat /\ \A i \in 1 .. Len(s) : s[i] \in A
  BY LenProperties, ElementOfSeq
<1>2. p \in Seq(A) /\ Len(p) = n /\ \A i \in 1 .. n : p[i] = s[i]
  BY <1>1, SubSeqProperties
<1>3. q \in Seq(A) /\ Len(q) = Len(s) - n
  BY <1>1, SubSeqProperties
<1>4. \A i \in 1 .. Len(s) - n : q[i] = s[n + i]
  <2>1. \A i \in 1 .. Len(s) - (n + 1) + 1 : q[i] = s[(n + 1) + i - 1]
    BY <1>1, SubSeqProperties
  <2> HIDE DEF q
  <2>2. QED
    BY <1>1, <2>1
<1>5. p \o q = s
  <2>1. 1 \in 1 .. Len(s) + 1 /\ n \in 1 - 1 .. Len(s) /\ Len(s) \in n .. Len(s)
    BY <1>1
  <2>2. p \o q = SubSeq(s, 1, Len(s))
    BY <2>1, ConcatAdjacentSubSeq
  <2> HIDE DEF p, q
  <2>3. QED
    BY <2>2, SubSeqFull
<1>6. QED
  BY <1>2, <1>3, <1>4, <1>5

\* A string of which another is a prefix is that one and the rest.
LEMMA PrefixRemoved ==
  ASSUME NEW A, NEW s \in Seq(A), NEW t \in Seq(A), IsPrefix(t, s)
  PROVE  s = t \o SubSeq(s, Len(t) + 1, Len(s))
<1>1. Len(t) \in 0 .. Len(s) /\ SubSeq(s, 1, Len(t)) = SubSeq(t, 1, Len(t))
  BY LenProperties DEF IsPrefix
<1>2. SubSeq(t, 1, Len(t)) = t
  BY SubSeqFull
<1>3. SubSeq(s, 1, Len(t)) \o SubSeq(s, Len(t) + 1, Len(s)) = s
  BY <1>1, SplitAt
<1>4. QED
  BY <1>1, <1>2, <1>3

\* A string of which another is a suffix is the rest and that one.
LEMMA SuffixRemoved ==
  ASSUME NEW A, NEW s \in Seq(A), NEW t \in Seq(A), IsSuffix(t, s)
  PROVE  s = SubSeq(s, 1, Len(s) - Len(t)) \o t
<1> DEFINE rs == Reverse(s)
           rt == Reverse(t)
           n == Len(s) - Len(t)
           q == SubSeq(s, n + 1, Len(s))
<1>1. /\ Len(s) \in Nat /\ \A i \in 1 .. Len(s) : s[i] \in A
      /\ Len(t) \in Nat /\ \A i \in 1 .. Len(t) : t[i] \in A
  BY LenProperties, ElementOfSeq
<1>2. rs \in Seq(A) /\ Len(rs) = Len(s) /\ \A i \in 1 .. Len(s) : rs[i] = s[(Len(s) - i) + 1]
  <2>1. /\ rs = [i \in 1 .. Len(s) |-> rs[i]]
        /\ \A i \in 1 .. Len(s) : rs[i] = s[(Len(s) - i) + 1] /\ rs[i] \in A
    BY <1>1 DEF Reverse
  <2> HIDE DEF rs
  <2>2. rs \in Seq(A)
    BY <1>1, <2>1, IsASeq
  <2>3. QED
    BY <1>1, <2>1, <2>2, LenProperties
<1>3. rt \in Seq(A) /\ Len(rt) = Len(t) /\ \A i \in 1 .. Len(t) : rt[i] = t[(Len(t) - i) + 1]
  <2>1. /\ rt = [i \in 1 .. Len(t) |-> rt[i]]
        /\ \A i \in 1 .. Len(t) : rt[i] = t[(Len(t) - i) + 1] /\ rt[i] \in A
    BY <1>1 DEF Reverse
  <2> HIDE DEF rt
  <2>2. rt \in Seq(A)
    BY <1>1, <2>1, IsASeq
  <2>3. QED
    BY <1>1, <2>1, <2>2, LenProperties
<1>4. Len(rt) <= Len(rs) /\ SubSeq(rt, 1, Len(rt)) = SubSeq(rs, 1, Len(rt))
  BY DEF IsSuffix, IsPrefix
<1> HIDE DEF rs, rt
<1>5. \A i \in 1 .. Len(t) : rt[i] = rs[i]
  <2>1. Len(rt) \in 0 .. Len(rs)
    BY <1>1, <1>2, <1>3, <1>4
  <2>2. \A i \in 1 .. Len(rt) : SubSeq(rs, 1, Len(rt))[i] = rs[i]
    BY <1>2, <2>1, SplitAt
  <2>3. SubSeq(rt, 1, Len(rt)) = rt
    BY <1>3, SubSeqFull
  <2>4. QED
    BY <1>3, <1>4, <2>2, <2>3
<1>6. n \in 0 .. Len(s) /\ Len(s) - n = Len(t) /\ n + Len(t) = Len(s)
  BY <1>1, <1>2, <1>3, <1>4
<1>7. /\ SubSeq(s, 1, n) \o q = s
      /\ q \in Seq(A) /\ Len(q) = Len(t)
      /\ \A i \in 1 .. Len(t) : q[i] = s[n + i]
  <2> HIDE DEF n
  <2>1. /\ SubSeq(s, 1, n) \o q = s
        /\ q \in Seq(A) /\ Len(q) = Len(s) - n
        /\ \A i \in 1 .. Len(s) - n : q[i] = s[n + i]
    BY <1>6, SplitAt
  <2>2. QED
    BY <1>6, <2>1
<1> HIDE DEF q
<1>8. ASSUME NEW i \in 1 .. Len(t) PROVE q[i] = t[i]
  <2> DEFINE j == (Len(t) - i) + 1
  <2>1. /\ j \in 1 .. Len(t) /\ j \in 1 .. Len(s)
        /\ (Len(t) - j) + 1 = i /\ (Len(s) - j) + 1 = n + i
    BY <1>1, <1>6
  <2> HIDE DEF j, n
  <2>2. rt[j] = t[i] /\ rs[j] = s[n + i] /\ rt[j] = rs[j]
    BY <1>2, <1>3, <1>5, <2>1
  <2>3. QED
    BY <1>7, <2>2
<1>9. q = t
  BY <1>7, <1>8, SeqEqual
<1>10. QED
  BY <1>7, <1>9

\* Where a string starts again behind a beginning of another, it occurs there.
LEMMA OccursAt ==
  ASSUME NEW A, NEW s \in Seq(A), NEW t \in Seq(A), NEW n \in 0 .. Len(s),
         IsPrefix(SubSeq(s, 1, n) \o t, s)
  PROVE  n \in 0 .. Len(s) - Len(t) /\ SubSeq(s, n + 1, n + Len(t)) = t
<1> DEFINE p == SubSeq(s, 1, n)
           pt == p \o t
           q == SubSeq(s, n + 1, n + Len(t))
<1>1. /\ Len(s) \in Nat /\ \A i \in 1 .. Len(s) : s[i] \in A
      /\ Len(t) \in Nat
  BY LenProperties, ElementOfSeq
<1>2. p \in Seq(A) /\ Len(p) = n
  BY SplitAt
<1> HIDE DEF p
<1>3. /\ pt \in Seq(A) /\ Len(pt) = n + Len(t)
      /\ \A i \in 1 .. n + Len(t) : pt[i] = IF i <= n THEN p[i] ELSE t[i - n]
  BY <1>2, ConcatProperties
<1>4. Len(pt) <= Len(s) /\ SubSeq(pt, 1, Len(pt)) = SubSeq(s, 1, Len(pt))
  BY DEF IsPrefix, p
<1> HIDE DEF pt
<1>5. \A i \in 1 .. n + Len(t) : pt[i] = s[i]
  <2>1. Len(pt) \in 0 .. Len(s)
    BY <1>1, <1>3, <1>4
  <2>2. \A i \in 1 .. Len(pt) : SubSeq(s, 1, Len(pt))[i] = s[i]
    BY <2>1, SplitAt
  <2>3. SubSeq(pt, 1, Len(pt)) = pt
    BY <1>3, SubSeqFull
  <2>4. QED
    BY <1>3, <1>4, <2>2, <2>3
<1>6. n \in 0 .. Len(s) - Len(t)
  BY <1>1, <1>3, <1>4
<1>7. q \in Seq(A) /\ Len(q) = Len(t) /\ \A i \in 1 .. Len(t) : q[i] = s[n + i]
  <2>1. \A i \in n + 1 .. n + Len(t) : s[i] \in A
    BY <1>1, <1>6
  <2>2. /\ q \in Seq(A)
        /\ Len(q) = IF n + 1 <= n + Len(t) THEN (n + Len(t)) - (n + 1) + 1 ELSE 0
        /\ \A i \in 1 .. (n + Len(t)) - (n + 1) + 1 : q[i] = s[(n + 1) + i - 1]
    BY <1>1, <2>1, SubSeqProperties
  <2> HIDE DEF q
  <2>3. QED
    BY <1>1, <2>2
<1> HIDE DEF q
<1>8. \A i \in 1 .. Len(t) : q[i] = t[i]
  <2> SUFFICES ASSUME NEW i \in 1 .. Len(t) PROVE q[i] = t[i]
    OBVIOUS
  <2>1. n + i \in 1 .. n + Len(t) /\ ~(n + i <= n) /\ (n + i) - n = i
    BY <1>1
  <2>2. pt[n + i] = t[i] /\ pt[n + i] = s[n + i]
    BY <1>3, <1>5, <2>1
  <2>3. QED
    BY <1>7, <2>2
<1>9. q = t
  BY <1>7, <1>8, SeqEqual
<1>10. QED
  BY <1>6, <1>9 DEF q

\* rmtail cuts where the second string starts for the last time in the first.
LEMMA TailRemoved ==
  ASSUME NEW A, NEW s \in Seq(A), NEW t \in Seq(A)
  PROVE  LET i == LastIndex(s, t)
         IN  IsTailRemoved(s, t, IF i > -1 THEN SubSeq(s, 1, i) ELSE s)
<1> DEFINE i == LastIndex(s, t)
           at == {k \in 0 .. Len(s) - Len(t) : SubSeq(s, k + 1, k + Len(t)) = t}
           r == SubSeq(s, 1, i)
<1>1. (i = -1 /\ at = {}) \/ (i \in at /\ \A j \in at : j <= i)
  BY LastIndexIs
<1>2. Len(s) \in Nat /\ Len(t) \in Nat
  BY LenProperties
<1>3. CASE ~(i > -1)
  <2>1. at = {}
    <3>1. \A j \in at : j > -1
      BY <1>2
    <3> HIDE DEF at, i
    <3>2. QED
      BY <1>1, <1>3, <3>1
  <2>2. ASSUME NEW n \in 0 .. Len(s), IsPrefix(SubSeq(s, 1, n) \o t, s) PROVE FALSE
    <3>1. n \in 0 .. Len(s) - Len(t) /\ SubSeq(s, n + 1, n + Len(t)) = t
      BY <2>2, OccursAt
    <3>2. QED
      BY <2>1, <3>1
  <2>3. IsTailRemoved(s, t, s)
    BY <2>2 DEF IsTailRemoved
  <2>4. QED
    BY <1>3, <2>3
<1>4. CASE i > -1
  <2>1. i \in at /\ \A j \in at : j <= i
    <3> HIDE DEF at, i
    <3>1. QED
      BY <1>1, <1>4
  <2>2. i \in 0 .. Len(s) - Len(t) /\ SubSeq(s, i + 1, i + Len(t)) = t
    BY <2>1
  <2> HIDE DEF i
  <2>3. i \in 0 .. Len(s) /\ i + Len(t) \in 0 .. Len(s) /\ i + Len(t) \in i .. Len(s)
        /\ 1 \in 1 .. Len(s) + 1 /\ i \in 1 - 1 .. i + Len(t) /\ i \in 1 - 1 .. Len(s)
    BY <1>2, <2>2
  <2>4. r \in Seq(A) /\ Len(r) = i
    BY <2>3, SplitAt
  <2>5. r \o t = SubSeq(s, 1, i + Len(t))
    <3>1. SubSeq(s, 1, i) \o SubSeq(s, i + 1, i + Len(t)) = SubSeq(s, 1, i + Len(t))
      BY <2>3, ConcatAdjacentSubSeq
    <3>2. QED
      BY <2>2, <3>1
  <2>6. IsPrefix(r \o t, s)
    <3> DEFINE m == i + Len(t)
               rt == SubSeq(s, 1, m)
    <3>1. rt \in Seq(A) /\ Len(rt) = m
      <4> HIDE DEF m
      <4>1. m \in 0 .. Len(s)
        BY <2>3 DEF m
      <4>2. QED
        BY <4>1, SplitAt
    <3>2. m <= Len(s)
      BY <2>3
    <3>3. rt = SubSeq(s, 1, Len(rt))
      BY <3>1
    <3> HIDE DEF rt, m
    <3>4. SubSeq(rt, 1, Len(rt)) = rt
      BY <3>1, SubSeqFull
    <3>5. IsPrefix(rt, s)
      BY <3>1, <3>2, <3>3, <3>4 DEF IsPrefix
    <3>6. QED
      BY <2>5, <3>5 DEF rt, m
  <2>7. ASSUME NEW n \in Len(r) + 1 .. Len(s), IsPrefix(SubSeq(s, 1, n) \o t, s)
        PROVE  FALSE
    <3>1. n \in 0 .. Len(s) /\ n > i
      BY <1>2, <2>3, <2>4, <2>7
    <3>2. n \in 0 .. Len(s) - Len(t) /\ SubSeq(s, n + 1, n + Len(t)) = t
      BY <2>7, <3>1, OccursAt
    <3>3. n \in at
      BY <3>2
    <3>4. n <= i
      <4> HIDE DEF at
      <4>1. QED
        BY <2>1, <3>3
    <3>5. QED
      BY <2>3, <3>1, <3>4
  <2>8. \E n \in 0 .. Len(s) : IsPrefix(SubSeq(s, 1, n) \o t, s)
    BY <2>3, <2>6
  <2>9. IsTailRemoved(s, t, r)
    <3> HIDE DEF r
    <3>1. QED
      BY <2>6, <2>7, <2>8 DEF IsTailRemoved
  <2>10. QED
    BY <1>4, <2>9 DEF i
<1>5. QED
  BY <1>3, <1>4

\* The characters of C among the first ones of a string, counted one by one.
LEMMA CountOfGrows ==
  ASSUME NEW s, NEW C
  PROVE  /\ CountOf(s, 0, C) = 0
         /\ \A i \in Nat : CountOf(s, i, C) \in Nat
         /\ \A i, j \in Nat : j = i + 1 =>
              /\ s[j] \in C => CountOf(s, j, C) = CountOf(s, i, C) + 1
              /\ s[j] \notin C => CountOf(s, j, C) = CountOf(s, i, C)
<1> DEFINE K(n) == {j \in 1 .. n : s[j] \in C}
<1>1. CountOf(s, 0, C) = 0
  <2>1. K(0) = {}
    OBVIOUS
  <2>2. QED
    BY <2>1, FS_EmptySet DEF CountOf
<1>2. ASSUME NEW i \in Nat PROVE IsFiniteSet(K(i)) /\ Cardinality(K(i)) \in Nat
  <2>1. IsFiniteSet(1 .. i) /\ K(i) \in SUBSET (1 .. i)
    BY FS_Interval
  <2> HIDE DEF K
  <2>2. QED
    BY <2>1, FS_Subset, FS_CardinalityType
<1>3. ASSUME NEW i \in Nat
      PROVE  CountOf(s, i + 1, C) = IF s[i + 1] \in C THEN CountOf(s, i, C) + 1
                                                     ELSE CountOf(s, i, C)
  <2>1. /\ i + 1 \notin K(i)
        /\ K(i + 1) = IF s[i + 1] \in C THEN K(i) \cup {i + 1} ELSE K(i)
    <3>1. 1 .. i + 1 = 1 .. i \cup {i + 1}
      BY IntervalGrows
    <3>2. QED
      BY <3>1
  <2>2. CountOf(s, i, C) = Cardinality(K(i)) /\ CountOf(s, i + 1, C) = Cardinality(K(i + 1))
    BY DEF CountOf
  <2>3. IsFiniteSet(K(i))
    BY <1>2
  <2> HIDE DEF K
  <2>4. Cardinality(K(i) \cup {i + 1}) = Cardinality(K(i)) + 1
    BY <2>1, <2>3, FS_AddElement
  <2>5. QED
    BY <2>1, <2>2, <2>4
<1>4. \A i \in Nat : CountOf(s, i, C) \in Nat
  BY <1>2 DEF CountOf
<1>5. QED
  BY <1>1, <1>3, <1>4

\* With another character at the end.
LEMMA CountOfAppend ==
  ASSUME NEW A, NEW t \in Seq(A), NEW e \in A, NEW C
  PROVE  LET u == Append(t, e)
             n == Len(t)
         IN  /\ \A i \in 0 .. n : CountOf(u, i, C) = CountOf(t, i, C)
             /\ CountOf(t, n, C) \in Nat
             /\ CountOf(u, n + 1, C) = IF e \in C THEN CountOf(t, n, C) + 1
                                                  ELSE CountOf(t, n, C)
<1> DEFINE u == Append(t, e)
           n == Len(t)
           m == n + 1
<1>1. n \in Nat /\ u[m] = e /\ \A i \in 1 .. n : u[i] = t[i]
  BY LenProperties, AppendProperties
<1>2. m \in Nat /\ m = n + 1 /\ n \in 0 .. n
  BY <1>1
<1> HIDE DEF u, n, m
<1>3. \A i \in 0 .. n : CountOf(u, i, C) = CountOf(t, i, C)
  <2>1. \A i \in 0 .. n : {j \in 1 .. i : u[j] \in C} = {j \in 1 .. i : t[j] \in C}
    BY <1>1
  <2>2. QED
    BY <2>1 DEF CountOf
<1>4. CountOf(t, n, C) \in Nat
  BY <1>1, CountOfGrows
<1>5. /\ u[m] \in C => CountOf(u, m, C) = CountOf(u, n, C) + 1
      /\ u[m] \notin C => CountOf(u, m, C) = CountOf(u, n, C)
  BY <1>1, <1>2, CountOfGrows, Zenon
<1>6. CountOf(u, m, C) = IF e \in C THEN CountOf(t, n, C) + 1 ELSE CountOf(t, n, C)
  BY <1>1, <1>2, <1>3, <1>5
<1>7. QED
  BY <1>3, <1>4, <1>6 DEF u, n, m

\* What is left without the characters that are not in C: those that are.
LEMMA WithoutIsFilter ==
  ASSUME NEW A, NEW C, C \subseteq A, NEW str \in Seq(A)
  PROVE  IsFilterOf(str, C, Without(str, A \ C))
<1> DEFINE X == A \ C
           Fits(t) == \A i \in DOMAIN t : CountOf(t, i, C) \in Nat
                                       /\ (t[i] \in C => CountOf(t, i, C) \in 1 .. Len(Without(t, X)))
           T == {t \in Seq(A) : IsFilterOf(t, C, Without(t, X)) /\ Fits(t)}
<1>1. <<>> \in T
  <2>1. Without(<<>>, X) = <<>>
    BY WithoutEmpty
  <2>2. Len(<<>>) = 0 /\ DOMAIN <<>> = {} /\ <<>> \in Seq(A)
    BY EmptySeq
  <2>3. CountOf(<<>>, 0, C) = 0
    BY CountOfGrows, SMT
  <2> HIDE DEF X
  <2>4. QED
    BY <2>1, <2>2, <2>3 DEF IsFilterOf
<1>2. ASSUME NEW t \in Seq(A), NEW e \in A, t \in T PROVE Append(t, e) \in T
  <2> DEFINE n == Len(t)
             u == Append(t, e)
             w == Without(t, X)
             v == Without(u, X)
  <2>1. /\ n \in Nat /\ DOMAIN t = 1 .. n
        /\ u \in Seq(A) /\ Len(u) = n + 1 /\ DOMAIN u = 1 .. n + 1
        /\ u[n + 1] = e /\ \A i \in 1 .. n : u[i] = t[i]
    BY LenProperties, AppendProperties
  <2>2. /\ \A i \in 0 .. n : CountOf(u, i, C) = CountOf(t, i, C)
        /\ CountOf(t, n, C) \in Nat
        /\ CountOf(u, n + 1, C) = IF e \in C THEN CountOf(t, n, C) + 1 ELSE CountOf(t, n, C)
    BY CountOfAppend
  <2>3. /\ CountOf(t, n, C) \in Nat
        /\ CountOf(u, n + 1, C) = IF e \in C THEN CountOf(t, n, C) + 1 ELSE CountOf(t, n, C)
    BY <2>2
  <2>4. /\ w \in Seq(A) /\ v = IF e \in C THEN Append(w, e) ELSE w
    <3>1. e \in X <=> e \notin C
      OBVIOUS
    <3> HIDE DEF X
    <3>2. QED
      BY <3>1, WithoutType, WithoutAppend
  <2>5. /\ Len(w) \in Nat /\ Len(w) = CountOf(t, n, C)
        /\ \A i \in 1 .. n : /\ CountOf(t, i, C) \in Nat
                             /\ t[i] \in C => CountOf(t, i, C) \in 1 .. Len(w)
                                              /\ w[CountOf(t, i, C)] = t[i]
    <3> HIDE DEF X
    <3>1. QED
      BY <1>2, <2>1, <2>4, LenProperties DEF IsFilterOf
  <2> HIDE DEF X
  <2>6. /\ Len(v) = CountOf(u, n + 1, C) /\ Len(v) \in Nat
        /\ e \in C => Len(v) = Len(w) + 1 /\ v[Len(w) + 1] = e
                      /\ \A k \in 1 .. Len(w) : v[k] = w[k]
        /\ e \notin C => v = w
    <3>1. e \in C => /\ v = Append(w, e) /\ Len(v) = Len(w) + 1 /\ v[Len(w) + 1] = e
                     /\ \A k \in 1 .. Len(w) : v[k] = w[k]
      <4> HIDE DEF v, w, u
      <4>1. QED
        BY <2>4, AppendProperties
    <3> HIDE DEF v, w, u, n
    <3>2. QED
      BY <2>3, <2>4, <2>5, <3>1
  <2> HIDE DEF u, n, v, w
  <2>7. \A i \in 1 .. n + 1 : /\ CountOf(u, i, C) \in Nat
                              /\ u[i] \in C => /\ CountOf(u, i, C) \in 1 .. Len(v)
                                               /\ v[CountOf(u, i, C)] = u[i]
    <3> SUFFICES ASSUME NEW i \in 1 .. n + 1
                 PROVE  /\ CountOf(u, i, C) \in Nat
                        /\ u[i] \in C => /\ CountOf(u, i, C) \in 1 .. Len(v)
                                         /\ v[CountOf(u, i, C)] = u[i]
      OBVIOUS
    <3>1. CASE i = n + 1
      BY <2>1, <2>3, <2>5, <2>6, <3>1
    <3>2. CASE i \in 1 .. n
      <4>1. CountOf(u, i, C) = CountOf(t, i, C) /\ u[i] = t[i] /\ CountOf(t, i, C) \in Nat
        BY <2>1, <2>2, <2>5, <3>2
      <4>2. t[i] \in C => CountOf(t, i, C) \in 1 .. Len(w) /\ w[CountOf(t, i, C)] = t[i]
        BY <2>5, <3>2
      <4>3. CASE e \in C
        BY <4>1, <4>2, <4>3, <2>5, <2>6
      <4>4. CASE e \notin C
        BY <4>1, <4>2, <4>4, <2>6
      <4>5. QED
        BY <4>3, <4>4
    <3>3. QED
      BY <2>1, <3>1, <3>2
  <2>8. IsFilterOf(u, C, v) /\ \A i \in DOMAIN u : CountOf(u, i, C) \in Nat
                                       /\ (u[i] \in C => CountOf(u, i, C) \in 1 .. Len(v))
    BY <2>1, <2>6, <2>7 DEF IsFilterOf
  <2>9. QED
    BY <2>1, <2>8 DEF u, v
<1>3. \A t \in Seq(A) : t \in T
  <2> HIDE DEF T
  <2>1. QED
    BY <1>1, <1>2, SeqInductionSet
<1>4. QED
  BY <1>3

\* Lower case, character by character.
LEMMA LowerIsLower ==
  ASSUME NEW s \in Seq(Strings)
  PROVE  IsLowerCaseOf(s, [k \in DOMAIN s |-> ToLower(s[k])])
<1> DEFINE r == [k \in DOMAIN s |-> ToLower(s[k])]
<1>1. \A k \in DOMAIN s : s[k] \in Strings
  BY ElementOfSeq, LenProperties
<1>2. \A k \in DOMAIN s : r[k] = ToLower(s[k]) /\ r[k] \in Strings /\ ToLower(r[k]) = r[k]
  BY <1>1, CharacterAssumption
<1>3. DOMAIN r = DOMAIN s /\ r = [k \in DOMAIN s |-> r[k]]
  OBVIOUS
<1> HIDE DEF r
<1>4. Len(r) = Len(s)
  BY <1>2, <1>3, MappedSeq
<1>5. IsLowerCaseOf(s, r)
  BY <1>2, <1>4 DEF IsLowerCaseOf
<1>6. QED
  BY <1>5 DEF r

\* A part of the beginning of a string, and of what is put behind it.
LEMMA PartOfConcat ==
  ASSUME NEW A, NEW r \in Seq(A), NEW w \in Seq(A), NEW i \in Nat, NEW j \in Nat,
         j <= Len(r)
  PROVE  SubSeq(r \o w, i + 1, j) = SubSeq(r, i + 1, j)
<1> DEFINE rw == r \o w
           p == SubSeq(rw, i + 1, j)
           q == SubSeq(r, i + 1, j)
<1>1. /\ Len(r) \in Nat /\ Len(w) \in Nat
      /\ \A k \in 1 .. Len(r) : r[k] \in A
  BY LenProperties, ElementOfSeq
<1>2. \A k \in 1 .. Len(r) : rw[k] = r[k]
  <2>1. \A k \in 1 .. Len(r) + Len(w) : rw[k] = IF k <= Len(r) THEN r[k] ELSE w[k - Len(r)]
    BY ConcatProperties
  <2> HIDE DEF rw
  <2>2. QED
    BY <1>1, <2>1
<1> HIDE DEF rw
<1>3. \A k \in i + 1 .. j : k \in 1 .. Len(r) /\ rw[k] = r[k] /\ r[k] \in A /\ rw[k] \in A
  BY <1>1, <1>2
<1>4. /\ p \in Seq(A) /\ q \in Seq(A) /\ Len(p) = Len(q)
      /\ Len(p) = IF i + 1 <= j THEN j - (i + 1) + 1 ELSE 0
      /\ \A k \in 1 .. j - (i + 1) + 1 : p[k] = rw[i + 1 + k - 1]
      /\ \A k \in 1 .. j - (i + 1) + 1 : q[k] = r[i + 1 + k - 1]
  BY <1>3, SubSeqProperties
<1> HIDE DEF p, q
<1>5. \A k \in 1 .. Len(p) : p[k] = q[k]
  BY <1>3, <1>4
<1>6. p = q
  BY <1>4, <1>5, SeqEqual
<1>7. QED
  BY <1>6 DEF p, q, rw

\* A string between two others is the part it makes up.
LEMMA PartBetween ==
  ASSUME NEW A, NEW p \in Seq(A), NEW v \in Seq(A), NEW s \in Seq(A)
  PROVE  SubSeq((p \o v) \o s, Len(p) + 1, Len(p) + Len(v)) = v
<1> DEFINE pv == p \o v
           pvs == pv \o s
           i == Len(p)
           j == Len(p) + Len(v)
           q == SubSeq(pv, i + 1, j)
<1>1. /\ Len(p) \in Nat /\ Len(v) \in Nat
      /\ \A k \in 1 .. Len(v) : v[k] \in A
  BY LenProperties, ElementOfSeq
<1>2. pv \in Seq(A) /\ Len(pv) = j /\ i \in Nat /\ j \in Nat
  BY <1>1, ConcatProperties
<1>3. \A k \in 1 .. Len(v) : pv[i + k] = v[k]
  <2>1. \A k \in 1 .. Len(p) + Len(v) : pv[k] = IF k <= Len(p) THEN p[k] ELSE v[k - Len(p)]
    BY ConcatProperties
  <2> HIDE DEF pv
  <2>2. \A k \in 1 .. Len(v) : i + k \in 1 .. Len(p) + Len(v) /\ ~(i + k <= Len(p))
                               /\ (i + k) - Len(p) = k
    BY <1>1
  <2>3. QED
    BY <2>1, <2>2
<1> HIDE DEF pv
<1>4. SubSeq(pvs, i + 1, j) = q
  <2> HIDE DEF i, j
  <2>1. QED
    BY <1>2, PartOfConcat
<1>5. /\ q \in Seq(A) /\ Len(q) = Len(v)
      /\ \A k \in 1 .. Len(v) : q[k] = v[k]
  <2>1. \A k \in i + 1 .. j : pv[k] \in A
    <3>1. \A k \in i + 1 .. j : k \in 1 .. Len(pv)
      BY <1>1, <1>2
    <3>2. QED
      BY <1>2, <3>1, ElementOfSeq
  <2>2. /\ q \in Seq(A)
        /\ Len(q) = IF i + 1 <= j THEN j - (i + 1) + 1 ELSE 0
        /\ \A k \in 1 .. j - (i + 1) + 1 : q[k] = pv[i + 1 + k - 1]
    BY <1>2, <2>1, SubSeqProperties
  <2> HIDE DEF q
  <2>3. j - (i + 1) + 1 = Len(v) /\ (i + 1 <= j <=> Len(v) >= 1)
    BY <1>1
  <2>4. \A k \in 1 .. Len(v) : i + 1 + k - 1 = i + k
    BY <1>1
  <2> HIDE DEF i, j
  <2>5. QED
    BY <1>1, <1>3, <2>2, <2>3, <2>4
<1> HIDE DEF q
<1>6. q = v
  BY <1>5, SeqEqual
<1>7. QED
  BY <1>4, <1>6 DEF q, pvs, pv, i, j

\* The k-th of the strings is where at says in r, and the next one behind it.
PieceAt(strings, sep, r, at, k) ==
  LET end == at[k] + Len(strings[k])
      sepEnd == end + Len(sep)
  IN  /\ SubSeq(r, at[k] + 1, end) = strings[k]
      /\ IF k = Len(strings) THEN end = Len(r)
         ELSE at[k + 1] = sepEnd /\ SubSeq(r, end + 1, sepEnd) = sep
ArePieces(strings, sep, r, at) ==
  /\ at \in [DOMAIN strings -> 0 .. Len(r)]
  /\ at[1] = 0
  /\ \A k \in DOMAIN strings : PieceAt(strings, sep, r, at, k)

\* These are the places that IsJoined asks for.
LEMMA PiecesAreJoined ==
  ASSUME NEW strings, NEW sep, NEW r
  PROVE  IsJoined(strings, sep, r) <=>
           IF strings = <<>> THEN r = <<>> ELSE \E at : ArePieces(strings, sep, r, at)
BY DEF IsJoined, ArePieces, PieceAt

\* There are strings.
IsSome(strings) == strings # <<>>

\* Another string is joined at the end.
LEMMA JoinedGrows ==
  ASSUME NEW A, NEW x \in Seq(Seq(A)), IsSome(x), NEW v \in Seq(A), NEW sep \in Seq(A),
         NEW r \in Seq(A), IsJoined(x, sep, r)
  PROVE  IsJoined(Append(x, v), sep, r \o (sep \o v))
<1> DEFINE n == Len(x)
           y == Append(x, v)
           w == sep \o v
           rw == r \o w
<1>1. PICK at : ArePieces(x, sep, r, at)
  <2>1. x # <<>>
    BY DEF IsSome
  <2>2. QED
    BY <2>1, PiecesAreJoined
<1> DEFINE at2 == [k \in 1 .. n + 1 |-> IF k <= n THEN at[k] ELSE Len(r) + Len(sep)]
<1>2. /\ n \in Nat /\ n >= 1 /\ DOMAIN x = 1 .. n
      /\ y \in Seq(Seq(A)) /\ y # <<>> /\ Len(y) = n + 1 /\ DOMAIN y = 1 .. n + 1
      /\ y[n + 1] = v /\ \A k \in 1 .. n : y[k] = x[k]
  <2> DEFINE V == Seq(A)
  <2>1. v \in V /\ x \in Seq(V) /\ x # <<>>
    BY DEF IsSome
  <2> HIDE DEF V
  <2>2. n \in Nat /\ DOMAIN x = 1 .. n /\ n # 0
    BY <2>1, EmptySeq, LenProperties
  <2>3. /\ y \in Seq(V) /\ y # <<>> /\ Len(y) = n + 1
        /\ y[n + 1] = v /\ \A k \in 1 .. n : y[k] = x[k]
    BY <2>1, AppendProperties
  <2> HIDE DEF y, n
  <2>4. DOMAIN y = 1 .. n + 1
    BY <2>3, LenProperties
  <2>5. n >= 1
    BY <2>2
  <2>6. QED
    BY <2>2, <2>3, <2>4, <2>5 DEF V
<1>3. /\ Len(r) \in Nat /\ Len(sep) \in Nat /\ Len(v) \in Nat
      /\ w \in Seq(A) /\ rw \in Seq(A) /\ Len(rw) = (Len(r) + Len(sep)) + Len(v)
      /\ rw = (r \o sep) \o v /\ r \o sep \in Seq(A) /\ Len(r \o sep) = Len(r) + Len(sep)
  <2>1. Len(r) \in Nat /\ Len(sep) \in Nat /\ Len(v) \in Nat
    BY LenProperties
  <2>2. w \in Seq(A) /\ Len(w) = Len(sep) + Len(v)
    BY ConcatProperties
  <2>3. r \o sep \in Seq(A) /\ Len(r \o sep) = Len(r) + Len(sep)
    BY ConcatProperties
  <2>4. (r \o sep) \o v = r \o (sep \o v)
    BY ConcatAssociative
  <2> HIDE DEF w
  <2>5. rw \in Seq(A) /\ Len(rw) = Len(r) + Len(w)
    BY <2>2, ConcatProperties
  <2>6. Len(rw) = (Len(r) + Len(sep)) + Len(v)
    <3> HIDE DEF rw
    <3>1. QED
      BY <2>1, <2>2, <2>5
  <2>7. rw = (r \o sep) \o v
    BY <2>4 DEF w
  <2> HIDE DEF rw
  <2>8. QED
    BY <2>1, <2>2, <2>3, <2>5, <2>6, <2>7
<1>4. /\ at \in [1 .. n -> 0 .. Len(r)] /\ at[1] = 0
      /\ \A k \in 1 .. n : PieceAt(x, sep, r, at, k)
  BY <1>1, <1>2 DEF ArePieces
<1>5. \A k \in 1 .. n : at[k] \in Nat /\ Len(x[k]) \in Nat
  <2>1. \A k \in 1 .. n : x[k] \in Seq(A)
    BY <1>2, ElementOfSeq
  <2>2. \A k \in 1 .. n : Len(x[k]) \in Nat
    BY <2>1, LenProperties
  <2> HIDE DEF n
  <2>3. \A k \in 1 .. n : at[k] \in 0 .. Len(r)
    BY <1>4
  <2>4. 0 .. Len(r) \subseteq Nat
    BY <1>3
  <2>5. QED
    BY <2>2, <2>3, <2>4
<1>6. /\ at2 \in [DOMAIN y -> 0 .. Len(rw)]
      /\ at2[1] = 0 /\ at2[n + 1] = Len(r) + Len(sep)
      /\ \A k \in 1 .. n : at2[k] = at[k]
  <2>1. \A k \in 1 .. n + 1 : (IF k <= n THEN at[k] ELSE Len(r) + Len(sep)) \in 0 .. Len(rw)
    <3> SUFFICES ASSUME NEW k \in 1 .. n + 1
                 PROVE  (IF k <= n THEN at[k] ELSE Len(r) + Len(sep)) \in 0 .. Len(rw)
      OBVIOUS
    <3>1. CASE k <= n
      <4>1. k \in 1 .. n
        BY <1>2, <3>1
      <4>2. at[k] \in 0 .. Len(r)
        BY <1>4, <4>1
      <4> HIDE DEF rw, n
      <4>3. QED
        BY <1>3, <3>1, <4>2
    <3>2. CASE ~(k <= n)
      <4> HIDE DEF rw, n
      <4>1. QED
        BY <1>3, <3>2
    <3>3. QED
      BY <3>1, <3>2
  <2> HIDE DEF rw, n, y
  <2>2. QED
    BY <1>2, <1>4, <2>1
<1> HIDE DEF at2, y, n
<1>7. ASSUME NEW k \in 1 .. n PROVE PieceAt(y, sep, rw, at2, k)
  <2> DEFINE b == at[k]
             e == b + Len(x[k])
             f == e + Len(sep)
  <2>1. /\ SubSeq(r, b + 1, e) = x[k]
        /\ IF k = n THEN e = Len(r) ELSE at[k + 1] = f /\ SubSeq(r, e + 1, f) = sep
    BY <1>4 DEF PieceAt, n
  <2>2. b \in Nat /\ e \in Nat /\ f \in Nat /\ e <= f /\ f = e + Len(sep)
    BY <1>3, <1>5
  <2>3. b = at2[k] /\ x[k] = y[k] /\ e = at2[k] + Len(y[k])
    BY <1>2, <1>6
  <2> HIDE DEF b, e, f
  <2>4. k # n => f <= Len(r) /\ e <= Len(r) /\ at2[k + 1] = f
    <3>1. ASSUME k # n PROVE f <= Len(r) /\ e <= Len(r) /\ at2[k + 1] = f
      <4>1. k + 1 \in 1 .. n /\ at[k + 1] = f
        BY <1>2, <2>1, <3>1
      <4>2. at[k + 1] \in 0 .. Len(r) /\ at2[k + 1] = at[k + 1]
        BY <1>4, <1>6, <4>1
      <4>3. QED
        BY <1>3, <2>2, <4>1, <4>2
    <3>2. QED
      BY <3>1
  <2>5. k = n => e = Len(r) /\ e <= Len(r) /\ f = Len(r) + Len(sep) /\ at2[k + 1] = f
    BY <1>3, <1>6, <2>1, <2>2
  <2> HIDE DEF rw, w
  <2>6. SubSeq(rw, b + 1, e) = y[k]
    <3>1. e <= Len(r)
      BY <2>4, <2>5
    <3>2. SubSeq(rw, b + 1, e) = SubSeq(r, b + 1, e)
      BY <1>3, <2>2, <3>1, PartOfConcat DEF rw
    <3>3. QED
      BY <2>1, <2>3, <3>2
  <2>7. at2[k + 1] = f
    BY <2>4, <2>5
  <2>8. SubSeq(rw, e + 1, f) = sep
    <3>1. CASE k # n
      <4>1. SubSeq(rw, e + 1, f) = SubSeq(r, e + 1, f)
        BY <1>3, <2>2, <2>4, <3>1, PartOfConcat DEF rw
      <4>2. QED
        BY <2>1, <3>1, <4>1
    <3>2. CASE k = n
      <4>1. e = Len(r) /\ f = Len(r) + Len(sep)
        BY <2>5, <3>2
      <4>2. SubSeq((r \o sep) \o v, Len(r) + 1, Len(r) + Len(sep)) = sep
        BY PartBetween
      <4>3. QED
        BY <1>3, <4>1, <4>2
    <3>3. QED
      BY <3>1, <3>2
  <2>9. k # Len(y)
    BY <1>2
  <2>10. QED
    BY <2>2, <2>3, <2>6, <2>7, <2>8, <2>9 DEF PieceAt
<1>8. PieceAt(y, sep, rw, at2, n + 1)
  <2> DEFINE b == Len(r) + Len(sep)
             rs == r \o sep
  <2>1. at2[n + 1] = b /\ y[n + 1] = v /\ Len(y) = n + 1 /\ Len(rw) = b + Len(v)
    BY <1>2, <1>3, <1>6
  <2>2. SubSeq(rw, b + 1, b + Len(v)) = v
    <3>1. SubSeq((rs \o v) \o <<>>, Len(rs) + 1, Len(rs) + Len(v)) = v
      <4> DEFINE none == <<>>
      <4>1. none \in Seq(A) /\ rs \in Seq(A)
        BY <1>3, EmptySeq
      <4> HIDE DEF rs, none
      <4>2. SubSeq((rs \o v) \o none, Len(rs) + 1, Len(rs) + Len(v)) = v
        BY <4>1, PartBetween
      <4>3. QED
        BY <4>2 DEF none
    <3>2. rw \o <<>> = rw
      BY <1>3, ConcatEmptySeq
    <3>3. rw = rs \o v /\ Len(rs) = b
      BY <1>3
    <3> HIDE DEF rw, rs, b
    <3>4. QED
      BY <3>1, <3>2, <3>3
  <2> HIDE DEF b, rw
  <2>3. QED
    BY <2>1, <2>2 DEF PieceAt
<1>9. ArePieces(y, sep, rw, at2)
  <2>1. \A k \in DOMAIN y : k \in 1 .. n \/ k = n + 1
    BY <1>2
  <2> HIDE DEF rw
  <2>2. QED
    BY <1>6, <1>7, <1>8, <2>1 DEF ArePieces
<1>10. IsJoined(y, sep, rw)
  <2> HIDE DEF rw
  <2>1. QED
    BY <1>2, <1>9, PiecesAreJoined
<1>11. QED
  BY <1>10 DEF y, rw, w

\* Strings, each but the first behind sep.
Between(strings, sep) ==
  [k \in DOMAIN strings |-> IF k = 1 THEN strings[k] ELSE sep \o strings[k]]

\* They are strings.
LEMMA BetweenType ==
  ASSUME NEW V, NEW sep, NEW x \in Seq(V), \A t \in V : sep \o t \in V
  PROVE  /\ Between(x, sep) \in Seq(V) /\ Len(Between(x, sep)) = Len(x)
         /\ \A k \in 1 .. Len(x) : Between(x, sep)[k] = IF k = 1 THEN x[k] ELSE sep \o x[k]
<1> DEFINE g == Between(x, sep)
<1>1. DOMAIN x = 1 .. Len(x) /\ \A k \in DOMAIN x : x[k] \in V
  BY LenProperties, ElementOfSeq
<1>2. DOMAIN g = DOMAIN x /\ g = [k \in DOMAIN x |-> g[k]]
  BY DEF Between
<1>3. \A k \in DOMAIN x : g[k] = IF k = 1 THEN x[k] ELSE sep \o x[k]
  BY DEF Between
<1> HIDE DEF g
<1>4. \A k \in DOMAIN x : g[k] \in V
  BY <1>1, <1>3
<1>5. g \in Seq(V) /\ Len(g) = Len(x)
  BY <1>2, <1>4, MappedSeq
<1>6. QED
  BY <1>1, <1>3, <1>5 DEF g

\* Another string is put behind them.
LEMMA BetweenGrows ==
  ASSUME NEW A, NEW sep \in Seq(A), NEW x \in Seq(Seq(A)), NEW v \in Seq(A)
  PROVE  /\ Between(x, sep) \in Seq(Seq(A)) /\ sep \o v \in Seq(A)
         /\ Len(x) = 0 => FlattenSeq(Between(Append(x, v), sep)) = v
         /\ Len(x) # 0 => Between(Append(x, v), sep) = Append(Between(x, sep), sep \o v)
<1> DEFINE V == Seq(A)
           n == Len(x)
           w == sep \o v
           y == Append(x, v)
           b == Between(x, sep)
           c == Between(y, sep)
<1>1. \A t \in V : sep \o t \in V
  BY ConcatProperties
<1>2. v \in V /\ w \in V /\ x \in Seq(V)
  BY <1>1
<1> HIDE DEF V
<1>3. /\ n \in Nat /\ DOMAIN x = 1 .. n /\ \A k \in 1 .. n : x[k] \in V
      /\ y \in Seq(V) /\ Len(y) = n + 1
      /\ y[n + 1] = v /\ \A k \in 1 .. n : y[k] = x[k]
  BY <1>2, LenProperties, ElementOfSeq, AppendProperties
<1>4. b \in Seq(V) /\ Len(b) = n /\ \A k \in 1 .. n : b[k] = IF k = 1 THEN x[k] ELSE sep \o x[k]
  BY <1>1, <1>2, BetweenType
<1>5. c \in Seq(V) /\ Len(c) = n + 1
      /\ \A k \in 1 .. n + 1 : c[k] = IF k = 1 THEN y[k] ELSE sep \o y[k]
  <2> HIDE DEF y
  <2>1. /\ c \in Seq(V) /\ Len(c) = Len(y)
        /\ \A k \in 1 .. Len(y) : c[k] = IF k = 1 THEN y[k] ELSE sep \o y[k]
    BY <1>1, <1>3, BetweenType
  <2> HIDE DEF n, c
  <2>2. QED
    BY <1>3, <2>1
<1> HIDE DEF b, c, y
<1>6. ASSUME n = 0 PROVE FlattenSeq(c) = v
  <2>1. Len(c) = 1 /\ c[1] = v
    BY <1>3, <1>5, <1>6
  <2>2. <<v>> \in Seq(V) /\ Len(<<v>>) = 1 /\ <<v>>[1] = v
    BY <1>2
  <2> DEFINE one == <<v>>
  <2>3. one \in Seq(V) /\ Len(one) = 1 /\ one[1] = v
    BY <2>2
  <2> HIDE DEF one
  <2>4. \A k \in 1 .. Len(c) : c[k] = one[k]
    BY <2>1, <2>3
  <2>5. c = one
    BY <1>5, <2>1, <2>3, <2>4, SeqEqual
  <2>6. FlattenSeq(one) = v
    BY <1>2, FlattenSeqOne DEF one, V
  <2>7. QED
    BY <2>5, <2>6
<1>7. ASSUME n # 0 PROVE c = Append(b, w)
  <2> DEFINE d == Append(b, w)
  <2>1. d \in Seq(V) /\ Len(d) = n + 1 /\ d[n + 1] = w /\ \A k \in 1 .. n : d[k] = b[k]
    BY <1>2, <1>4, AppendProperties
  <2> HIDE DEF d
  <2>2. ASSUME NEW k \in 1 .. n + 1 PROVE c[k] = d[k]
    <3>1. CASE k = n + 1
      <4>1. c[k] = sep \o y[k] /\ y[k] = v
        BY <1>3, <1>5, <1>7, <3>1
      <4>2. QED
        BY <2>1, <3>1, <4>1 DEF w
    <3>2. CASE k # n + 1
      <4>1. k \in 1 .. n
        BY <1>3, <3>2
      <4> HIDE DEF n
      <4>2. c[k] = (IF k = 1 THEN y[k] ELSE sep \o y[k]) /\ y[k] = x[k]
        BY <1>3, <1>5, <4>1
      <4>3. d[k] = IF k = 1 THEN x[k] ELSE sep \o x[k]
        BY <1>4, <2>1, <4>1
      <4>4. QED
        BY <4>2, <4>3
    <3>3. QED
      BY <3>1, <3>2
  <2>3. c = d
    BY <1>5, <2>1, <2>2, SeqEqual
  <2>4. QED
    BY <2>3 DEF d
<1>8. QED
  BY <1>2, <1>4, <1>6, <1>7 DEF V, b, c, y

\* One string alone.
LEMMA OneIsJoined ==
  ASSUME NEW A, NEW sep \in Seq(A), NEW one \in Seq(Seq(A)), Len(one) = 1
  PROVE  IsJoined(one, sep, one[1])
<1> DEFINE at == [k \in 1 .. 1 |-> 0]
           v == one[1]
<1>1. v \in Seq(A) /\ DOMAIN one = 1 .. 1 /\ one # <<>>
  <2>1. DOMAIN one = 1 .. 1
    BY LenProperties
  <2>2. 1 \in 1 .. Len(one)
    OBVIOUS
  <2>3. v \in Seq(A)
    BY <2>2, ElementOfSeq
  <2>4. Len(<<>>) = 0
    OBVIOUS
  <2>5. one # <<>>
    <3>1. ASSUME one = <<>> PROVE FALSE
      <4>1. Len(one) = 0
        BY <3>1
      <4>2. QED
        BY <4>1
    <3>2. QED
      BY <3>1
  <2>6. QED
    BY <2>1, <2>3, <2>5
<1> HIDE DEF v
<1>2. Len(v) \in Nat /\ at \in [1 .. 1 -> 0 .. Len(v)] /\ at[1] = 0
  BY <1>1, LenProperties
<1>3. SubSeq(v, 0 + 1, 0 + Len(v)) = v
  BY <1>1, <1>2, SubSeqFull
<1> HIDE DEF at
<1>4. PieceAt(one, sep, v, at, 1)
  BY <1>2, <1>3 DEF PieceAt, v
<1>5. ArePieces(one, sep, v, at)
  BY <1>1, <1>2, <1>4 DEF ArePieces
<1>6. IsJoined(one, sep, v)
  BY <1>1, <1>5, PiecesAreJoined
<1>7. QED
  BY <1>6 DEF v

\* The join of strings with sep between them is what IsJoined says.
LEMMA JoinIsJoined ==
  ASSUME NEW A, NEW sep \in Seq(A), NEW strings \in Seq(Seq(A))
  PROVE  IsJoined(strings, sep, FlattenSeq(Between(strings, sep)))
<1> DEFINE V == Seq(A)
           Join(x) == FlattenSeq(Between(x, sep))
           T == {x \in Seq(V) : IsJoined(x, sep, Join(x))}
<1>1. <<>> \in T
  <2>1. Between(<<>>, sep) = <<>>
    BY DEF Between
  <2>2. Join(<<>>) = <<>>
    BY <2>1, FlattenSeqEmpty
  <2> HIDE DEF Join, V
  <2>3. QED
    BY <2>2, EmptySeq DEF IsJoined
<1>2. ASSUME NEW x \in Seq(V), NEW v \in V, x \in T PROVE Append(x, v) \in T
  <2>1. Append(x, v) \in Seq(V)
    <3> HIDE DEF V, T
    <3>1. QED
      BY AppendProperties
  <2>2. Between(x, sep) \in Seq(Seq(A)) /\ sep \o v \in Seq(A) /\ Join(x) \in Seq(A)
    <3>1. Between(x, sep) \in Seq(Seq(A)) /\ sep \o v \in Seq(A)
      BY BetweenGrows
    <3>2. QED
      BY <3>1, FlattenSeqType
  <2>3. CASE Len(x) = 0
    <3>1. Join(Append(x, v)) = v
      BY <2>3, BetweenGrows
    <3>2. Append(x, v) \in Seq(Seq(A)) /\ Len(Append(x, v)) = 1 /\ Append(x, v)[1] = v
      <4> HIDE DEF T, Join, V
      <4>1. /\ Append(x, v) \in Seq(V) /\ Len(Append(x, v)) = Len(x) + 1
            /\ Append(x, v)[Len(x) + 1] = v
        BY AppendProperties
      <4>2. QED
        BY <2>3, <4>1 DEF V
    <3>3. IsJoined(Append(x, v), sep, v)
      <4> HIDE DEF T, Join
      <4>1. QED
        BY <3>2, OneIsJoined
    <3> HIDE DEF Join, V
    <3>4. QED
      BY <2>1, <3>1, <3>3
  <2>4. CASE Len(x) # 0
    <3>1. Between(Append(x, v), sep) = Append(Between(x, sep), sep \o v)
      BY <2>4, BetweenGrows
    <3>2. Join(Append(x, v)) = Join(x) \o (sep \o v)
      BY <2>2, <3>1, FlattenSeqAppend
    <3>3. IsSome(x)
      <4>1. Len(<<>>) = 0
        OBVIOUS
      <4>2. QED
        BY <2>4, <4>1 DEF IsSome
    <3>4. IsJoined(x, sep, Join(x))
      BY <1>2
    <3>5. IsJoined(Append(x, v), sep, Join(x) \o (sep \o v))
      <4> HIDE DEF Join, T
      <4>1. QED
        BY <2>2, <3>3, <3>4, JoinedGrows
    <3> HIDE DEF Join, V
    <3>6. QED
      BY <2>1, <3>2, <3>5
  <2>5. QED
    BY <2>3, <2>4
<1>3. \A x \in Seq(V) : x \in T
  <2> HIDE DEF T, V
  <2>1. QED
    BY <1>1, <1>2, SeqInductionSet
<1>4. QED
  BY <1>3

\* A replacement as the code counts it: Starts are the places where the string is found,
\* skip how many characters of one that is replaced are still to be passed over.
IsSkipping(len, L, Starts, skip) ==
  /\ skip \in [0 .. len -> Nat] /\ skip[0] = 0
  /\ \A n \in 1 .. len : skip[n] = IF skip[n - 1] > 0 THEN skip[n - 1] - 1
                                   ELSE IF n \in Starts THEN L - 1 ELSE 0

\* What is passed over is behind a place where one is replaced.
LEMMA SkippedIsCovered ==
  ASSUME NEW len \in Nat, NEW L \in Nat \ {0}, NEW Starts \in SUBSET (1 .. len), NEW skip,
         IsSkipping(len, L, Starts, skip)
  PROVE  \A n \in 1 .. len :
           (\E k \in Starts : skip[k - 1] = 0 /\ k < n /\ n < k + L) <=> skip[n - 1] > 0
<1> DEFINE K == {k \in Starts : skip[k - 1] = 0}
           Reaches(n) == \A k \in K : k <= n => k + L - 1 - n <= skip[n]
           Stems(n) == skip[n] > 0 => \E k \in K : k <= n /\ k + L - 1 - n = skip[n]
           T == {n \in Nat : n <= len => Reaches(n) /\ Stems(n)}
<1>1. /\ skip[0] = 0 /\ \A n \in 0 .. len : skip[n] \in Nat
      /\ K \subseteq 1 .. len
  BY DEF IsSkipping
<1>2. 0 \in T
  BY <1>1
<1>3. ASSUME NEW n \in Nat, n \in T PROVE n + 1 \in T
  <2> SUFFICES ASSUME n + 1 <= len PROVE Reaches(n + 1) /\ Stems(n + 1)
    OBVIOUS
  <2>1. Reaches(n) /\ Stems(n)
    BY <1>3
  <2>2. /\ n \in 0 .. len /\ n + 1 \in 1 .. len /\ n + 1 \in 0 .. len /\ (n + 1) - 1 = n
        /\ skip[n] \in Nat /\ skip[n + 1] \in Nat
    BY <1>1
  <2>3. skip[n + 1] = IF skip[n] > 0 THEN skip[n] - 1 ELSE IF n + 1 \in Starts THEN L - 1 ELSE 0
    BY <2>2 DEF IsSkipping
  <2>4. n + 1 \in K <=> n + 1 \in Starts /\ skip[n] = 0
    BY <2>2
  <2>5. \A k \in K : k \in Nat /\ (k <= n + 1 <=> k <= n \/ k = n + 1)
    BY <1>1
  <2> HIDE DEF K, T
  <2>6. CASE skip[n] > 0
    <3>1. skip[n + 1] = skip[n] - 1 /\ n + 1 \notin K
      BY <2>2, <2>3, <2>4, <2>6
    <3>2. Reaches(n + 1)
      BY <2>1, <2>2, <2>5, <3>1
    <3>3. Stems(n + 1)
      <4>1. PICK k \in K : k <= n /\ k + L - 1 - n = skip[n]
        BY <2>1, <2>6
      <4>2. k \in Nat
        BY <2>5
      <4>3. k <= n + 1 /\ k + L - 1 - (n + 1) = skip[n + 1]
        BY <2>2, <3>1, <4>1, <4>2
      <4>4. QED
        BY <4>3
    <3>4. QED
      BY <3>2, <3>3
  <2>7. CASE skip[n] = 0 /\ n + 1 \in Starts
    <3>1. skip[n + 1] = L - 1 /\ n + 1 \in K
      BY <2>3, <2>4, <2>7
    <3>2. Reaches(n + 1)
      BY <2>1, <2>2, <2>5, <2>7, <3>1
    <3>3. Stems(n + 1)
      BY <2>2, <3>1
    <3>4. QED
      BY <3>2, <3>3
  <2>8. CASE skip[n] = 0 /\ n + 1 \notin Starts
    <3>1. skip[n + 1] = 0 /\ n + 1 \notin K
      BY <2>3, <2>4, <2>8
    <3>2. Reaches(n + 1)
      BY <2>1, <2>2, <2>5, <2>8, <3>1
    <3>3. QED
      BY <3>1, <3>2
  <2>9. QED
    BY <2>2, <2>6, <2>7, <2>8
<1>4. \A n \in Nat : n \in T
  <2> HIDE DEF T
  <2>1. QED
    BY <1>2, <1>3, NatInductionSet
<1>5. ASSUME NEW n \in 1 .. len
      PROVE  (\E k \in Starts : skip[k - 1] = 0 /\ k < n /\ n < k + L) <=> skip[n - 1] > 0
  <2> DEFINE m == n - 1
  <2>1. m \in Nat /\ m <= len /\ m \in 0 .. len /\ n = m + 1
    OBVIOUS
  <2> HIDE DEF m
  <2>2. Reaches(m) /\ Stems(m) /\ skip[m] \in Nat
    BY <1>1, <1>4, <2>1
  <2>3. ASSUME NEW k \in Starts, skip[k - 1] = 0, k < n, n < k + L PROVE skip[m] > 0
    <3>1. k \in K /\ k \in Nat
      BY <1>1, <2>3
    <3>2. k <= m /\ k + L - 1 - m > 0
      BY <2>1, <2>3, <3>1
    <3>3. k + L - 1 - m <= skip[m]
      <4> HIDE DEF K
      <4>1. QED
        BY <2>2, <3>1, <3>2
    <3>4. QED
      BY <2>1, <2>2, <3>1, <3>2, <3>3
  <2>4. ASSUME skip[m] > 0 PROVE \E k \in Starts : skip[k - 1] = 0 /\ k < n /\ n < k + L
    <3>1. PICK k \in K : k <= m /\ k + L - 1 - m = skip[m]
      BY <2>2, <2>4
    <3>2. k \in Starts /\ skip[k - 1] = 0 /\ k \in Nat
      BY <1>1
    <3>3. k < n /\ n < k + L
      BY <2>1, <2>2, <2>4, <3>1, <3>2
    <3>4. QED
      BY <3>2, <3>3
  <2>5. QED
    BY <2>3, <2>4 DEF m
<1>6. QED
  BY <1>5

\* A string put together step by step is the join of the pieces.
LEMMA JoinedStepwise ==
  ASSUME NEW A, NEW g \in Seq(Seq(A)), NEW h, h[0] = <<>>,
         \A n \in 1 .. Len(g) : h[n] = h[n - 1] \o g[n]
  PROVE  h[Len(g)] = FlattenSeq(g)
<1> DEFINE len == Len(g)
<1>1. PICK f \in [Nat -> Seq(A)] :
        /\ f[0] = <<>>
        /\ \A n \in 1 .. len : f[n] = f[n - 1] \o g[n]
        /\ FlattenSeq(g) = f[len]
  BY FlattenSeqJoins
<1>2. len \in Nat
  BY LenProperties
<1>3. \A n \in 1 .. len : h[n] = h[n - 1] \o g[n]
  OBVIOUS
<1> DEFINE T == {n \in Nat : n <= len => h[n] = f[n]}
<1> HIDE DEF len
<1>4. 0 \in T
  BY <1>1
<1>5. ASSUME NEW n \in Nat, n \in T PROVE n + 1 \in T
  <2>1. ASSUME n + 1 <= len PROVE h[n + 1] = f[n + 1]
    <3>1. n + 1 \in 1 .. len /\ (n + 1) - 1 = n /\ h[n] = f[n]
      <4>1. n + 1 \in 1 .. len /\ (n + 1) - 1 = n /\ n <= len
        BY <1>2, <2>1
      <4>2. n <= len => h[n] = f[n]
        BY <1>5
      <4>3. QED
        BY <4>1, <4>2
    <3>2. h[n + 1] = h[(n + 1) - 1] \o g[n + 1] /\ f[n + 1] = f[(n + 1) - 1] \o g[n + 1]
      BY <1>1, <1>3, <3>1
    <3>3. QED
      BY <3>1, <3>2
  <2>2. QED
    BY <2>1
<1>6. \A n \in Nat : n \in T
  <2> HIDE DEF T
  <2>1. QED
    BY <1>4, <1>5, NatInductionSet
<1>7. h[len] = f[len]
  BY <1>2, <1>6
<1>8. QED
  BY <1>1, <1>7 DEF len

\* A string with a piece added, and the pieces a replacement adds.
Extended(text, piece) == text \o piece
Behind(new, c) == Append(new, c)
Single(c) == <<c>>
Nothing == <<>>
LEMMA AppendedBehind ==
  ASSUME NEW A, NEW text \in Seq(A), NEW new \in Seq(A), NEW c \in A
  PROVE  /\ Behind(new, c) \in Seq(A)
         /\ Single(c) \in Seq(A)
         /\ Extended(Extended(text, new), Single(c)) = Extended(text, Behind(new, c))
<1> DEFINE one == <<c>>
<1>1. one \in Seq(A) /\ Append(new, c) = new \o one /\ Append(new, c) \in Seq(A)
  BY AppendIsConcat, AppendProperties
<1>2. Single(c) = one
  BY DEF Single
<1> HIDE DEF one
<1>3. (text \o new) \o one = text \o (new \o one)
  BY <1>1, ConcatAssociative
<1>4. new \o one = Behind(new, c)
  BY <1>1 DEF Behind
<1>5. (text \o new) \o Single(c) = text \o Behind(new, c)
  BY <1>2, <1>3, <1>4
<1>6. Extended(Extended(text, new), Single(c)) = Extended(text, Behind(new, c))
  BY <1>5 DEF Extended
<1>7. QED
  BY <1>1, <1>2, <1>6 DEF Behind

\* The characters of a string, each behind new.
LEMMA EachBehind ==
  ASSUME NEW A, NEW V, NEW s \in Seq(A), NEW new, \A c \in A : Behind(new, c) \in V
  PROVE  LET g == [n \in DOMAIN s |-> Behind(new, s[n])]
         IN  g \in Seq(V) /\ Len(g) = Len(s) /\ \A n \in 1 .. Len(s) : g[n] = Behind(new, s[n])
<1> DEFINE g == [n \in DOMAIN s |-> Behind(new, s[n])]
<1>1. DOMAIN s = 1 .. Len(s) /\ \A n \in DOMAIN s : s[n] \in A
  BY LenProperties, ElementOfSeq
<1>2. /\ DOMAIN g = DOMAIN s /\ g = [n \in DOMAIN s |-> g[n]]
      /\ \A n \in DOMAIN s : g[n] = Behind(new, s[n])
  OBVIOUS
<1> HIDE DEF g
<1>3. \A n \in DOMAIN s : g[n] \in V
  BY <1>1, <1>2
<1>4. g \in Seq(V) /\ Len(g) = Len(s)
  BY <1>2, <1>3, MappedSeq
<1>5. QED
  BY <1>1, <1>2, <1>4 DEF g

\* What a step adds to the text and how much is passed over behind it, where the string
\* that is replaced is empty, and where it is not.
IsThrough(v) == v.skip = 0
IsNone(t) == t = <<>>
StartsAt(s, t, n) == IsPrefix(t, SubSeq(s, n, Len(s)))
LEMMA ReplacingIs ==
  ASSUME NEW A, NEW s \in Seq(A), NEW t \in Seq(A), NEW new \in Seq(A),
         NEW v \in Replacements(A), NEW n \in 1 .. Len(s)
  PROVE  LET w == Replacing(s, t, new, v, n)
         IN  /\ v.text \in Seq(A) /\ v.skip \in Nat
             /\ IsNone(t) /\ IsThrough(v) => w.text = Extended(v.text, Behind(new, s[n])) /\ w.skip = 0
             /\ IsSome(t) /\ ~IsThrough(v) => w.text = Extended(v.text, Nothing) /\ w.skip = v.skip - 1
             /\ IsSome(t) /\ IsThrough(v) /\ StartsAt(s, t, n) =>
                  w.text = Extended(v.text, new) /\ w.skip = Len(t) - 1
             /\ IsSome(t) /\ IsThrough(v) /\ ~StartsAt(s, t, n) =>
                  w.text = Extended(v.text, Single(s[n])) /\ w.skip = 0
<1> DEFINE w == Replacing(s, t, new, v, n)
<1>1. v.text \in Seq(A) /\ v.skip \in Nat /\ v = [text |-> v.text, skip |-> v.skip]
  BY DEF Replacements
<1>2. s[n] \in A
  BY ElementOfSeq
<1>3. ASSUME IsNone(t), IsThrough(v)
      PROVE  w.text = Extended(v.text, Behind(new, s[n])) /\ w.skip = 0
  <2>1. w = [v EXCEPT !.text = v.text \o new \o <<s[n]>>]
    BY <1>3 DEF Replacing, IsNone, IsThrough
  <2>2. w.text = v.text \o new \o <<s[n]>> /\ w.skip = 0
    <3> HIDE DEF w
    <3>1. QED
      BY <1>1, <1>3, <2>1 DEF IsThrough
  <2>3. w.text = Extended(v.text, Behind(new, s[n]))
    <3> DEFINE text == v.text
    <3> DEFINE c == s[n]
    <3>1. text \in Seq(A) /\ c \in A
      BY <1>1, <1>2
    <3>2. w.text = Extended(Extended(text, new), Single(c))
      BY <2>2 DEF Extended, Single
    <3> HIDE DEF text, w, c
    <3>3. Extended(Extended(text, new), Single(c)) = Extended(text, Behind(new, c))
      BY <3>1, AppendedBehind
    <3>4. QED
      BY <3>2, <3>3 DEF text, c
  <2>4. QED
    BY <2>2, <2>3
<1>4. ASSUME IsSome(t), ~IsThrough(v) PROVE w.text = Extended(v.text, Nothing) /\ w.skip = v.skip - 1
  <2>1. w = [v EXCEPT !.skip = v.skip - 1]
    BY <1>1, <1>4 DEF Replacing, IsThrough
  <2>2. Extended(v.text, Nothing) = v.text
    BY <1>1, ConcatEmptySeq DEF Extended, Nothing
  <2> HIDE DEF w
  <2>3. QED
    BY <1>1, <2>1, <2>2
<1>5. ASSUME IsSome(t), IsThrough(v), StartsAt(s, t, n)
      PROVE  w.text = Extended(v.text, new) /\ w.skip = Len(t) - 1
  <2>1. w = [text |-> v.text \o new, skip |-> Len(t) - 1]
    BY <1>5 DEF Replacing, IsSome, IsThrough, StartsAt
  <2>2. QED
    BY <2>1 DEF Extended
<1>6. ASSUME IsSome(t), IsThrough(v), ~StartsAt(s, t, n)
      PROVE  w.text = Extended(v.text, Single(s[n])) /\ w.skip = 0
  <2>1. w = [v EXCEPT !.text = Append(v.text, s[n])]
    BY <1>6 DEF Replacing, IsSome, IsThrough, StartsAt
  <2>2. Append(v.text, s[n]) = Extended(v.text, Single(s[n]))
    BY <1>1, <1>2, AppendIsConcat DEF Extended, Single
  <2> HIDE DEF w
  <2>3. QED
    BY <1>1, <1>6, <2>1, <2>2 DEF IsThrough
<1>7. QED
  BY <1>1, <1>3, <1>4, <1>5, <1>6

\* An empty string is replaced before every character and at the end.
LEMMA NothingIsReplaced ==
  ASSUME NEW A, NEW s \in Seq(A), NEW t \in Seq(A), NEW new \in Seq(A), IsNone(t)
  PROVE  IsReplaced(s, t, new, ReplaceEvery(s, t, new))
<1> DEFINE len == Len(s)
           g == [n \in DOMAIN s |-> Behind(new, s[n])]
<1>1. PICK at : /\ IsReplacing(A, s, t, new, at)
                /\ ReplaceEvery(s, t, new) =
                     at[Len(s)].text \o (IF t = <<>> THEN new ELSE <<>>)
  BY ReplaceEveryIs
<1> DEFINE h == [n \in 0 .. len |-> at[n].text]
           T == {n \in Nat : n <= len => at[n].skip = 0}
<1>2. /\ len \in Nat /\ DOMAIN s = 1 .. len
      /\ \A n \in 0 .. len : at[n] \in Replacements(A)
      /\ at[0] = [text |-> <<>>, skip |-> 0]
      /\ \A n \in 1 .. len : at[n] = Replacing(s, t, new, at[n - 1], n)
  BY <1>1, LenProperties DEF IsReplacing
<1>3. g \in Seq(Seq(A)) /\ Len(g) = len /\ \A n \in 1 .. len : g[n] = Behind(new, s[n])
  <2> DEFINE V == Seq(A)
  <2>1. \A c \in A : Behind(new, c) \in V
    BY AppendedBehind
  <2> HIDE DEF V
  <2>2. g \in Seq(V) /\ Len(g) = len /\ \A n \in 1 .. len : g[n] = Behind(new, s[n])
    BY <2>1, EachBehind
  <2>3. QED
    BY <2>2 DEF V
<1>4. ASSUME NEW n \in 1 .. len, IsThrough(at[n - 1])
      PROVE  at[n].text = Extended(at[n - 1].text, g[n]) /\ at[n].skip = 0
  <2>1. n - 1 \in 0 .. len /\ n \in 1 .. Len(s)
    BY <1>2
  <2>2. at[n - 1] \in Replacements(A) /\ at[n] = Replacing(s, t, new, at[n - 1], n)
    BY <1>2, <2>1
  <2> DEFINE v == at[n - 1]
  <2>3. v \in Replacements(A) /\ IsThrough(v) /\ at[n] = Replacing(s, t, new, v, n)
    BY <1>4, <2>2
  <2> HIDE DEF v, g, h, T, len
  <2>4. at[n].text = Extended(v.text, Behind(new, s[n])) /\ at[n].skip = 0
    <3> DEFINE w == Replacing(s, t, new, v, n)
    <3>1. w.text = Extended(v.text, Behind(new, s[n])) /\ w.skip = 0
      BY <2>1, <2>3, ReplacingIs
    <3> HIDE DEF w
    <3>2. at[n] = w
      BY <2>3 DEF w
    <3>3. QED
      BY <3>1, <3>2
  <2>5. QED
    BY <1>3, <2>4 DEF v
<1>5. \A n \in Nat : n \in T
  <2>1. 0 \in T
    BY <1>2
  <2>2. ASSUME NEW n \in Nat, n \in T PROVE n + 1 \in T
    <3>1. ASSUME n + 1 <= len PROVE at[n + 1].skip = 0
      <4>1. n + 1 \in 1 .. len /\ (n + 1) - 1 = n /\ n <= len
        BY <1>2, <3>1
      <4>2. IsThrough(at[(n + 1) - 1])
        BY <2>2, <4>1 DEF IsThrough
      <4> HIDE DEF g, len, T
      <4>3. QED
        BY <1>4, <4>1, <4>2
    <3>2. QED
      BY <3>1
  <2> HIDE DEF T
  <2>3. QED
    BY <2>1, <2>2, NatInductionSet
<1>6. h[0] = <<>> /\ \A n \in 1 .. len : h[n] = h[n - 1] \o g[n]
  <2>1. 0 \in 0 .. len /\ \A n \in 1 .. len : n \in 0 .. len /\ n - 1 \in 0 .. len /\ n - 1 \in Nat
                                             /\ n - 1 <= len
    BY <1>2
  <2>2. \A n \in 0 .. len : h[n] = at[n].text
    OBVIOUS
  <2>3. \A n \in 1 .. len : IsThrough(at[n - 1])
    BY <1>5, <2>1 DEF IsThrough
  <2> HIDE DEF h, g, T, len
  <2>4. h[0] = <<>>
    BY <1>2, <2>1, <2>2
  <2>5. \A n \in 1 .. len : h[n] = Extended(h[n - 1], g[n])
    BY <1>4, <2>1, <2>2, <2>3
  <2>6. QED
    BY <2>4, <2>5 DEF Extended
<1>7. at[len].text = FlattenSeq(g)
  <2>1. h[len] = at[len].text
    BY <1>2
  <2> HIDE DEF h, g, len
  <2>2. h[len] = FlattenSeq(g)
    BY <1>3, <1>6, JoinedStepwise
  <2>3. QED
    BY <2>1, <2>2
<1>8. t = <<>>
  BY DEF IsNone
<1> HIDE DEF g
<1>9. ReplaceEvery(s, t, new) = FlattenSeq(g) \o new
  BY <1>1, <1>7, <1>8
<1>10. QED
  BY <1>8, <1>9 DEF IsReplaced, g, Behind

\* The pieces of a replacement of a string that is not empty: new where the string is
\* replaced, nothing for the rest of what is replaced, and the characters there are.
PieceOf(s, new, K, L, n) ==
  IF n \in K THEN new
  ELSE IF \E k \in K : k < n /\ n < k + L THEN Nothing ELSE Single(s[n])
StartsOf(s, t) == {n \in 1 .. Len(s) : StartsAt(s, t, n)}

\* A step of such a replacement, by how much was to be passed over before it.
LEMMA SkipsAsFound ==
  ASSUME NEW A, NEW s \in Seq(A), NEW t \in Seq(A), NEW new \in Seq(A), IsSome(t),
         NEW v \in Replacements(A), NEW n \in 1 .. Len(s)
  PROVE  Replacing(s, t, new, v, n).skip = IF v.skip > 0 THEN v.skip - 1
                                           ELSE IF n \in StartsOf(s, t) THEN Len(t) - 1 ELSE 0
<1> DEFINE w == Replacing(s, t, new, v, n)
<1>1. /\ v.skip \in Nat
      /\ IsSome(t) /\ ~IsThrough(v) => w.skip = v.skip - 1
      /\ IsSome(t) /\ IsThrough(v) /\ StartsAt(s, t, n) => w.skip = Len(t) - 1
      /\ IsSome(t) /\ IsThrough(v) /\ ~StartsAt(s, t, n) => w.skip = 0
  BY ReplacingIs
<1>2. n \in StartsOf(s, t) <=> StartsAt(s, t, n)
  BY DEF StartsOf
<1>3. IsThrough(v) <=> ~(v.skip > 0)
  BY <1>1 DEF IsThrough
<1> HIDE DEF w
<1>4. w.skip = IF v.skip > 0 THEN v.skip - 1
               ELSE IF n \in StartsOf(s, t) THEN Len(t) - 1 ELSE 0
  BY <1>1, <1>2, <1>3
<1>5. QED
  BY <1>4 DEF w

\* And the text it adds.
LEMMA AddsThePiece ==
  ASSUME NEW A, NEW s \in Seq(A), NEW t \in Seq(A), NEW new \in Seq(A), IsSome(t),
         NEW v \in Replacements(A), NEW n \in 1 .. Len(s), NEW K, NEW L,
         n \in K <=> n \in StartsOf(s, t) /\ v.skip = 0,
         (\E k \in K : k < n /\ n < k + L) <=> v.skip > 0
  PROVE  Replacing(s, t, new, v, n).text = Extended(v.text, PieceOf(s, new, K, L, n))
<1> DEFINE w == Replacing(s, t, new, v, n)
           piece == PieceOf(s, new, K, L, n)
<1>1. /\ v.skip \in Nat
      /\ IsSome(t) /\ ~IsThrough(v) => w.text = Extended(v.text, Nothing)
      /\ IsSome(t) /\ IsThrough(v) /\ StartsAt(s, t, n) => w.text = Extended(v.text, new)
      /\ IsSome(t) /\ IsThrough(v) /\ ~StartsAt(s, t, n) => w.text = Extended(v.text, Single(s[n]))
  BY ReplacingIs
<1>2. n \in StartsOf(s, t) <=> StartsAt(s, t, n)
  BY DEF StartsOf
<1>3. (IsThrough(v) <=> ~(v.skip > 0)) /\ (IsThrough(v) <=> v.skip = 0)
  BY <1>1 DEF IsThrough
<1>4. piece = IF n \in K THEN new ELSE IF v.skip > 0 THEN Nothing ELSE Single(s[n])
  BY DEF PieceOf
<1> HIDE DEF w, piece
<1>5. ASSUME IsThrough(v), StartsAt(s, t, n) PROVE w.text = Extended(v.text, piece)
  BY <1>1, <1>2, <1>3, <1>4, <1>5
<1>6. ASSUME IsThrough(v), ~StartsAt(s, t, n) PROVE w.text = Extended(v.text, piece)
  BY <1>1, <1>2, <1>3, <1>4, <1>6
<1>7. ASSUME ~IsThrough(v) PROVE w.text = Extended(v.text, piece)
  BY <1>1, <1>3, <1>4, <1>7
<1>8. w.text = Extended(v.text, piece)
  BY <1>5, <1>6, <1>7
<1>9. QED
  BY <1>8 DEF w, piece

\* The pieces are strings.
LEMMA PiecesAreStrings ==
  ASSUME NEW A, NEW s \in Seq(A), NEW new \in Seq(A), NEW K, NEW L
  PROVE  LET g == [n \in DOMAIN s |-> PieceOf(s, new, K, L, n)]
         IN  /\ g \in Seq(Seq(A)) /\ Len(g) = Len(s)
             /\ \A n \in 1 .. Len(s) : g[n] = PieceOf(s, new, K, L, n)
<1> DEFINE g == [n \in DOMAIN s |-> PieceOf(s, new, K, L, n)]
           V == Seq(A)
<1>1. DOMAIN s = 1 .. Len(s) /\ \A n \in DOMAIN s : s[n] \in A
  BY LenProperties, ElementOfSeq
<1>2. \A n \in DOMAIN s : Single(s[n]) \in V
  BY <1>1 DEF Single
<1>3. Nothing \in V /\ new \in V
  BY EmptySeq DEF Nothing
<1> HIDE DEF V
<1>4. \A n \in DOMAIN s : PieceOf(s, new, K, L, n) \in V
  BY <1>2, <1>3 DEF PieceOf
<1>5. /\ DOMAIN g = DOMAIN s /\ g = [n \in DOMAIN s |-> g[n]]
      /\ \A n \in DOMAIN s : g[n] = PieceOf(s, new, K, L, n)
  OBVIOUS
<1> HIDE DEF g
<1>6. \A n \in DOMAIN s : g[n] \in V
  BY <1>4, <1>5
<1>7. g \in Seq(V) /\ Len(g) = Len(s)
  BY <1>5, <1>6, MappedSeq
<1>8. QED
  BY <1>1, <1>5, <1>7 DEF g, V

\* A string that is not empty is replaced wherever it is found and nothing before is.
LEMMA SomeIsReplaced ==
  ASSUME NEW A, NEW s \in Seq(A), NEW t \in Seq(A), NEW new \in Seq(A), IsSome(t)
  PROVE  IsReplaced(s, t, new, ReplaceEvery(s, t, new))
<1>1. PICK at : /\ IsReplacing(A, s, t, new, at)
                /\ ReplaceEvery(s, t, new) =
                     at[Len(s)].text \o (IF t = <<>> THEN new ELSE <<>>)
  BY ReplaceEveryIs
<1> DEFINE len == Len(s)
           L == Len(t)
           Starts == StartsOf(s, t)
           skip == [n \in 0 .. len |-> at[n].skip]
           K == {k \in Starts : skip[k - 1] = 0}
           g == [n \in DOMAIN s |-> PieceOf(s, new, K, L, n)]
           h == [n \in 0 .. len |-> at[n].text]
<1>2. /\ len \in Nat /\ DOMAIN s = 1 .. len
      /\ \A n \in 0 .. len : at[n] \in Replacements(A)
      /\ at[0] = [text |-> <<>>, skip |-> 0]
      /\ \A n \in 1 .. len : at[n] = Replacing(s, t, new, at[n - 1], n)
  BY <1>1, LenProperties DEF IsReplacing
<1>3. L \in Nat \ {0}
  BY LenProperties, EmptySeq DEF IsSome
<1>4. Starts \in SUBSET (1 .. len)
  BY DEF StartsOf
<1>5. \A n \in 1 .. len : n \in 0 .. len /\ n - 1 \in 0 .. len /\ n \in 1 .. Len(s)
  BY <1>2
<1>6. IsSkipping(len, L, Starts, skip)
  <2>1. \A n \in 0 .. len : at[n].skip \in Nat
    BY <1>2 DEF Replacements
  <2>2. skip \in [0 .. len -> Nat] /\ \A n \in 0 .. len : skip[n] = at[n].skip
    BY <2>1
  <2>3. 0 \in 0 .. len /\ at[0].skip = 0
    BY <1>2
  <2>4. ASSUME NEW n \in 1 .. len
        PROVE  skip[n] = IF skip[n - 1] > 0 THEN skip[n - 1] - 1
                         ELSE IF n \in Starts THEN L - 1 ELSE 0
    <3> DEFINE v == at[n - 1]
               w == Replacing(s, t, new, v, n)
    <3>1. n \in 1 .. Len(s) /\ v \in Replacements(A) /\ at[n] = w
      BY <1>2, <1>5
    <3>2. skip[n] = at[n].skip /\ skip[n - 1] = v.skip
      BY <1>5, <2>2
    <3> HIDE DEF v, skip, K, g, h
    <3>3. w.skip = IF v.skip > 0 THEN v.skip - 1
                   ELSE IF n \in StartsOf(s, t) THEN Len(t) - 1 ELSE 0
      BY <3>1, SkipsAsFound
    <3> HIDE DEF w
    <3>4. QED
      BY <3>1, <3>2, <3>3
  <2> HIDE DEF skip, K, g, h, Starts, L, len
  <2>5. QED
    BY <2>2, <2>3, <2>4 DEF IsSkipping
<1>7. \A n \in 0 .. len : skip[n] = at[n].skip /\ h[n] = at[n].text
  OBVIOUS
<1>8. g \in Seq(Seq(A)) /\ Len(g) = len /\ \A n \in 1 .. len : g[n] = PieceOf(s, new, K, L, n)
  <2> HIDE DEF K, L
  <2>1. QED
    BY PiecesAreStrings
<1> HIDE DEF Starts, skip, L, g, h
<1>9. \A n \in 1 .. len :
        (\E k \in Starts : skip[k - 1] = 0 /\ k < n /\ n < k + L) <=> skip[n - 1] > 0
  <2> HIDE DEF len
  <2>1. QED
    BY <1>2, <1>3, <1>4, <1>6, SkippedIsCovered
<1>10. \A n \in 1 .. len : /\ (\E k \in K : k < n /\ n < k + L) <=> skip[n - 1] > 0
                           /\ n \in K <=> n \in Starts /\ skip[n - 1] = 0
  BY <1>9
<1>11. K \subseteq 1 .. len
  BY <1>4
<1> HIDE DEF K
<1>12. ASSUME NEW n \in 1 .. len PROVE h[n] = Extended(h[n - 1], g[n])
  <2> DEFINE v == at[n - 1]
             w == Replacing(s, t, new, v, n)
             piece == PieceOf(s, new, K, L, n)
  <2>1. n \in 1 .. Len(s) /\ v \in Replacements(A) /\ at[n] = w
    BY <1>2, <1>5
  <2>2. /\ n \in K <=> n \in StartsOf(s, t) /\ v.skip = 0
        /\ (\E k \in K : k < n /\ n < k + L) <=> v.skip > 0
    BY <1>5, <1>7, <1>10 DEF Starts
  <2> HIDE DEF v
  <2>3. w.text = Extended(v.text, piece)
    BY <2>1, <2>2, AddsThePiece
  <2>4. h[n] = at[n].text /\ h[n - 1] = v.text /\ g[n] = piece
    BY <1>5, <1>7, <1>8 DEF v
  <2> HIDE DEF w, piece
  <2>5. QED
    BY <2>1, <2>3, <2>4
<1>13. at[len].text = FlattenSeq(g)
  <2>1. h[0] = <<>> /\ h[len] = at[len].text
    BY <1>2, <1>7
  <2>2. \A n \in 1 .. len : h[n] = h[n - 1] \o g[n]
    BY <1>12 DEF Extended
  <2> HIDE DEF len
  <2>3. h[len] = FlattenSeq(g)
    BY <1>8, <2>1, <2>2, JoinedStepwise
  <2>4. QED
    BY <2>1, <2>3
<1>14. ReplaceEvery(s, t, new) = FlattenSeq(g)
  <2>1. t # <<>> /\ at[len].text \in Seq(A)
    BY <1>2 DEF IsSome, Replacements
  <2>2. at[len].text \o <<>> = at[len].text
    BY <2>1, ConcatEmptySeq
  <2>3. QED
    BY <1>1, <1>13, <2>1, <2>2
<1>15. ASSUME NEW n \in 1 .. len
       PROVE  n \in K <=> /\ IsPrefix(t, SubSeq(s, n, Len(s)))
                          /\ ~(\E k \in K : k < n /\ n < k + Len(t))
  <2>1. n \in Starts <=> IsPrefix(t, SubSeq(s, n, Len(s)))
    BY DEF Starts, StartsOf, StartsAt
  <2>2. skip[n - 1] \in Nat
    BY <1>2, <1>5, <1>7 DEF Replacements
  <2>3. QED
    BY <1>10, <2>1, <2>2 DEF L
<1>16. g = [n \in DOMAIN s |->
              IF n \in K THEN new
              ELSE IF \E k \in K : k < n /\ n < k + Len(t) THEN <<>> ELSE <<s[n]>>]
  BY DEF g, PieceOf, Nothing, Single, L
<1>17. QED
  BY <1>2, <1>11, <1>14, <1>15, <1>16 DEF IsReplaced, IsSome

\* ReplaceEvery is what replace is said to do.
LEMMA ReplaceIsReplaced ==
  ASSUME NEW A, NEW s \in Seq(A), NEW t \in Seq(A), NEW new \in Seq(A)
  PROVE  IsReplaced(s, t, new, ReplaceEvery(s, t, new))
<1>1. IsNone(t) \/ IsSome(t)
  BY DEF IsNone, IsSome
<1>2. QED
  BY <1>1, NothingIsReplaced, SomeIsReplaced

\* Nothing between strings leaves them as they are.
LEMMA BetweenNothing ==
  ASSUME NEW A, NEW strings \in Seq(Seq(A))
  PROVE  Between(strings, <<>>) = strings
<1> DEFINE V == Seq(A)
           sep == <<>>
           b == Between(strings, sep)
<1>1. \A v \in V : sep \o v = v
  BY ConcatEmptySeq
<1>2. strings \in Seq(V)
  OBVIOUS
<1> HIDE DEF V, sep
<1>3. \A v \in V : sep \o v \in V
  BY <1>1
<1>4. /\ b \in Seq(V) /\ Len(b) = Len(strings)
      /\ \A k \in 1 .. Len(strings) : b[k] = IF k = 1 THEN strings[k] ELSE sep \o strings[k]
  BY <1>2, <1>3, BetweenType
<1>5. \A k \in 1 .. Len(strings) : strings[k] \in V
  BY <1>2, ElementOfSeq
<1> HIDE DEF b
<1>6. \A k \in 1 .. Len(strings) : b[k] = strings[k]
  BY <1>1, <1>4, <1>5
<1>7. b = strings
  BY <1>2, <1>4, <1>6, SeqEqual
<1>8. QED
  BY <1>7 DEF b, sep

\* What the groups of a pattern match is joined, if there are groups.
LEMMA GroupsAreJoined ==
  ASSUME NEW A, NEW arr \in Seq(Seq(A))
  PROVE  IsJoined(IF arr = <<>> THEN <<>> ELSE Tail(arr), <<>>,
                  IF Len(arr) > 1 THEN FlattenSeq(Tail(arr)) ELSE <<>>)
<1> DEFINE V == Seq(A)
           groups == Tail(arr)
           sep == <<>>
<1>1. IsJoined(<<>>, <<>>, <<>>)
  BY DEF IsJoined
<1>2. arr \in Seq(V)
  OBVIOUS
<1>3. ASSUME arr # <<>> PROVE groups \in Seq(V) /\ Len(groups) = Len(arr) - 1 /\ Len(arr) \in Nat
  <2> HIDE DEF V
  <2>1. QED
    BY <1>2, <1>3, HeadTailProperties, LenProperties
<1>4. ASSUME arr # <<>>, ~(Len(arr) > 1) PROVE groups = <<>>
  <2>1. Len(arr) # 0
    BY <1>2, <1>4, EmptySeq
  <2>2. groups \in Seq(V) /\ Len(groups) = Len(arr) - 1 /\ Len(arr) \in Nat
    BY <1>3, <1>4
  <2> HIDE DEF groups, V
  <2>3. Len(groups) = 0
    BY <1>4, <2>1, <2>2
  <2>4. QED
    BY <2>2, <2>3, EmptySeq
<1>5. ASSUME arr # <<>>, Len(arr) > 1 PROVE IsJoined(groups, sep, FlattenSeq(groups))
  <2>1. groups \in Seq(Seq(A))
    BY <1>3, <1>5
  <2>2. sep \in Seq(A)
    BY EmptySeq
  <2> HIDE DEF groups
  <2>3. Between(groups, sep) = groups
    BY <2>1, BetweenNothing
  <2> HIDE DEF sep
  <2>4. IsJoined(groups, sep, FlattenSeq(Between(groups, sep)))
    BY <2>1, <2>2, JoinIsJoined
  <2>5. QED
    BY <2>3, <2>4
<1>6. arr = <<>> => ~(Len(arr) > 1)
  BY EmptySeq
<1> HIDE DEF groups
<1>7. CASE arr = <<>>
  BY <1>1, <1>6, <1>7
<1>8. CASE arr # <<>> /\ Len(arr) > 1
  BY <1>5, <1>8 DEF groups
<1>9. CASE arr # <<>> /\ ~(Len(arr) > 1)
  BY <1>1, <1>4, <1>9 DEF groups
<1>10. QED
  BY <1>7, <1>8, <1>9

\* A safe string has no control character to filter out.
LEMMA NothingToUnescape ==
  ASSUME NEW s \in Seq(Safe)
  PROVE  /\ IsFilterOf(s, Strings \ {"esc"}, Without(s, {"esc"}))
         /\ Without(s, {"esc"}) = s
<1> DEFINE C == Strings \ {"esc"}
<1>1. s \in Seq(Strings)
  BY SeqOfLarger DEF Safe
<1>2. Strings \ C = {"esc"} /\ C \subseteq Strings
  BY StringAssumption
<1>3. \A i \in DOMAIN s : s[i] \notin {"esc"}
  BY ElementOfSeq, LenProperties DEF Safe
<1>4. Without(s, {"esc"}) = s
  BY <1>3, WithoutNone
<1> HIDE DEF C
<1>5. IsFilterOf(s, C, Without(s, Strings \ C))
  BY <1>1, <1>2, WithoutIsFilter
<1>6. QED
  BY <1>2, <1>4, <1>5 DEF C

\* An expression with an operator.
IsOperation(e) == e.op # ""

\* The values v are those an operator takes.
HasArguments(op, v) ==
  op \in DOMAIN cfgOpMap /\ (NumExps(op) # 10 => Len(v) = NumExps(op))

\* The value of an element whose expression is an operation is that of the operator
\* on its operands, all of them.
LEMMA OperationIsApplied ==
  ASSUME CapturesAreParts, ConfigInv, IsValue, IsOperation(exp)
  PROVE  /\ Operands \in Seq(SafeText) /\ Len(Operands) = Len(exp.exps)
         /\ HasArguments(exp.op, Operands)
         /\ result.value = Apply(exp.op, Operands)
<1>1. /\ elem \in Attributes /\ rec \in Records /\ result = EvalElem(elem, rec)
      /\ validateProfileElem(elem) = "accepted"
      /\ pc = "done" /\ ~result.panic /\ elem # NoAttribute /\ elem.validate = <<>>
  BY DoneHasElem DEF IsValue
<1>2. ~evalExp[exp][rec].panic /\ result.value = evalExp[exp][rec].value
  BY <1>1, EvalElemType DEF exp
<1>3. exp \in Expressions /\ validateProfileExp[exp] = "accepted"
  BY <1>1, ElemVerdict DEF exp, Attributes
<1> DEFINE outcomes == OutcomesAt(exp, rec)
           a == Arguments(exp, outcomes)
<1>4. /\ evalExp[exp][rec] = Outcome(exp, rec, outcomes)
      /\ outcomes \in Seq(Outcomes) /\ Len(outcomes) = Len(exp.exps)
  BY <1>1, <1>3, evalExpIs
<1>5. exp # Nil
  <2>1. Nil.op = ""
    BY DEF Nil, Source
  <2>2. QED
    BY <2>1, Zenon DEF IsOperation
<1>6. Check(exp) = "accepted"
  BY <1>3, <1>5, validateProfileExpIs DEF Verdict
<1>7. ~HasSource(exp) /\ exp.op \in DOMAIN cfgOpMap /\ Counted(exp)
  <2>1. /\ ~(HasSource(exp) <=> exp.op # "")
        /\ exp.op \in DOMAIN cfgOpMap \cup {""}
        /\ exp.op # "" => Counted(exp)
    BY <1>3, <1>6, CheckIs
  <2>2. exp.op # ""
    BY Zenon DEF IsOperation
  <2>3. QED
    BY <2>1, <2>2, Zenon
<1>8. Arity(exp) = Len(exp.exps) /\ Arity(exp) \in Nat
  BY <1>3, <1>7, CountedHasArity, ArityIs
<1>9. a \in Seq(SafeText) /\ Len(a) = Len(exp.exps)
  <2> HIDE DEF outcomes
  <2>1. Arity(exp) <= Len(outcomes)
    BY <1>4, <1>8
  <2>2. QED
    BY <1>3, <1>4, <1>8, <2>1, ArgumentsType
<1>10. a = Operands
  <2>1. DOMAIN exp.exps = 1 .. Len(exp.exps)
    BY <1>3, ExpressionAssumption, LenProperties
  <2>2. \A k \in DOMAIN exp.exps : outcomes[k].value = evalExp[exp.exps[k]][rec].value
    BY DEF OutcomesAt
  <2> HIDE DEF outcomes
  <2>3. QED
    BY <1>8, <2>1, <2>2 DEF Arguments, Operands
<1>11. result.value = Apply(exp.op, a)
  <2> DEFINE Fails == \/ Arity(exp) > Len(outcomes)
                      \/ \E k \in 1 .. Arity(exp) : outcomes[k].panic
  <2> HIDE DEF outcomes
  <2>1. Outcome(exp, rec, outcomes) =
          IF Fails THEN Panic ELSE Returns(outcomes[1].id, Apply(exp.op, a))
    BY <1>5, <1>7 DEF Outcome, Arguments
  <2> HIDE DEF Fails, a
  <2>2. Panic.panic
    BY DEF Panic
  <2>3. ~Fails
    BY <1>2, <1>4, <2>1, <2>2, Zenon
  <2>4. Outcome(exp, rec, outcomes) = Returns(outcomes[1].id, Apply(exp.op, a))
    BY <2>1, <2>3, Zenon
  <2>5. Outcome(exp, rec, outcomes).value = Apply(exp.op, a)
    BY <2>4 DEF Returns
  <2>6. QED
    BY <1>2, <1>4, <2>5, Zenon
<1>12. NumExps(exp.op) # 10 => Len(exp.exps) = NumExps(exp.op)
  BY <1>3, <1>7, CountedHasArity
<1> HIDE DEF a
<1>13. QED
  BY <1>7, <1>9, <1>10, <1>11, <1>12 DEF HasArguments

\* The values an operator looks at are strings.
LEMMA ArgumentsAre ==
  ASSUME NEW op, NEW v \in Seq(SafeText), HasArguments(op, v)
  PROVE  /\ op \notin {"and", "or"} => v[1] \in Seq(Safe) /\ v[1] \in Seq(Strings)
         /\ op \in {"rmprefix", "rmsuffix", "rmtail", "regexp", "replace"} =>
              v[2] \in Seq(Safe) /\ v[2] \in Seq(Strings)
         /\ op = "replace" => v[3] \in Seq(Safe) /\ v[3] \in Seq(Strings)
<1>1. \A k \in 1 .. Len(v) : v[k] \in Seq(Safe) /\ v[k] \in Seq(Strings)
  BY ElementOfSeq, SeqOfLarger DEF SafeText, Safe
<1> DEFINE n == NumExps(op)
<1>2. /\ op \in {"alphanum", "lc", "unescape"} => n = 1
      /\ op \in {"rmprefix", "rmsuffix", "rmtail", "regexp"} => n = 2
      /\ op = "replace" => n = 3
      /\ op \in DOMAIN cfgOpMap <=>
           op \in {"alphanum", "lc", "unescape", "rmprefix", "rmsuffix", "rmtail",
                   "regexp", "replace", "and", "or"}
  BY NumExpsIs
<1>3. op \in DOMAIN cfgOpMap /\ n \in Nat /\ (n # 10 => Len(v) = n)
  BY NumExpsIs DEF HasArguments
<1> HIDE DEF n
<1>4. (n = 1 => Len(v) = 1) /\ (n = 2 => Len(v) = 2) /\ (n = 3 => Len(v) = 3)
  <2>1. n \in Nat /\ (n # 10 => Len(v) = n)
    BY <1>3
  <2>2. n \in {1, 2, 3} => n # 10
    BY <2>1
  <2>3. QED
    BY <2>1, <2>2
<1>5. /\ op \in {"alphanum", "lc", "unescape"} => Len(v) = 1
      /\ op \in {"rmprefix", "rmsuffix", "rmtail", "regexp"} => Len(v) = 2
      /\ op = "replace" => Len(v) = 3
  BY <1>2, <1>4, Zenon
<1>6. op \in {"alphanum", "lc", "unescape", "rmprefix", "rmsuffix", "rmtail",
              "regexp", "replace", "and", "or"}
  BY <1>2, <1>3
<1>7. QED
  BY <1>1, <1>5, <1>6

\* What an operator makes of its values is what is documented, operator by operator.
LEMMA ApplyIsDocumented ==
  ASSUME CapturesAreParts, NEW op, NEW v \in Seq(SafeText), HasArguments(op, v)
  PROVE  Documented(op, v, Apply(op, v))
<1> DEFINE r == Apply(op, v)
<1>1. /\ op \notin {"and", "or"} => v[1] \in Seq(Safe) /\ v[1] \in Seq(Strings)
      /\ op \in {"rmprefix", "rmsuffix", "rmtail", "regexp", "replace"} =>
           v[2] \in Seq(Safe) /\ v[2] \in Seq(Strings)
      /\ op = "replace" => v[3] \in Seq(Safe) /\ v[3] \in Seq(Strings)
  BY ArgumentsAre
<1>2. CASE op = "rmprefix"
  <2>1. r = IF IsPrefix(v[2], v[1]) THEN SubSeq(v[1], Len(v[2]) + 1, Len(v[1])) ELSE v[1]
    BY <1>2 DEF Apply
  <2>2. IsPrefix(v[2], v[1]) => v[1] = v[2] \o SubSeq(v[1], Len(v[2]) + 1, Len(v[1]))
    BY <1>1, <1>2, PrefixRemoved
  <2> HIDE DEF r
  <2>3. IF IsPrefix(v[2], v[1]) THEN v[1] = v[2] \o r ELSE r = v[1]
    BY <2>1, <2>2
  <2>4. Documented(op, v, r)
    BY <1>2, <2>3 DEF Documented
  <2>5. QED
    BY <2>4 DEF r
<1>3. CASE op = "rmsuffix"
  <2>1. r = IF IsSuffix(v[2], v[1]) THEN SubSeq(v[1], 1, Len(v[1]) - Len(v[2])) ELSE v[1]
    BY <1>3 DEF Apply
  <2>2. IsSuffix(v[2], v[1]) => v[1] = SubSeq(v[1], 1, Len(v[1]) - Len(v[2])) \o v[2]
    BY <1>1, <1>3, SuffixRemoved
  <2> HIDE DEF r
  <2>3. IF IsSuffix(v[2], v[1]) THEN v[1] = r \o v[2] ELSE r = v[1]
    BY <2>1, <2>2
  <2>4. Documented(op, v, r)
    BY <1>3, <2>3 DEF Documented
  <2>5. QED
    BY <2>4 DEF r
<1>4. CASE op = "rmtail"
  <2>1. r = LET i == LastIndex(v[1], v[2])
            IN  IF i > -1 THEN SubSeq(v[1], 1, i) ELSE v[1]
    BY <1>4 DEF Apply
  <2> HIDE DEF r
  <2>2. IsTailRemoved(v[1], v[2], r)
    BY <1>1, <1>4, <2>1, TailRemoved
  <2>3. Documented(op, v, r)
    BY <1>4, <2>2 DEF Documented
  <2>4. QED
    BY <2>3 DEF r
<1>5. CASE op = "alphanum"
  <2>1. r = Without(v[1], Strings \ AlphaNum)
    BY <1>5 DEF Apply
  <2>2. AlphaNum \subseteq Strings
    BY CharacterAssumption
  <2> HIDE DEF r
  <2>3. IsFilterOf(v[1], AlphaNum, r)
    BY <1>1, <1>5, <2>1, <2>2, WithoutIsFilter
  <2>4. Documented(op, v, r)
    BY <1>5, <2>3 DEF Documented
  <2>5. QED
    BY <2>4 DEF r
<1>6. CASE op = "lc"
  <2>1. r = [k \in DOMAIN v[1] |-> ToLower(v[1][k])]
    BY <1>6 DEF Apply
  <2> HIDE DEF r
  <2>2. IsLowerCaseOf(v[1], r)
    BY <1>1, <1>6, <2>1, LowerIsLower
  <2>3. Documented(op, v, r)
    BY <1>6, <2>2 DEF Documented
  <2>4. QED
    BY <2>3 DEF r
<1>7. CASE op = "unescape"
  <2>1. r = Without(v[1], {"esc"})
    BY <1>7 DEF Apply
  <2> HIDE DEF r
  <2>2. IsFilterOf(v[1], Strings \ {"esc"}, r) /\ r = v[1]
    BY <1>1, <1>7, <2>1, NothingToUnescape
  <2>3. Documented(op, v, r)
    BY <1>7, <2>2 DEF Documented
  <2>4. QED
    BY <2>3 DEF r
<1>8. CASE op = "regexp"
  <2> DEFINE arr == FindStringSubmatch(v[2], v[1])
             X == {v[1][i] : i \in DOMAIN v[1]}
             groups == IF arr = <<>> THEN <<>> ELSE Tail(arr)
             joined == IF Len(arr) > 1 THEN FlattenSeq(Tail(arr)) ELSE <<>>
  <2>1. r = IF ~Compiles(v[2]) THEN v[1] ELSE joined
    BY <1>8 DEF Apply
  <2>2. arr \in Seq(Seq(X))
    BY <1>1, <1>8 DEF CapturesAreParts
  <2> HIDE DEF r, arr, X
  <2>3. IsJoined(groups, <<>>, joined)
    BY <2>2, GroupsAreJoined
  <2> HIDE DEF groups, joined
  <2>4. IF ~Compiles(v[2]) THEN r = v[1] ELSE IsJoined(groups, <<>>, r)
    BY <2>1, <2>3
  <2>5. Documented(op, v, r)
    BY <1>8, <2>4 DEF Documented, groups, arr
  <2>6. QED
    BY <2>5 DEF r
<1>9. CASE op = "and"
  <2> DEFINE blank == " "
             space == <<blank>>
  <2>1. r = FlattenSeq(Between(v, space))
    BY <1>9 DEF Apply, Between
  <2>2. space \in Seq(Safe) /\ v \in Seq(Seq(Safe))
    <3>1. blank \in Safe
      BY StringAssumption DEF Safe
    <3> HIDE DEF blank
    <3>2. space \in Seq(Safe)
      BY <3>1
    <3> HIDE DEF space
    <3>3. QED
      BY <3>2 DEF SafeText
  <2> HIDE DEF r, space
  <2>3. IsJoined(v, space, r)
    BY <2>1, <2>2, JoinIsJoined
  <2>4. Documented(op, v, r)
    BY <1>9, <2>3 DEF Documented, space, blank
  <2>5. QED
    BY <2>4 DEF r
<1>10. CASE op = "or"
  <2>1. r = FirstOther(v, <<>>)
    BY <1>10 DEF Apply
  <2> HIDE DEF r
  <2>2. \/ r = <<>> /\ \A k \in DOMAIN v : v[k] = <<>>
        \/ \E k \in DOMAIN v : /\ r = v[k] /\ v[k] # <<>>
                               /\ \A j \in 1 .. k - 1 : v[j] = <<>>
    BY <2>1, FirstOtherIs
  <2>3. IsFirstNonEmpty(v, r)
    BY <2>2 DEF IsFirstNonEmpty
  <2>4. Documented(op, v, r)
    BY <1>10, <2>3 DEF Documented
  <2>5. QED
    BY <2>4 DEF r
<1>11. CASE op = "replace"
  <2>1. r = ReplaceEvery(v[1], v[2], v[3])
    BY <1>11 DEF Apply
  <2> HIDE DEF r
  <2>2. IsReplaced(v[1], v[2], v[3], r)
    BY <1>1, <1>11, <2>1, ReplaceIsReplaced
  <2>3. Documented(op, v, r)
    BY <1>11, <2>2 DEF Documented
  <2>4. QED
    BY <2>3 DEF r
<1>12. op \in {"alphanum", "lc", "unescape", "rmprefix", "rmsuffix", "rmtail",
               "regexp", "replace", "and", "or"}
  BY NumExpsIs DEF HasArguments
<1> HIDE DEF r
<1>13. QED
  BY <1>2, <1>3, <1>4, <1>5, <1>6, <1>7, <1>8, <1>9, <1>10, <1>11, <1>12

\* Every operator makes of the values of its expressions what its reference definition
\* says, the nine of README.md:56-64 and replace, whatever those values are and however
\* deep the expressions are nested (match_profile.go:296-353).  The premise is about
\* the regular expressions alone: what they capture are characters of the string.
THEOREM OperatorsHold ==
  ASSUME CapturesAreParts
  PROVE  Spec => []OperatorsAsDocumented
<1>1. ConfigInv => OperatorsAsDocumented
  <2> SUFFICES ASSUME ConfigInv, IsValue, IsOperation(exp)
               PROVE  Documented(exp.op, Operands, result.value)
    BY Zenon DEF OperatorsAsDocumented, IsOperation
  <2>1. /\ Operands \in Seq(SafeText)
        /\ HasArguments(exp.op, Operands)
        /\ result.value = Apply(exp.op, Operands)
    BY OperationIsApplied
  <2>2. Documented(exp.op, Operands, Apply(exp.op, Operands))
    BY <2>1, ApplyIsDocumented
  <2>3. QED
    BY <2>1, <2>2
<1>2. QED
  BY <1>1, ConfigInvariant, PTL
============================================================================
