------------------------- MODULE ConfigExpression --------------------------
(***************************************************************************)
(* The profiles of a configuration: Config.Validate of config.go, which    *)
(* checks them when the configuration is read, and EvalElem, evalExp and   *)
(* evalMap of match_profile.go, which evaluate an element of a profile on  *)
(* every log record and rely on what was checked.                          *)
(*                                                                         *)
(* A string is a sequence of characters, "nl" for the newline, "esc" for a *)
(* control character and "uni" for one outside ASCII.  The key of a map is *)
(* the sequence of its parts between dots, so is the path of a source.     *)
(* Regular expressions and what unicode says of a character are external:  *)
(* Compiles, FindStringSubmatch and Matches, AlphaNum and ToLower.         *)
(***************************************************************************)
EXTENDS Integers, FiniteSets, Subsequences

CONSTANTS Strings,          \* characters, parts of keys, and names
          Configs,          \* the configurations: [profiles, size, maxSize]
          Records,          \* the records to evaluate them on: [attr, rattr, body]
          Expressions,      \* the expressions in them, with all of their parts
          Depth(_),         \* how deep the operations in an expression are nested
          Values,           \* the values in the records, with all of their parts
          AlphaNum,         \* the letters and the digits among the characters
          ToLower(_),       \* a character in lower case
          Compiles(_),      \* the pattern is a regular expression
          FindStringSubmatch(_, _),
                            \* (pattern, s): what it matches of s and then what each of
                            \* its groups does, or nothing
          Matches(_, _)     \* (pattern, s): it matches s

VARIABLES config, rec,  \* the configuration and the record
          pc,           \* "read", then the verdict of Validate, then "done"
          elem,         \* the element that was evaluated
          result        \* what EvalElem returned, or Panic

vars == <<config, rec, pc, elem, result>>

\* ConfigExpression.  A source has what is before its first colon, whether there
\* is one, and the key path behind it.
Source(source, colon, path) ==
  [source |-> source, colon |-> colon, path |-> path, op |-> "", exps |-> <<>>]
Operation(op, exps) ==
  [source |-> "", colon |-> FALSE, path |-> <<>>, op |-> op, exps |-> exps]
HasSource(e) == e.source # "" \/ e.colon
\* An empty item of a list in YAML is a nil pointer.
Nil == Source("nil", FALSE, <<>>)

\* ConfigAttribute, an element of a profile; <<>> for no rename, no validate.
Attribute(exp, rename, validate) ==
  [exp |-> exp, rename |-> rename, validate |-> validate]
NoAttribute == Attribute(Nil, <<"nil">>, <<>>)

\* The strings the code itself writes or joins.
ASSUME StringAssumption ==
  {"", "nil", " ", "nl", "esc", "uni", "{", "json", "}", "\\", "0", "3", "n"} \subseteq Strings

\* The digits and the letter of an escape are letters or digits, a word of JSON has some,
\* and what separates is none; lower case changes no character for what is filtered.
ASSUME CharacterAssumption ==
  /\ {"0", "3", "n", "json"} \subseteq AlphaNum
  /\ AlphaNum \subseteq Strings \ {"", " ", "nl", "esc", "{", "}", "\\"}
  /\ \A c \in Strings : ToLower(c) \in Strings /\ ToLower(ToLower(c)) = ToLower(c)
  /\ \A c \in Strings \ {"nl", "esc", "uni"} : ToLower(c) \notin {"nl", "esc", "uni"}

\* What a configuration is read from is a tree: no operation is among its own parts.
ASSUME ExpressionAssumption ==
  /\ Nil \in Expressions
  /\ Expressions \subseteq [source : Strings, colon : BOOLEAN, path : Seq(Strings),
                            op : Strings, exps : Seq(Expressions)]
  /\ \A e \in Expressions : /\ Depth(e) \in Nat
                            /\ \A k \in DOMAIN e.exps : Depth(e.exps[k]) < Depth(e)

Attributes == [exp : Expressions, rename : Seq(Strings), validate : Seq(Strings)]
Profiles == [service_group : Attributes, host : Attributes, logbasename : Attributes,
             severity : Attributes, message : Attributes, labels : Seq(Attributes),
             format : Strings]
ASSUME ConfigAssumption ==
  Configs \subseteq [profiles : Seq(Profiles), size : Nat, maxSize : Nat]

\* A value is a string, a slice of values, or a map from keys to values; a string
\* may be the text of a JSON object.
IsMap(m) == m \in [DOMAIN m -> Values] /\ DOMAIN m \subseteq Seq(Strings)
ASSUME ValueAssumption ==
  \A v \in Values : \/ v.kind = "string" /\ v.string \in Seq(Strings)
                    \/ v.kind = "slice" /\ v.items \in Seq(Values)
                    \/ v.kind \in {"map", "json"} /\ IsMap(v.map)
ASSUME RecordAssumption ==
  \A r \in Records : IsMap(r.attr) /\ IsMap(r.rattr) /\ r.body \in Values

\* The outcome of evalExp: an id and a string, or a panic of the collector.
Returns(id, s) == [panic |-> FALSE, id |-> id, value |-> s]
Panic == [panic |-> TRUE, id |-> <<>>, value |-> <<>>]
----------------------------------------------------------------------------
(* Config.Validate                                                         *)

\* The number of expressions an operator takes; 10 (CMaxNumExps): two or more.
cfgOpMap == [op \in {"alphanum", "lc", "unescape", "rmprefix", "rmsuffix", "rmtail",
                      "regexp", "replace", "and", "or"} |->
               CASE op \in {"alphanum", "lc", "unescape"} -> 1
                 [] op \in {"and", "or"}                  -> 10
                 [] op = "replace"                        -> 3
                 [] OTHER                                 -> 2]
NumExps(op) == IF op \in DOMAIN cfgOpMap THEN cfgOpMap[op] ELSE 0

cfgSourceMap == {"rattr", "attr", "body", "lit"}

Variadic(op) == NumExps(op) = 10

\* The first of s that is not x, or x if there is none.
FirstOther(s, x) ==
  LET others == {k \in DOMAIN s : s[k] # x}
  IN  IF others = {} THEN x ELSE s[CHOOSE k \in others : \A j \in others : k <= j]

\* The first check that does not accept decides.
FirstRefusal(verdicts) == FirstOther(verdicts, "accepted")

\* As it would be if only too many expressions were refused.
CountedAtMost(e) == Len(e.exps) <= NumExps(e.op)

Counted(e) == IF Variadic(e.op) THEN Len(e.exps) >= 2 ELSE Len(e.exps) = NumExps(e.op)

\* The literal pattern of a regexp is compiled: the source's text from after "lit:".
\* A pattern that is not there or nil, and a source that is just "lit", crash.
CheckPattern(exps) ==
  IF Len(exps) < 2 THEN "panic"
  ELSE LET pattern == exps[2]
       IN  IF pattern = Nil \/ (pattern.source = "lit" /\ ~pattern.colon) THEN "panic"
           ELSE IF pattern.source = "lit" /\ ~Compiles(pattern.path) THEN "rejected"
           ELSE "accepted"

\* What the validation of e alone finds, before that of its subexpressions.
Check(e) ==
  IF \/ HasSource(e) = (e.op # "")
     \/ e.source \notin cfgSourceMap \cup {""}
     \/ e.op \notin DOMAIN cfgOpMap \cup {""}
     \/ e.op # "" /\ ~Counted(e)
  THEN "rejected"
  ELSE IF e.op = "regexp" THEN CheckPattern(e.exps) ELSE "accepted"

\* verdicts: those of the subexpressions.
Verdict(e, verdicts) == IF e = Nil THEN "accepted"
                        ELSE IF Check(e) # "accepted" THEN Check(e)
                        ELSE FirstRefusal(verdicts)

validateProfileExp[e \in Expressions] ==
  Verdict(e, [k \in DOMAIN e.exps |-> validateProfileExp[e.exps[k]]])

validateProfileElem(a) ==
  IF a = NoAttribute THEN "accepted"
  ELSE FirstRefusal(<<validateProfileExp[a.exp],
         IF a.validate = <<>> \/ Compiles(a.validate) THEN "accepted" ELSE "rejected">>)

cfgFormatMap == {"message", "container", "event"}

ElementNames == <<"service_group", "host", "logbasename", "severity", "message">>
Elements(p) == {p[ElementNames[n]] : n \in 1..5} \cup ToSet(p.labels)

\* As it would be without the loop over the labels.
LabelsUnchecked(p) == <<>>

LabelVerdicts(p) == [k \in DOMAIN p.labels |-> validateProfileElem(p.labels[k])]

ValidateProfile(p) ==
  FirstRefusal([n \in 1..5 |-> validateProfileElem(p[ElementNames[n]])]
               \o <<IF p.format \in cfgFormatMap \cup {""} THEN "accepted" ELSE "rejected">>
               \o LabelVerdicts(p))

Validate(c) ==
  FirstRefusal([n \in DOMAIN c.profiles |-> ValidateProfile(c.profiles[n])]
               \o <<IF c.maxSize > 0 /\ c.maxSize < c.size THEN "rejected" ELSE "accepted">>)
----------------------------------------------------------------------------
(* evalMap                                                                 *)

\* path + "." + key, where nothing joined to nothing is nothing.
JoinPath(path, key) == IF path # <<>> THEN Append(path, key)
                       ELSE IF key = "" THEN <<>> ELSE <<key>>

\* What cannot be printed is left out, newlines become spaces.
Printable(s) ==
  Without([k \in DOMAIN s |-> IF s[k] = "nl" THEN " " ELSE s[k]], {"esc"})

\* The text of a map or a slice: its JSON, abstracted to a word in brackets.
AsString(val) == IF val.kind = "string" THEN val.string ELSE <<"{", "json", "}">>

\* The items of a slice, with a space before each that is not the first text.
Joined(items) ==
  FlattenSeq([k \in DOMAIN items |->
                (IF \E j \in 1 .. k - 1 : AsString(items[j]) # <<>> THEN <<" ">> ELSE <<>>)
                \o AsString(items[k])])

evalValue(val) ==
  Printable(IF val.kind = "slice" THEN Joined(val.items) ELSE AsString(val))

\* The loop over the parts of the key path: the path since the last map, the map
\* to look it up in, what was found last, and whether the search has ended.
Invalid == [kind |-> "invalid"]
Searching(in) == [ended |-> FALSE, path |-> <<>>, in |-> in, val |-> Invalid]

\* As it would be if the path went on inside a map.
LookupKeepsPath(at, key) ==
  LET next == JoinPath(at.path, key)
  IN  IF at.ended THEN at
      ELSE IF next \notin DOMAIN at.in THEN [at EXCEPT !.path = next, !.val = Invalid]
      ELSE IF at.in[next].kind = "map"
      THEN [at EXCEPT !.path = next, !.in = at.in[next].map, !.val = at.in[next]]
      ELSE [at EXCEPT !.ended = TRUE, !.val = at.in[next]]

\* The first key that is there is taken: a map in it is entered and the path started
\* anew, any other value ends the search, whatever parts are left.
Lookup(at, key) ==
  LET next == JoinPath(at.path, key)
  IN  IF at.ended THEN at
      ELSE IF next \notin DOMAIN at.in THEN [at EXCEPT !.path = next, !.val = Invalid]
      ELSE IF at.in[next].kind = "map"
      THEN [at EXCEPT !.path = <<>>, !.in = at.in[next].map, !.val = at.in[next]]
      ELSE [at EXCEPT !.ended = TRUE, !.val = at.in[next]]

\* strings.Split of an empty key path is one empty part.
Parts(path) == IF path = <<>> THEN <<"">> ELSE path

Search(parts, in) ==
  LET at[n \in 0 .. Len(parts)] ==
        IF n = 0 THEN Searching(in) ELSE Lookup(at[n - 1], parts[n])
  IN  at[Len(parts)]

\* When the parts end with an empty path, the value is the map entered last, or the
\* invalid value if no key was looked up: its AsString panics.
evalMap(path, in) ==
  LET found == Search(Parts(path), in)
  IN  CASE found.ended                      -> Returns(<<>>, evalValue(found.val))
        [] ~found.ended /\ found.path # <<>> -> Returns(<<>>, <<>>)
        [] OTHER -> IF found.val = Invalid THEN Panic ELSE Returns(<<>>, AsString(found.val))
----------------------------------------------------------------------------
(* evalExp                                                                 *)

\* FilterASCII: a control character becomes its escape.
FilterASCII(s) ==
  FlattenSeq([k \in DOMAIN s |-> CASE s[k] = "uni" -> <<>>
                                   [] s[k] = "esc" -> <<"\\", "0", "3", "3">>
                                   [] s[k] = "nl"  -> <<"\\", "n">>
                                   [] OTHER        -> <<s[k]>>])

\* As it would be if the value were returned as it is.
NamedUnfiltered(id, r) == IF r.panic THEN Panic ELSE Returns(id, r.value)

Named(id, r) == IF r.panic THEN Panic ELSE Returns(id, FilterASCII(r.value))

\* The body is a map, a string that may be a JSON object, or another value.  A
\* path into a string that is no object gives nothing, an id neither; into any
\* other value that is no map, the value itself.
evalBody(e, body) ==
  CASE e.path # <<>> /\ body.kind \in {"map", "json"} -> Named(e.path, evalMap(e.path, body.map))
    [] e.path # <<>> /\ body.kind = "string"          -> Returns(<<>>, <<>>)
    [] OTHER                                          -> Named(e.path, Returns(<<>>, evalValue(body)))

evalSource(e, r) ==
  CASE e.source = "lit"   -> Named(e.path, Returns(<<>>, e.path))
    [] e.source = "rattr" -> Named(e.path, evalMap(e.path, r.rattr))
    [] e.source = "attr"  -> Named(e.path, evalMap(e.path, r.attr))
    [] e.source = "body"  -> evalBody(e, r.body)
    [] OTHER              -> Named(e.path, Returns(<<>>, <<>>))

\* The operators, on the values of their expressions.
\* As it would be with Index in the place of LastIndex.
FirstIndex(s, t) ==
  LET at == {k \in 0 .. Len(s) - Len(t) : SubSeq(s, k + 1, k + Len(t)) = t}
  IN  IF at = {} THEN -1 ELSE CHOOSE k \in at : \A j \in at : k <= j

LastIndex(s, t) ==
  LET at == {k \in 0 .. Len(s) - Len(t) : SubSeq(s, k + 1, k + Len(t)) = t}
  IN  IF at = {} THEN -1 ELSE CHOOSE k \in at : \A j \in at : j <= k

\* strings.Replace of every t in s, from the left; an empty t is found before
\* every character and at the end.  skip counts the characters of a t found before.
Replacing(s, t, new, at, n) ==
  CASE at.skip > 0 -> [at EXCEPT !.skip = at.skip - 1]
    [] at.skip = 0 /\ t = <<>> -> [at EXCEPT !.text = at.text \o new \o <<s[n]>>]
    [] at.skip = 0 /\ t # <<>> /\ IsPrefix(t, SubSeq(s, n, Len(s))) ->
         [text |-> at.text \o new, skip |-> Len(t) - 1]
    [] OTHER -> [at EXCEPT !.text = Append(at.text, s[n])]

ReplaceEvery(s, t, new) ==
  LET at[n \in 0 .. Len(s)] == IF n = 0 THEN [text |-> <<>>, skip |-> 0]
                               ELSE Replacing(s, t, new, at[n - 1], n)
  IN  at[Len(s)].text \o (IF t = <<>> THEN new ELSE <<>>)

Apply(op, a) ==
  CASE op = "rmprefix" -> IF IsPrefix(a[2], a[1])
                          THEN SubSeq(a[1], Len(a[2]) + 1, Len(a[1])) ELSE a[1]
    [] op = "rmsuffix" -> IF IsSuffix(a[2], a[1])
                          THEN SubSeq(a[1], 1, Len(a[1]) - Len(a[2])) ELSE a[1]
    [] op = "rmtail"   -> LET i == LastIndex(a[1], a[2])
                          IN  IF i > -1 THEN SubSeq(a[1], 1, i) ELSE a[1]
    [] op = "alphanum" -> Without(a[1], Strings \ AlphaNum)
    [] op = "lc"       -> [k \in DOMAIN a[1] |-> ToLower(a[1][k])]
    [] op = "unescape" -> Without(a[1], {"esc"})
    [] op = "replace"  -> ReplaceEvery(a[1], a[2], a[3])
    [] op = "regexp"   -> IF ~Compiles(a[2]) THEN a[1]
                          ELSE LET arr == FindStringSubmatch(a[2], a[1])
                               IN  IF Len(arr) > 1 THEN FlattenSeq(Tail(arr)) ELSE <<>>
    [] op = "and"      -> FlattenSeq([k \in DOMAIN a |-> IF k = 1 THEN a[k] ELSE <<" ">> \o a[k]])
    [] op = "or"       -> FirstOther(a, <<>>)
    [] OTHER           -> a[1]

\* The number of expressions evaluated: all of them for `and' and `or', and for
\* the others one, two or, by replace, three, whether they are there or not.
Arity(e) == CASE Variadic(e.op) /\ Len(e.exps) >= 2 -> Len(e.exps)
              [] e.op = "replace"                   -> 3
              [] OTHER                              -> IF NumExps(e.op) > 1 THEN 2 ELSE 1

\* outcomes: those of the subexpressions.  The id is that of the first.
Outcome(e, r, outcomes) ==
  CASE e = Nil                 -> Returns(<<>>, <<>>)
    [] e # Nil /\ HasSource(e) -> evalSource(e, r)
    [] OTHER -> IF \/ Arity(e) > Len(outcomes)
                   \/ \E k \in 1 .. Arity(e) : outcomes[k].panic
                THEN Panic
                ELSE Returns(outcomes[1].id,
                             Apply(e.op, [k \in 1 .. Arity(e) |-> outcomes[k].value]))

evalExp[e \in Expressions] ==
  [r \in Records |-> Outcome(e, r, [k \in DOMAIN e.exps |-> evalExp[e.exps[k]][r]])]

\* An element: rename takes the place of the id, and a value that does not match
\* validate is emptied.  MustCompile panics where there is no regular expression.
EvalElem(a, r) ==
  IF a = NoAttribute THEN Returns(<<>>, <<>>)
  ELSE LET v == evalExp[a.exp][r]
           id == IF a.rename = <<>> THEN v.id ELSE a.rename
       IN  IF v.panic \/ (a.validate # <<>> /\ ~Compiles(a.validate)) THEN Panic
           ELSE Returns(id, IF a.validate = <<>> \/ Matches(a.validate, v.value)
                            THEN v.value ELSE <<>>)
----------------------------------------------------------------------------
Init == /\ config \in Configs
        /\ rec \in Records
        /\ pc = "read"
        /\ elem = NoAttribute
        /\ result = Returns(<<>>, <<>>)

\* The configuration is read ...
Read == /\ pc = "read"
        /\ pc' = Validate(config)
        /\ UNCHANGED <<config, rec, elem, result>>

\* ... and an element of a profile is evaluated on a record; which one that is,
\* and after which others, is up to MatchProfile and makes no difference here.
Evaluate == /\ pc = "accepted"
            /\ \E n \in DOMAIN config.profiles : elem' \in Elements(config.profiles[n])
            /\ pc' = "done"
            /\ result' = EvalElem(elem', rec)
            /\ UNCHANGED <<config, rec>>

Done == pc \in {"rejected", "panic", "done"} /\ UNCHANGED vars

Next == Read \/ Evaluate \/ Done

Spec == Init /\ [][Next]_vars
----------------------------------------------------------------------------
(* Properties.                                                             *)

\* An expression was evaluated, and no validate pattern emptied its value.
IsValue == pc = "done" /\ ~result.panic /\ elem # NoAttribute /\ elem.validate = <<>>
exp == elem.exp

\* The expressions in an expression, itself included.
PartsOf[e \in Expressions] == {e} \cup UNION {PartsOf[e.exps[k]] : k \in DOMAIN e.exps}

\* A source of attributes that has no path, or one with a path that ends with nothing.
\* The body without a path is no such source: evalBody looks nothing up in it.
EndsWithNothing(e) ==
  \/ e.source \in {"attr", "rattr"} /\ e.path = <<>>
  \/ e.source \in {"attr", "rattr", "body"} /\ e.path # <<>> /\ Last(e.path) = ""

\* The evaluation never indexes an expression it does not have nor compiles a
\* validate pattern that is none, in whatever element of whatever profile and
\* however operators are nested: the only crash left in an accepted configuration
\* is the one of an empty key.  match_profile.go:299-357 and 370 check nothing
\* and rely on config.go:142-230.
AcceptedHasItsExpressions ==
  pc = "done" /\ result.panic => \E e \in PartsOf[exp] : EndsWithNothing(e)

\* README.md:39 gives the syntax of a source as <source>[:<key path>], the path
\* being optional, and the validation accepts it: what was accepted does not
\* crash the collector on a record.
AcceptedNeverPanics == ~(pc = "done" /\ result.panic)

\* The validation itself crashes on one kind of expression only, a regexp whose
\* pattern is nil or a literal without text: it never looks at an expression
\* before it has counted them, at any depth (config.go:157-174).
ValidationCountsFirst ==
  pc = "panic" =>
    \E n \in DOMAIN config.profiles : \E a \in Elements(config.profiles[n]) :
      \E e \in PartsOf[a.exp] :
        /\ e.op = "regexp" /\ Len(e.exps) = 2
        /\ \/ e.exps[2] = Nil
           \/ e.exps[2].source = "lit" /\ ~e.exps[2].colon

\* A key of the attributes is found by its name, dots and all, and so is a key
\* of a map by the path of both, unless a shorter key stands in the way
\* (match_profile.go:206-237).  A key that begins with a dot is not: its first part
\* is empty, and the path built of the parts has lost the dot (line 215).
Hidden(key, in) == \E k \in DOMAIN in : IsStrictPrefix(k, key) /\ k # <<>>
Reachable(key, in) ==
  key \in DOMAIN in /\ key # <<>> /\ Head(key) # "" /\ ~Hidden(key, in)
KeysAreReachable ==
  IsValue /\ exp.source = "attr" =>
    \A k \in DOMAIN rec.attr : Reachable(k, rec.attr) =>
      IF rec.attr[k].kind # "map"
      THEN exp.path = k => result.value = FilterASCII(evalValue(rec.attr[k]))
      ELSE \A k2 \in DOMAIN rec.attr[k].map :
             /\ Reachable(k2, rec.attr[k].map) /\ rec.attr[k].map[k2].kind # "map"
             /\ exp.path = k \o k2
             => result.value = FilterASCII(evalValue(rec.attr[k].map[k2]))

\* The values of the operands.
Operands == [k \in DOMAIN exp.exps |-> evalExp[exp.exps[k]][rec].value]

\* rmtail: "Remove everything from A after and including the last match of B": if B
\* occurs in A, what remains ends where B starts in A, and B starts nowhere behind.
IsTailRemoved(a, b, r) ==
  IF \E n \in 0 .. Len(a) : IsPrefix(SubSeq(a, 1, n) \o b, a)
  THEN /\ IsPrefix(r \o b, a)
       /\ \A n \in Len(r) + 1 .. Len(a) : ~IsPrefix(SubSeq(a, 1, n) \o b, a)
  ELSE r = a

\* How many of the first i characters are in C, and: r is the characters of s that are
\* in C, each at the place this gives it, and nothing else.
CountOf(s, i, C) == Cardinality({j \in 1 .. i : s[j] \in C})
IsFilterOf(s, C, r) ==
  /\ Len(r) = CountOf(s, Len(s), C)
  /\ \A i \in DOMAIN s : s[i] \in C => r[CountOf(s, i, C)] = s[i]

\* lc: r is in lower case, and character by character it is s but for the case.
IsLowerCaseOf(s, r) ==
  /\ Len(r) = Len(s)
  /\ \A k \in DOMAIN s : ToLower(r[k]) = r[k] /\ ToLower(r[k]) = ToLower(s[k])

\* r is the strings one behind the other with sep between them: each starts somewhere in
\* it, the first at the beginning, every other where the one before it and sep end.
IsJoined(strings, sep, r) ==
  IF strings = <<>> THEN r = <<>>
  ELSE \E at \in [DOMAIN strings -> 0 .. Len(r)] :
         /\ at[1] = 0
         /\ \A k \in DOMAIN strings :
              LET end == at[k] + Len(strings[k])
                  sepEnd == end + Len(sep)
              IN  /\ SubSeq(r, at[k] + 1, end) = strings[k]
                  /\ IF k = Len(strings) THEN end = Len(r)
                     ELSE at[k + 1] = sepEnd /\ SubSeq(r, end + 1, sepEnd) = sep

\* or: "Return the first expression result that is not empty", and nothing only
\* when all of them are.
IsFirstNonEmpty(values, r) ==
  \/ r = <<>> /\ \A k \in DOMAIN values : values[k] = <<>>
  \/ \E k \in DOMAIN values :
       /\ values[k] = r /\ r # <<>>
       /\ \A j \in 1 .. k - 1 : values[j] = <<>>

\* replace, which the README does not list: K are the places of s where b starts
\* without overlapping a b that is replaced; new takes the place of each of those.
IsReplaced(s, b, new, r) ==
  IF b = <<>> THEN r = FlattenSeq([n \in DOMAIN s |-> Append(new, s[n])]) \o new
  ELSE \E K \in SUBSET DOMAIN s :
         LET Covered(n) == \E k \in K : k < n /\ n < k + Len(b)
             Piece(n)   == IF n \in K THEN new ELSE IF Covered(n) THEN <<>> ELSE <<s[n]>>
         IN  /\ \A n \in DOMAIN s :
                  n \in K <=> IsPrefix(b, SubSeq(s, n, Len(s))) /\ ~Covered(n)
             /\ r = FlattenSeq([n \in DOMAIN s |-> Piece(n)])

\* What README.md:56-64 says that op makes of the values v, of which A and B are the
\* first and the second.  unescape: "Filter out ESC character" comes to nothing, because
\* FilterASCII has turned each ESC of a value into "\033" before an operator sees it.
\* regexp: a pattern that is none leaves A as it is, one that does not match nothing.
Documented(op, v, r) ==
  CASE op = "rmprefix" -> IF IsPrefix(v[2], v[1]) THEN v[1] = v[2] \o r ELSE r = v[1]
    [] op = "rmsuffix" -> IF IsSuffix(v[2], v[1]) THEN v[1] = r \o v[2] ELSE r = v[1]
    [] op = "rmtail"   -> IsTailRemoved(v[1], v[2], r)
    [] op = "alphanum" -> IsFilterOf(v[1], AlphaNum, r)
    [] op = "unescape" -> IsFilterOf(v[1], Strings \ {"esc"}, r) /\ r = v[1]
    [] op = "lc"       -> IsLowerCaseOf(v[1], r)
    [] op = "regexp"   -> IF ~Compiles(v[2]) THEN r = v[1]
                          ELSE LET arr == FindStringSubmatch(v[2], v[1])
                               IN  IsJoined(IF arr = <<>> THEN <<>> ELSE Tail(arr), <<>>, r)
    [] op = "and"      -> IsJoined(v, <<" ">>, r)
    [] op = "or"       -> IsFirstNonEmpty(v, r)
    [] op = "replace"  -> IsReplaced(v[1], v[2], v[3], r)
    [] OTHER           -> FALSE

\* The operators do what the README says of them, on whatever their expressions
\* evaluate to: empty values, operands longer than the value or found in it more than
\* once, occurrences that overlap (match_profile.go:296-353).
OperatorsAsDocumented ==
  IsValue /\ exp.op # "" => Documented(exp.op, Operands, result.value)

\* Nothing a record carries can put a control character, a newline or a
\* character outside ASCII into a value (filter_ascii.go, evalValue).
ValuesArePrintable ==
  pc = "done" => \A k \in DOMAIN result.value : result.value[k] \notin {"nl", "esc", "uni"}
============================================================================
