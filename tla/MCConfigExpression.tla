------------------------ MODULE MCConfigExpression ------------------------
(* Small instances of ConfigExpression: every operator on every choice of   *)
(* up to two sources, well-formed or not, and of three where the values     *)
(* differ, and some operators nested.                                       *)
EXTENDS ConfigExpression, FiniteSetsExt

\* The characters, the parts of keys and the names below.
MCStrings == {"", " ", "nl", "esc", "uni", "{", "json", "}", "\\", "0", "3", "n", "a", "A", "b",
              "c", "m", "s", "nil", "name", "event", "none",
              "lit", "attr", "rattr", "body", "nowhere"} \cup DOMAIN cfgOpMap \cup {"nand"}
MCAlphaNum == {"0", "3", "n", "a", "A", "b", "json"}
MCToLower(c) == IF c = "A" THEN "a" ELSE c

Str(s) == [kind |-> "string", string |-> s]
MapOf(m) == [kind |-> "map", map |-> m]

Lit(s) == Source("lit", TRUE, s)
Attr(path) == Source("attr", TRUE, path)

\* Sources with a path.
MCSources == { Lit(<<>>), Lit(<<"b">>), Lit(<<"a", "esc">>),
               Attr(<<"a">>), Attr(<<"b">>), Attr(<<"b", "c">>), Attr(<<"m", "a">>),
               Attr(<<"m", "a", "b">>), Attr(<<"m">>), Attr(<<"s">>),
               Source("rattr", TRUE, <<"a">>), Source("body", TRUE, <<"a">>),
               Source("body", FALSE, <<>>) }
\* Sources the syntax of the README allows as well, and a misspelt one.
MCBareSources == { Source("", TRUE, <<"a">>), Source("attr", FALSE, <<>>), Source("lit", FALSE, <<>>),
                   Source("nowhere", TRUE, <<"a">>) }

Operations(Args, upTo) ==
  {Operation(op, args) :
     op \in {"alphanum", "lc", "unescape", "rmprefix", "rmsuffix", "rmtail",
             "regexp", "replace", "and", "or", "nand"},
     args \in UNION {[1..n -> Args] : n \in 0..upTo}}

\* Operators in an operator, with the right and the wrong number of arguments.
Nested(Args) == {Operation(op, <<Operation(op2, <<x, y>>), z>>) :
                   op \in {"or", "rmprefix"}, op2 \in {"rmtail", "replace", "or"},
                   x \in Args, y \in Args, z \in Args}
Few == { Lit(<<"b">>), Attr(<<"b">>), Source("body", FALSE, <<>>), Lit(<<>>) }

\* For three operands: the sources with different values, and some where what is looked
\* for overlaps itself.
Some == Few \cup { Attr(<<"a">>), Attr(<<"s">>), Attr(<<"m", "a">>), Source("body", TRUE, <<"a">>),
                   Lit(<<"b", "b">>), Lit(<<"b", "b", "b">>) }

\* Patterns and operands that are there, bare, or nil.
Patterns == Operations({Lit(<<"b">>), Attr(<<"a">>), Source("lit", FALSE, <<>>), Nil}, 3)

NoProfile == [service_group |-> NoAttribute, host |-> NoAttribute, logbasename |-> NoAttribute,
              severity |-> NoAttribute, message |-> NoAttribute, labels |-> <<>>, format |-> ""]
ConfigOf(ps) == [profiles |-> ps, size |-> 2, maxSize |-> 0]

\* A configuration of one profile whose only element is the message.
Message(e) == ConfigOf(<<[NoProfile EXCEPT !.message = Attribute(e, <<>>, <<>>)]>>)

\* Elements, some of which the validation must refuse, in every place.
MCAttributes == {Attribute(e, rename, validate) :
                 e \in {Lit(<<"b">>), Attr(<<"a">>), Nil, Operation("lc", <<>>)},
                 rename \in {<<>>, <<"name">>},
                 validate \in {<<>>, <<"b">>, <<"a", "esc">>}}
In(f, a) == [NoProfile EXCEPT ![f] = a]
Placed(a) == {In(ElementNames[n], a) : n \in 1..5} \cup {In("labels", <<a>>), In("labels", <<NoAttribute, a>>)}
                 \cup {[In("labels", <<a>>) EXCEPT !.format = f] : f \in {"event", "none"}}
OfElements == UNION {UNION {{ConfigOf(<<p>>), ConfigOf(<<NoProfile, p>>)} : p \in Placed(a)} : a \in MCAttributes}
OfSizes == {[ConfigOf(<<NoProfile>>) EXCEPT !.size = n, !.maxSize = m] : n \in 0..2, m \in 0..2}

MCTried == MCSources \cup Operations(MCSources, 2) \cup Operations(Some, 3) \cup Nested(Few) \cup Patterns
MCConfigs == {Message(e) : e \in MCTried} \cup OfElements \cup OfSizes

\* All of them, with their parts.
MCExpressions == MCTried \cup Some \cup MCBareSources \cup {Nil, Operation("lc", <<>>), Source("lit", FALSE, <<>>)}
                   \cup UNION {ToSet(e.exps) : e \in Nested(Few)}
RECURSIVE MCDepth(_)
MCDepth(e) == Max({0} \cup {1 + MCDepth(x) : x \in ToSet(e.exps)})
MCBare == {Message(e) : e \in MCBareSources \cup MCSources}

MCAttr == (<<"a">>       :> Str(<<"a", "b", "nl", "A", "b", "esc">>)
           @@ <<"b">>      :> Str(<<"b">>)
           @@ <<"b", "c">> :> Str(<<"A">>)
           @@ <<"s">>      :> [kind |-> "slice",
                               items |-> <<Str(<<>>), Str(<<"b">>), MapOf(<<>>), Str(<<"nl">>)>>]
           @@ <<"m">>      :> MapOf(<<"a", "b">> :> Str(<<"uni", "A">>)))
MCRattr == (<<"a">> :> Str(<<>>))

MCBodies == { Str(<<"b", "esc", "A">>),
              [kind |-> "slice", items |-> <<Str(<<"A">>), Str(<<"b">>)>>],
              [kind |-> "json", map |-> (<<"a">> :> Str(<<"b", "A", "b">>))] }
MCRecords == {[attr |-> MCAttr, rattr |-> MCRattr, body |-> b] : b \in MCBodies}

PartsOfValue(v) == CASE v.kind = "string" -> {}
                     [] v.kind = "slice"  -> ToSet(v.items)
                     [] OTHER             -> {v.map[k] : k \in DOMAIN v.map}
MCOuter == MCBodies \cup {MCAttr[k] : k \in DOMAIN MCAttr} \cup {MCRattr[k] : k \in DOMAIN MCRattr}
MCValues == MCOuter \cup UNION {PartsOfValue(v) : v \in MCOuter}

\* A pattern of one character has a group for each time the string has it, one without
\* characters matches and has no group; <<"A">> stands for one that does not compile, and
\* is the value of an attribute, so that only the evaluation finds out.
MCCompiles(p) == p \notin {<<"a", "esc">>, <<"A">>}
MCFindStringSubmatch(p, s) ==
  LET hits == SelectSeq(s, LAMBDA c : p = <<c>>)
  IN  IF p = <<>> THEN << <<>> >>
      ELSE IF hits = <<>> THEN <<>> ELSE <<s>> \o [k \in DOMAIN hits |-> <<hits[k]>>]
MCMatches(p, s) == MCFindStringSubmatch(p, s) # <<>>
=========================================================================
