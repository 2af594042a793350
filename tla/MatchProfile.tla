--------------------------- MODULE MatchProfile ----------------------------
(***************************************************************************)
(* MatchProfile of match_profile.go: the profiles of the configuration are *)
(* tried in order on a log record, the first one whose elements all have a *)
(* value gives the record its stream and its message.  The severity number *)
(* of the record is changed on the way.                                    *)
(*                                                                         *)
(* A profile is given by what Parser.EvalElem returns for its elements on  *)
(* the record, which no step below changes (EvalElem reads attributes and  *)
(* the body only): an id and a value for each, the empty value "" for one  *)
(* that is not there.  A step is what the loop does for one element.       *)
(***************************************************************************)
EXTENDS Naturals, Sequences, FiniteSets

CONSTANTS Profiles,     \* the sequences of profiles to try
          Id,           \* the names of elements: last part of source, or rename
          Value,        \* their values, without ""
          NoSeverity    \* the profile's severity is nil

\* The severity numbers of OpenTelemetry; 0 is SeverityNumberUnspecified.
SeverityNumber == 0..24

Element == [id : Id, value : Value \cup {""}]

\* What every profile has: the elements of the stream and the labels.
IsProfile(p) == /\ \A f \in {"service_group", "host", "logbasename"} : p[f] \in Element
                /\ p.labels \in Seq(Element)

ASSUME MatchAssumption ==
  \A ps \in Profiles : /\ ps \in Seq({ps[k] : k \in DOMAIN ps})
                       /\ \A k \in DOMAIN ps : IsProfile(ps[k])

VARIABLES
  profiles,   \* c.Profiles
  number,     \* lr.SeverityNumber()
  text,       \* lr.SeverityText()
  given,      \* history: the number the record came with
  idx,        \* the profile being tried
  pc,         \* the element it is tried on, or "done"
  ids,        \* req.Ids, a map from ids to values
  cfgs,       \* req.Cfgs
  result      \* what MatchProfile returned

vars == <<profiles, number, text, given, idx, pc, ids, cfgs, result>>
----------------------------------------------------------------------------
(* The tables.  Texts with the same number are represented by one.         *)

sevText2Num ==
  [t \in {"Trace", "Debug", "Info", "Warn", "Error", "Fatal"} |->
    CASE t = "Trace" -> 1 [] t = "Debug" -> 5 [] t = "Info" -> 9
      [] t = "Warn" -> 13 [] t = "Error" -> 17 [] t = "Fatal" -> 21]

sevTextMap ==
  [t \in {"TRACE", "DEBUG", "INFO", "NOTICE", "WARN", "ERROR", "CRITICAL", "ALERT", "FATAL"} |->
    CASE t = "TRACE" -> 1 [] t = "DEBUG" -> 5 [] t = "INFO" -> 9
      [] t = "NOTICE" -> 10 [] t = "WARN" -> 13 [] t = "ERROR" -> 17
      [] t = "CRITICAL" -> 18 [] t = "ALERT" -> 19 [] t = "FATAL" -> 21]

\* Three characters, the first a digit from 1 to 5: an HTTP status.
HttpSeverity == [t \in {"200", "304", "404"} |->
                  CASE t = "200" -> 9 [] t = "304" -> 5 [] t = "404" -> 17]

\* severityMap
SeverityName(n) ==
  CASE n = 0 -> "UNKNOWN"     [] n \in 1..4 -> "TRACE"   [] n \in 5..8 -> "DEBUG"
    [] n = 9 -> "INFO"        [] n \in 10..12 -> "NOTICE" [] n \in 13..16 -> "WARN"
    [] n = 17 -> "ERROR"      [] n = 18 -> "CRITICAL"    [] n \in 19..20 -> "ALERT"
    [] n \in 21..24 -> "FATAL"

\* The number of an upper-cased severity text; one that is neither in the table
\* nor an HTTP status gives SeverityNumberUnspecified.
NumberOf(t) ==
  IF t \in DOMAIN sevTextMap THEN sevTextMap[t]
  ELSE IF t \in DOMAIN HttpSeverity THEN HttpSeverity[t]
  ELSE 0
----------------------------------------------------------------------------
Profile == profiles[idx]
None == [kind |-> "none"]

EmptyMap == [i \in {} |-> ""]
Put(m, i, v) == [k \in DOMAIN m \cup {i} |-> IF k = i THEN v ELSE m[k]]

Init ==
  /\ profiles \in Profiles
  /\ number \in {0, 9, 24}
  /\ text \in {"", "Warn", "unknown text"}
  /\ given = number
  /\ idx = 1
  /\ pc = "profile"
  /\ ids = EmptyMap
  /\ cfgs = EmptyMap
  /\ result = None

Return(r) ==
  /\ pc' = "done"
  /\ result' = r

\* As it would be with one request made before the loop, or without the check
\* that an element has a value, or if a number the record has were kept.
Kept(m) == m
NeverAbsent(v) == FALSE
NumberIfUnspecified(sevText) == IF number = 0 THEN NumberOf(sevText) ELSE number

\* newStreamTokenReq makes new maps for every profile.
Renewed(m) == EmptyMap

\* The next profile, with a new request.
BeginProfile ==
  /\ pc = "profile"
  /\ idx <= Len(profiles)
  /\ pc' = "service_group"
  /\ ids' = Renewed(ids)
  /\ cfgs' = Renewed(cfgs)
  /\ UNCHANGED <<profiles, number, text, given, idx, result>>

\* The loop is over: "No matching profile for log record".
NoMatchingProfile ==
  /\ pc = "profile"
  /\ idx > Len(profiles)
  /\ Return([kind |-> "no match"])
  /\ UNCHANGED <<profiles, number, text, given, idx, ids, cfgs>>

\* continue: an element has no value.
NextProfile ==
  /\ pc' = "profile"
  /\ idx' = idx + 1
  /\ UNCHANGED result

Continue(next) == pc' = next /\ UNCHANGED <<idx, result>>

Absent(v) == v = ""

\* service_group, host and logbasename: each must have a value, which is put
\* in the request under the element's id.  (logbasename is put there after the
\* severity, nothing reads the request in between.)
EvalRequired(field, next) ==
  /\ pc = field
  /\ IF Absent(Profile[field].value)
     THEN NextProfile /\ UNCHANGED ids
     ELSE Continue(next) /\ ids' = Put(ids, Profile[field].id, Profile[field].value)
  /\ UNCHANGED <<profiles, number, text, given, cfgs>>

\* The number a record without one gets from its own text.
FromText == IF number = 0 /\ text \in DOMAIN sevText2Num
            THEN sevText2Num[text] ELSE number

\* The number a record gets from the profile's severity, whatever it has.
FromProfile(sevText) == NumberOf(sevText)

\* The severity number: from the record's text, then from the profile.  The
\* record is changed at once, whatever becomes of this profile.
EvalSeverity ==
  /\ pc = "severity"
  /\ number' = IF Profile.severity \in {NoSeverity, ""}
               THEN FromText ELSE FromProfile(Profile.severity)
  /\ IF Profile.severity = "" THEN NextProfile ELSE Continue("labels")
  /\ UNCHANGED <<profiles, text, given, ids, cfgs>>

\* The labels, which may be empty; the last of those with the same id stays.
EvalLabels ==
  /\ pc = "labels"
  /\ pc' = "message"
  /\ LET labels == Profile.labels
         named(i) == {k \in DOMAIN labels : labels[k].id = i}
         last(i) == CHOOSE k \in named(i) : \A j \in named(i) : j <= k
     IN  cfgs' = [i \in {labels[k].id : k \in DOMAIN labels} |-> labels[last(i)].value]
  /\ UNCHANGED <<profiles, number, text, given, idx, ids, result>>

\* The message as it is formatted: an event has the record's severity in it.
FormatMessage(profile) ==
  [kind |-> "match",
   message |-> profile.message,
   severity |-> IF profile.format = "event" THEN SeverityName(number) ELSE "",
   containerLog |-> profile.format = "container",
   format |-> profile.format]

\* As it would be if an empty message ended the search at any profile, or if the
\* last profile's index were compared with the length.
AlwaysLast == TRUE
NeverLast == idx > Len(profiles)

IsLast == idx >= Len(profiles)

\* The message: without one, the last profile returns errEmptyLine and another
\* one makes way for the next.
EvalMessage ==
  /\ pc = "message"
  /\ \/ Profile.message # "" /\ Return(FormatMessage(Profile)) /\ UNCHANGED idx
     \/ Profile.message = "" /\ IsLast /\ Return([kind |-> "empty line"]) /\ UNCHANGED idx
     \/ Profile.message = "" /\ ~IsLast /\ NextProfile
  /\ UNCHANGED <<profiles, number, text, given, ids, cfgs>>

Done == pc = "done" /\ UNCHANGED vars

Next == \/ BeginProfile
        \/ NoMatchingProfile
        \/ EvalRequired("service_group", "host")
        \/ EvalRequired("host", "logbasename")
        \/ EvalRequired("logbasename", "severity")
        \/ EvalSeverity
        \/ EvalLabels
        \/ EvalMessage
        \/ Done

Spec == Init /\ [][Next]_vars
----------------------------------------------------------------------------
(* Properties.                                                             *)

TypeOK ==
  /\ profiles \in Profiles
  /\ number \in SeverityNumber /\ given \in SeverityNumber
  /\ idx \in 1 .. Len(profiles) + 1
  /\ pc \in {"profile", "service_group", "host", "logbasename", "severity",
             "labels", "message", "done"}
  /\ DOMAIN ids \subseteq Id /\ \A i \in DOMAIN ids : ids[i] \in Value
  /\ DOMAIN cfgs \subseteq Id /\ \A i \in DOMAIN cfgs : cfgs[i] \in Value \cup {""}
  /\ result.kind \in {"none", "match", "empty line", "no match"}

\* What it takes for a profile to have a stream, and to match.
HasStream(p) == /\ \A f \in {"service_group", "host", "logbasename"} : p[f].value # ""
                /\ p.severity # ""
Matches(p) == HasStream(p) /\ p.message # ""
Matching == {k \in DOMAIN profiles : Matches(profiles[k])}

\* Profiles "match against incoming logs in the order configured" (README.md:16-17): the result
\* is that of the first profile that matches, however the ones before it failed,
\* and an error only when there is none.
FirstMatchWins ==
  pc = "done" =>
    /\ result.kind = "match" <=> Matching # {}
    /\ result.kind = "match" => /\ idx \in Matching
                                /\ \A k \in Matching : idx <= k
                                /\ result.message = Profile.message

\* A record without a match is an empty line (logged as a warning and skipped)
\* exactly when the last profile knows its stream and finds no message in it;
\* otherwise it is an error (match_profile.go:457-465).
EmptyLineClassified ==
  pc = "done" /\ Matching = {} =>
    (result.kind = "empty line" <=>
       Len(profiles) > 0 /\ HasStream(profiles[Len(profiles)]))

\* The request that names the stream is made of the matching profile alone, and
\* nothing of a profile that failed half-way gets into the key of the stream
\* (match_profile.go:396, 409-455).  An id has the value of the last element of
\* that id: under three ids the three values can be read back, so records that
\* differ in one of them are of different streams, but elements that share an id
\* overwrite each other and the key forgets all of them but the last.
Required == <<"service_group", "host", "logbasename">>
RequestOfMatch ==
  result.kind = "match" =>
    /\ DOMAIN ids = {Profile[Required[n]].id : n \in 1..3}
    /\ \A n \in 1..3 :
         \/ ids[Profile[Required[n]].id] = Profile[Required[n]].value
         \/ \E later \in n + 1 .. 3 : Profile[Required[later]].id = Profile[Required[n]].id
    /\ DOMAIN cfgs = {Profile.labels[k].id : k \in DOMAIN Profile.labels}

\* When the matching profile has a severity, the record gets its number: not
\* the one it came with, nor one a profile before it left behind
\* (match_profile.go:427-449).
SeverityOfProfile ==
  result.kind = "match" /\ Profile.severity # NoSeverity =>
    number = NumberOf(Profile.severity)

\* "By setting the severity config to nil (below) we are asking the match to
\* use the log stream's severity number" (match_profile_test.go:119-120): the
\* number the record came with, or that of its text.
SeverityOfRecord ==
  result.kind = "match" /\ Profile.severity = NoSeverity =>
    number = IF given = 0 /\ text \in DOMAIN sevText2Num
             THEN sevText2Num[text] ELSE given
============================================================================
