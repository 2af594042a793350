------------------------ MODULE MatchProfileProofs -------------------------
(***************************************************************************)
(* Theorems about MatchProfile, for any number of profiles, whatever their *)
(* elements evaluate to.                                                   *)
(*                                                                         *)
(* SearchInv says what the search knows at every step: why each profile    *)
(* before idx was passed over, that what was evaluated of the one at idx   *)
(* has a value, and that the request is made of that alone.                *)
(***************************************************************************)
EXTENDS MatchProfile, RecursionTheorems

USE DEF Renewed, Absent, FromProfile, IsLast

\* The request after the first, the second and the third required element of p.
Request1(p) == Put(EmptyMap, p["service_group"].id, p["service_group"].value)
Request2(p) == Put(Request1(p), p["host"].id, p["host"].value)
Request3(p) == Put(Request2(p), p["logbasename"].id, p["logbasename"].value)

AfterGroup == {"host", "logbasename", "severity", "labels", "message"}
AfterHost == {"logbasename", "severity", "labels", "message"}
AfterBase == {"severity", "labels", "message"}
AfterSeverity == {"labels", "message"}

\* A profile passed over has no stream, or no message and others behind it.
PassedOver(k) == HasStream(profiles[k]) => profiles[k].message = "" /\ k < Len(profiles)

\* The number is the profile's, when that has a severity.
SeverityKept(p) == p.severity # NoSeverity => number = NumberOf(p.severity)

\* The labels' ids are those of the profile.
LabelIds(p) == {p.labels[k].id : k \in DOMAIN p.labels}

\* What the search has found out about the profile at idx.
ProfileInv ==
  /\ pc \notin {"profile", "done"} => idx <= Len(profiles)
  /\ pc = "service_group" => ids = EmptyMap
  /\ pc \in AfterGroup => Profile["service_group"].value # ""
  /\ pc = "host" => ids = Request1(Profile)
  /\ pc \in AfterHost => Profile["host"].value # ""
  /\ pc = "logbasename" => ids = Request2(Profile)
  /\ pc \in AfterBase => Profile["logbasename"].value # "" /\ ids = Request3(Profile)
  /\ pc \in AfterSeverity => Profile.severity # "" /\ SeverityKept(Profile)
  /\ pc = "message" => DOMAIN cfgs = LabelIds(Profile)

\* What the result says about it.
ResultInv ==
  /\ pc = "done" <=> result.kind # "none"
  /\ result.kind = "match" =>
       /\ idx <= Len(profiles) /\ Matches(Profile) /\ result.message = Profile.message
       /\ ids = Request3(Profile) /\ SeverityKept(Profile) /\ DOMAIN cfgs = LabelIds(Profile)
  /\ result.kind = "empty line" =>
       idx = Len(profiles) /\ HasStream(Profile) /\ Profile.message = ""
  /\ result.kind = "no match" => idx = Len(profiles) + 1

SearchInv == /\ \A k \in 1 .. idx - 1 : PassedOver(k)
             /\ ProfileInv
             /\ ResultInv
----------------------------------------------------------------------------
(* The data.                                                               *)

\* The profiles are a sequence, and the one being tried has its elements.
LEMMA ProfilesFacts ==
  ASSUME TypeOK
  PROVE  /\ Len(profiles) \in Nat /\ DOMAIN profiles = 1 .. Len(profiles)
         /\ idx \in Nat /\ idx >= 1 /\ idx <= Len(profiles) + 1
         /\ idx <= Len(profiles) => IsProfile(Profile)
<1>1. profiles \in Seq({profiles[k] : k \in DOMAIN profiles}) /\ \A k \in DOMAIN profiles : IsProfile(profiles[k])
  BY MatchAssumption DEF TypeOK
<1>2. Len(profiles) \in Nat /\ DOMAIN profiles = 1 .. Len(profiles)
  BY <1>1, LenProperties
<1>3. idx \in 1 .. Len(profiles) + 1
  BY DEF TypeOK
<1>4. QED
  BY <1>1, <1>2, <1>3 DEF Profile

\* The numbers in the tables are severity numbers.
LEMMA NumberType ==
  ASSUME NEW t
  PROVE  NumberOf(t) \in SeverityNumber
BY DEF NumberOf, sevTextMap, HttpSeverity, SeverityNumber

\* A severity read from a text is one of OpenTelemetry's.
LEMMA FromTextType ==
  ASSUME number \in SeverityNumber
  PROVE  FromText \in SeverityNumber
BY DEF FromText, sevText2Num, SeverityNumber

\* A set of indices that is not empty has a greatest one.
LEMMA GreatestIndex ==
  ASSUME NEW n \in Nat, NEW K, K \subseteq 1 .. n, K # {}
  PROVE  \E k \in K : \A j \in K : j <= k
<1> DEFINE T == {m \in Nat : \A J \in SUBSET (1 .. m) : J # {} => \E k \in J : \A j \in J : j <= k}
<1>1. 0 \in T
  <2>1. \A i \in 1 .. 0 : FALSE
    OBVIOUS
  <2>2. QED
    BY <2>1
<1>2. ASSUME NEW m \in Nat, m \in T PROVE m + 1 \in T
  <2> SUFFICES ASSUME NEW J \in SUBSET (1 .. m + 1), J # {} PROVE \E k \in J : \A j \in J : j <= k
    OBVIOUS
  <2>1. CASE m + 1 \in J
    BY <2>1
  <2>2. CASE m + 1 \notin J
    <3>1. J \in SUBSET (1 .. m)
      BY <2>2
    <3>2. QED
      BY <1>2, <3>1
  <2>3. QED
    BY <2>1, <2>2
<1>3. \A m \in Nat : m \in T
  <2> HIDE DEF T
  <2>1. QED
    BY <1>1, <1>2, NatInductionSet
<1>4. QED
  BY <1>3
----------------------------------------------------------------------------
(* The steps.                                                              *)

\* The search starts with nothing passed over.
LEMMA InitInv == ASSUME Init PROVE TypeOK /\ SearchInv
<1>1. profiles \in Seq({profiles[k] : k \in DOMAIN profiles})
  BY MatchAssumption DEF Init
<1>2. Len(profiles) \in Nat
  BY <1>1, LenProperties
<1>3. TypeOK
  <2>1. idx \in 1 .. Len(profiles) + 1
    <3>1. idx = 1
      BY DEF Init
    <3>2. QED
      BY <1>2, <3>1
  <2>2. number \in SeverityNumber /\ given \in SeverityNumber
    <3>1. number \in {0, 9, 24} /\ given = number
      BY DEF Init
    <3>2. {0, 9, 24} \subseteq SeverityNumber
      BY DEF SeverityNumber
    <3>3. QED
      BY <3>1, <3>2
  <2>3. result.kind = "none"
    BY DEF Init, None
  <2>4. DOMAIN ids = {} /\ DOMAIN cfgs = {}
    BY DEF Init, EmptyMap
  <2>5. profiles \in Profiles /\ pc = "profile"
    BY DEF Init
  <2>6. QED
    BY <2>1, <2>2, <2>3, <2>4, <2>5 DEF TypeOK
<1>4. SearchInv
  <2>1. (\A k \in 1 .. idx - 1 : FALSE) /\ pc = "profile" /\ result.kind = "none"
    <3>1. idx = 1 /\ pc = "profile" /\ result = [kind |-> "none"]
      BY DEF Init, None
    <3>2. QED
      BY <3>1
  <2>2. ProfileInv
    BY <2>1 DEF ProfileInv, AfterGroup, AfterHost, AfterBase, AfterSeverity
  <2>3. ResultInv
    BY <2>1 DEF ResultInv
  <2>4. QED
    BY <2>1, <2>2, <2>3 DEF SearchInv
<1>5. QED
  BY <1>3, <1>4

\* A profile is passed over: the search goes on with the next one.
LEMMA GoesOn ==
  ASSUME TypeOK, SearchInv, pc \notin {"profile", "done"}, NextProfile, PassedOver(idx), profiles' = profiles
  PROVE  SearchInv' /\ idx' \in 1 .. Len(profiles) + 1
<1>1. Len(profiles) \in Nat /\ idx \in Nat /\ idx >= 1 /\ idx <= Len(profiles)
  BY ProfilesFacts DEF SearchInv, ProfileInv
<1>2. idx' = idx + 1 /\ pc' = "profile" /\ result' = result
  BY DEF NextProfile
<1>3. idx' \in 1 .. Len(profiles) + 1
  BY <1>1, <1>2
<1>4. \A k \in 1 .. idx' - 1 : PassedOver(k)
  <2>1. \A k \in 1 .. idx' - 1 : k \in 1 .. idx - 1 \/ k = idx
    BY <1>1, <1>2
  <2>2. QED
    BY <2>1 DEF SearchInv
<1>5. \A k \in 1 .. idx' - 1 : PassedOver(k)'
  BY <1>4 DEF PassedOver, HasStream
<1>6. ProfileInv'
  BY <1>2 DEF ProfileInv, AfterGroup, AfterHost, AfterBase, AfterSeverity
<1>7. ResultInv'
  BY <1>2 DEF ResultInv, SearchInv
<1>8. QED
  BY <1>3, <1>5, <1>6, <1>7 DEF SearchInv

\* A step to another element of the same profile keeps what was known of the others.
LEMMA SameProfile ==
  ASSUME TypeOK, SearchInv, pc # "done", pc' # "done", UNCHANGED <<idx, profiles, result>>
  PROVE  /\ \A k \in 1 .. idx' - 1 : PassedOver(k)'
         /\ ResultInv'
<1>1. \A k \in 1 .. idx' - 1 : PassedOver(k)'
  BY DEF SearchInv, PassedOver, HasStream
<1>2. ResultInv'
  BY DEF SearchInv, ResultInv
<1>3. QED
  BY <1>1, <1>2

\* The loop reaches a profile.
LEMMA BeginProfileInv ==
  ASSUME TypeOK, SearchInv, BeginProfile
  PROVE  TypeOK' /\ SearchInv'
<1>1. /\ pc = "profile" /\ pc' = "service_group" /\ ids' = EmptyMap /\ cfgs' = EmptyMap
      /\ idx <= Len(profiles) /\ UNCHANGED <<profiles, number, text, given, idx, result>>
  BY DEF BeginProfile
<1>2. TypeOK'
  BY <1>1 DEF TypeOK, EmptyMap
<1>3. ProfileInv'
  BY <1>1 DEF ProfileInv, AfterGroup, AfterHost, AfterBase, AfterSeverity
<1>4. QED
  BY <1>1, <1>2, <1>3, SameProfile DEF SearchInv

\* The loop ends without a match.
LEMMA NoMatchingProfileInv ==
  ASSUME TypeOK, SearchInv, NoMatchingProfile
  PROVE  TypeOK' /\ SearchInv'
<1>1. /\ pc = "profile" /\ pc' = "done" /\ result' = [kind |-> "no match"]
      /\ idx > Len(profiles) /\ UNCHANGED <<profiles, number, text, given, idx, ids, cfgs>>
  BY DEF NoMatchingProfile, Return
<1>2. TypeOK'
  BY <1>1 DEF TypeOK
<1>3. ProfileInv'
  BY <1>1 DEF ProfileInv, AfterGroup, AfterHost, AfterBase, AfterSeverity
<1>4. ResultInv'
  <2>1. idx = Len(profiles) + 1
    <3>1. Len(profiles) \in Nat /\ idx \in Nat /\ idx <= Len(profiles) + 1
      BY ProfilesFacts
    <3>2. idx > Len(profiles)
      BY <1>1
    <3>3. QED
      BY <3>1, <3>2
  <2>2. QED
    BY <1>1, <2>1 DEF ResultInv
<1>5. \A k \in 1 .. idx' - 1 : PassedOver(k)'
  BY <1>1 DEF SearchInv, PassedOver, HasStream
<1>6. QED
  BY <1>2, <1>3, <1>4, <1>5 DEF SearchInv

\* The element comes after, the one it comes before, and the request up to it.
LEMMA EvalRequiredInv ==
  ASSUME TypeOK, SearchInv, NEW field, NEW next, EvalRequired(field, next),
         \/ field = "service_group" /\ next = "host"
         \/ field = "host" /\ next = "logbasename"
         \/ field = "logbasename" /\ next = "severity"
  PROVE  TypeOK' /\ SearchInv'
<1>1. pc = field /\ UNCHANGED <<profiles, number, text, given, cfgs>>
  BY DEF EvalRequired
<1>2. pc \notin {"profile", "done"} /\ field \in {"service_group", "host", "logbasename"}
  BY <1>1
<1>3. /\ Profile[field] \in Element
      /\ idx \in Nat /\ idx <= Len(profiles)
  BY <1>2, ProfilesFacts DEF SearchInv, ProfileInv, IsProfile
<1>4. CASE Profile[field].value = ""
  <2>1. NextProfile /\ UNCHANGED ids
    BY <1>4 DEF EvalRequired
  <2>2. PassedOver(idx)
    BY <1>2, <1>4 DEF PassedOver, HasStream, Profile
  <2>3. SearchInv' /\ idx' \in 1 .. Len(profiles) + 1
    BY <1>1, <1>2, <2>1, <2>2, GoesOn
  <2>4. TypeOK'
    BY <1>1, <2>1, <2>3 DEF TypeOK, NextProfile
  <2>5. QED
    BY <2>3, <2>4
<1>5. CASE Profile[field].value # ""
  <2> DEFINE i == Profile[field].id
             v == Profile[field].value
  <2>1. pc' = next /\ UNCHANGED <<idx, result>> /\ ids' = Put(ids, i, v)
    BY <1>5 DEF EvalRequired, Continue
  <2>2. i \in Id /\ v \in Value
    BY <1>3, <1>5 DEF Element
  <2>3. Profile' = Profile
    BY <1>1, <2>1 DEF Profile
  <2>4. TypeOK'
    <3>1. DOMAIN ids' \subseteq Id /\ \A k \in DOMAIN ids' : ids'[k] \in Value
      <4> HIDE DEF i, v
      <4>1. DOMAIN ids \subseteq Id /\ \A k \in DOMAIN ids : ids[k] \in Value
        BY DEF TypeOK
      <4>2. DOMAIN Put(ids, i, v) \subseteq Id /\ \A k \in DOMAIN Put(ids, i, v) : Put(ids, i, v)[k] \in Value
        <5>1. /\ DOMAIN Put(ids, i, v) = DOMAIN ids \cup {i}
              /\ \A k \in DOMAIN Put(ids, i, v) : Put(ids, i, v)[k] = v \/ (k \in DOMAIN ids /\ Put(ids, i, v)[k] = ids[k])
          BY DEF Put
        <5>2. QED
          BY <2>2, <4>1, <5>1
      <4>3. QED
        BY <2>1, <4>2
    <3>2. QED
      BY <1>1, <2>1, <3>1 DEF TypeOK
  <2>5. ProfileInv'
    <3>1. CASE field = "service_group"
      <4>1. ids = EmptyMap
        BY <1>1, <3>1 DEF SearchInv, ProfileInv
      <4>2. ids' = Request1(Profile) /\ pc' = "host"
        BY <2>1, <3>1, <4>1 DEF Request1
      <4>3. QED
        BY <1>1, <1>3, <1>5, <2>1, <2>3, <3>1, <4>2
        DEF ProfileInv, AfterGroup, AfterHost, AfterBase, AfterSeverity
    <3>2. CASE field = "host"
      <4>1. ids = Request1(Profile) /\ Profile["service_group"].value # ""
        BY <1>1, <3>2 DEF SearchInv, ProfileInv, AfterGroup
      <4>2. ids' = Request2(Profile) /\ pc' = "logbasename"
        BY <2>1, <3>2, <4>1 DEF Request2
      <4>3. QED
        BY <1>1, <1>3, <1>5, <2>1, <2>3, <3>2, <4>1, <4>2
        DEF ProfileInv, AfterGroup, AfterHost, AfterBase, AfterSeverity
    <3>3. CASE field = "logbasename"
      <4>1. ids = Request2(Profile) /\ Profile["service_group"].value # "" /\ Profile["host"].value # ""
        BY <1>1, <3>3 DEF SearchInv, ProfileInv, AfterGroup, AfterHost
      <4>2. ids' = Request3(Profile) /\ pc' = "severity"
        BY <2>1, <3>3, <4>1 DEF Request3
      <4>3. QED
        BY <1>1, <1>3, <1>5, <2>1, <2>3, <3>3, <4>1, <4>2
        DEF ProfileInv, AfterGroup, AfterHost, AfterBase, AfterSeverity
    <3>4. QED
      BY <3>1, <3>2, <3>3
  <2>6. pc # "done" /\ pc' # "done"
    BY <1>2, <2>1
  <2>7. QED
    BY <1>1, <2>1, <2>4, <2>5, <2>6, SameProfile DEF SearchInv
<1>6. QED
  BY <1>4, <1>5

\* The severity of a profile is evaluated.
LEMMA EvalSeverityInv ==
  ASSUME TypeOK, SearchInv, EvalSeverity
  PROVE  TypeOK' /\ SearchInv'
<1> DEFINE sevText == Profile.severity
<1>1. /\ pc = "severity" /\ UNCHANGED <<profiles, text, given, ids, cfgs>>
      /\ number' = IF sevText \in {NoSeverity, ""} THEN FromText ELSE NumberOf(sevText)
  BY DEF EvalSeverity
<1>2. number' \in SeverityNumber
  <2>1. FromText \in SeverityNumber
    BY FromTextType DEF TypeOK
  <2>2. QED
    BY <1>1, <2>1, NumberType
<1>3. CASE sevText = ""
  <2>1. NextProfile
    BY <1>3 DEF EvalSeverity
  <2>2. PassedOver(idx)
    BY <1>3 DEF PassedOver, HasStream, Profile
  <2>3. SearchInv' /\ idx' \in 1 .. Len(profiles) + 1
    BY <1>1, <2>1, <2>2, GoesOn
  <2>4. TypeOK'
    BY <1>1, <1>2, <2>1, <2>3 DEF TypeOK, NextProfile
  <2>5. QED
    BY <2>3, <2>4
<1>4. CASE sevText # ""
  <2>1. pc' = "labels" /\ UNCHANGED <<idx, result>>
    BY <1>4 DEF EvalSeverity, Continue
  <2>2. TypeOK'
    BY <1>1, <1>2, <2>1 DEF TypeOK
  <2>3. Profile' = Profile
    BY <1>1, <2>1 DEF Profile
  <2>4. sevText # NoSeverity => number' = NumberOf(sevText)
    BY <1>1, <1>4
  <2>5. SeverityKept(Profile)'
    BY <2>3, <2>4 DEF SeverityKept, NumberOf
  <2>6. /\ idx <= Len(profiles) /\ ids = Request3(Profile)
        /\ Profile["service_group"].value # "" /\ Profile["host"].value # ""
        /\ Profile["logbasename"].value # ""
    BY <1>1 DEF SearchInv, ProfileInv, AfterGroup, AfterHost, AfterBase
  <2>7. Request3(Profile)' = Request3(Profile)
    BY <2>3 DEF Request3, Request2, Request1, Put, EmptyMap
  <2>8. ProfileInv'
    BY <1>1, <1>4, <2>1, <2>3, <2>5, <2>6, <2>7
    DEF ProfileInv, AfterGroup, AfterHost, AfterBase, AfterSeverity
  <2>9. pc # "done" /\ pc' # "done"
    BY <1>1, <2>1
  <2>10. QED
    BY <1>1, <2>1, <2>2, <2>8, <2>9, SameProfile DEF SearchInv
<1>5. QED
  BY <1>3, <1>4

\* The labels of a profile are evaluated.
LEMMA EvalLabelsInv ==
  ASSUME TypeOK, SearchInv, EvalLabels
  PROVE  TypeOK' /\ SearchInv'
<1> DEFINE labels == Profile.labels
           named(i) == {k \in DOMAIN labels : labels[k].id = i}
           last(i) == CHOOSE k \in named(i) : \A j \in named(i) : j <= k
<1>1. /\ pc = "labels" /\ pc' = "message" /\ UNCHANGED <<profiles, number, text, given, idx, ids, result>>
      /\ cfgs' = [i \in LabelIds(Profile) |-> labels[last(i)].value]
  BY DEF EvalLabels, LabelIds
<1>2. /\ idx <= Len(profiles) /\ ids = Request3(Profile)
      /\ Profile["service_group"].value # "" /\ Profile["host"].value # ""
      /\ Profile["logbasename"].value # "" /\ Profile.severity # "" /\ SeverityKept(Profile)
  BY <1>1 DEF SearchInv, ProfileInv, AfterGroup, AfterHost, AfterBase, AfterSeverity
<1>3. labels \in Seq(Element)
  BY <1>2, ProfilesFacts DEF IsProfile
\* the last of the labels of an id
<1>4. ASSUME NEW i \in LabelIds(Profile) PROVE last(i) \in DOMAIN labels
  <2>1. DOMAIN labels = 1 .. Len(labels) /\ Len(labels) \in Nat
    BY <1>3, LenProperties
  <2>2. named(i) \subseteq 1 .. Len(labels) /\ named(i) # {}
    BY <1>4, <2>1 DEF LabelIds
  <2> HIDE DEF named
  <2>3. \E k \in named(i) : \A j \in named(i) : j <= k
    BY <2>1, <2>2, GreatestIndex
  <2>4. QED
    BY <2>1, <2>2, <2>3
<1>5. LabelIds(Profile) \subseteq Id
  <2>1. \A k \in DOMAIN labels : labels[k] \in Element
    <3> HIDE DEF labels
    <3>1. QED
      BY <1>3, LenProperties, ElementOfSeq
  <2>2. QED
    BY <2>1 DEF LabelIds, Element
<1>6. \A i \in LabelIds(Profile) : labels[last(i)].value \in Value \cup {""}
  <2> HIDE DEF labels, last
  <2>1. \A k \in DOMAIN labels : labels[k] \in Element
    BY <1>3, LenProperties, ElementOfSeq
  <2>2. QED
    BY <1>4, <2>1 DEF Element
<1> HIDE DEF last
<1>7. TypeOK'
  <2>1. DOMAIN cfgs' = LabelIds(Profile) /\ \A i \in DOMAIN cfgs' : cfgs'[i] \in Value \cup {""}
    BY <1>1, <1>6
  <2>2. QED
    BY <1>1, <1>5, <2>1 DEF TypeOK
<1>8. Profile' = Profile
  BY <1>1 DEF Profile
<1>9. LabelIds(Profile)' = LabelIds(Profile) /\ DOMAIN cfgs' = LabelIds(Profile)
  BY <1>1, <1>8 DEF LabelIds
<1>10. Request3(Profile)' = Request3(Profile) /\ SeverityKept(Profile)'
  BY <1>1, <1>2, <1>8 DEF Request3, Request2, Request1, Put, EmptyMap, SeverityKept, NumberOf
<1>11. ProfileInv'
  BY <1>1, <1>2, <1>8, <1>9, <1>10
  DEF ProfileInv, AfterGroup, AfterHost, AfterBase, AfterSeverity
<1>12. pc # "done" /\ pc' # "done"
  BY <1>1
<1>13. QED
  BY <1>1, <1>7, <1>11, <1>12, SameProfile DEF SearchInv

\* The message of a profile is evaluated, which decides whether it matches.
LEMMA EvalMessageInv ==
  ASSUME TypeOK, SearchInv, EvalMessage
  PROVE  TypeOK' /\ SearchInv'
<1>1. pc = "message" /\ UNCHANGED <<profiles, number, text, given, ids, cfgs>>
  BY DEF EvalMessage
<1>2. /\ idx <= Len(profiles) /\ ids = Request3(Profile)
      /\ Profile["service_group"].value # "" /\ Profile["host"].value # ""
      /\ Profile["logbasename"].value # "" /\ Profile.severity # "" /\ SeverityKept(Profile)
      /\ DOMAIN cfgs = LabelIds(Profile)
  BY <1>1 DEF SearchInv, ProfileInv, AfterGroup, AfterHost, AfterBase, AfterSeverity
<1>3. HasStream(Profile)
  BY <1>2 DEF HasStream
<1>4. Len(profiles) \in Nat /\ idx \in Nat /\ idx >= 1
  BY ProfilesFacts
<1>5. ASSUME pc' = "done", UNCHANGED idx, result'.kind \in {"match", "empty line"},
             result'.kind = "match" => Matches(Profile) /\ result'.message = Profile.message,
             result'.kind = "empty line" => idx = Len(profiles) /\ Profile.message = ""
      PROVE  TypeOK' /\ SearchInv'
  <2>1. idx' = idx
    BY <1>5
  <2>2. TypeOK'
    BY <1>1, <1>5, <2>1 DEF TypeOK
  <2>3. Profile' = Profile
    BY <1>1, <2>1 DEF Profile
  <2>4. \A k \in 1 .. idx' - 1 : PassedOver(k)'
    BY <1>1, <2>1 DEF SearchInv, PassedOver, HasStream
  <2>5. ProfileInv'
    BY <1>5 DEF ProfileInv, AfterGroup, AfterHost, AfterBase, AfterSeverity
  <2>6. /\ Request3(Profile)' = Request3(Profile) /\ SeverityKept(Profile)'
        /\ LabelIds(Profile)' = LabelIds(Profile)
    BY <1>1, <1>2, <2>3 DEF Request3, Request2, Request1, Put, EmptyMap, SeverityKept, NumberOf, LabelIds
  <2>7. Matches(Profile)' = Matches(Profile) /\ HasStream(Profile)' = HasStream(Profile)
    BY <2>3 DEF Matches, HasStream
  <2>8. ResultInv'
    BY <1>1, <1>2, <1>3, <1>5, <2>1, <2>3, <2>6, <2>7 DEF ResultInv
  <2>9. QED
    BY <2>2, <2>4, <2>5, <2>8 DEF SearchInv
<1>6. CASE Profile.message # "" /\ Return(FormatMessage(Profile)) /\ UNCHANGED idx
  <2>1. pc' = "done" /\ result'.kind = "match" /\ result'.message = Profile.message
    BY <1>6 DEF Return, FormatMessage
  <2>2. Matches(Profile)
    BY <1>3, <1>6 DEF Matches
  <2>3. QED
    BY <1>5, <1>6, <2>1, <2>2
<1>7. CASE Profile.message = "" /\ idx >= Len(profiles) /\ Return([kind |-> "empty line"]) /\ UNCHANGED idx
  <2>1. pc' = "done" /\ result'.kind = "empty line"
    BY <1>7 DEF Return
  <2>2. idx = Len(profiles)
    <3>1. idx <= Len(profiles) /\ idx >= Len(profiles)
      BY <1>2, <1>7
    <3>2. QED
      BY <1>4, <3>1
  <2>3. QED
    BY <1>5, <1>7, <2>1, <2>2
<1>8. CASE Profile.message = "" /\ ~(idx >= Len(profiles)) /\ NextProfile
  <2>1. PassedOver(idx)
    <3>1. idx < Len(profiles)
      <4>1. ~(idx >= Len(profiles))
        BY <1>8
      <4>2. QED
        BY <1>4, <4>1
    <3>2. QED
      BY <1>8, <3>1 DEF PassedOver, Profile
  <2>2. SearchInv' /\ idx' \in 1 .. Len(profiles) + 1
    BY <1>1, <1>8, <2>1, GoesOn
  <2>3. TypeOK'
    BY <1>1, <1>8, <2>2 DEF TypeOK, NextProfile
  <2>4. QED
    BY <2>2, <2>3
<1>9. QED
  BY <1>6, <1>7, <1>8 DEF EvalMessage

\* Every step keeps the types and the invariant of the search.
LEMMA NextInv == ASSUME TypeOK, SearchInv, [Next]_vars PROVE TypeOK' /\ SearchInv'
<1>1. CASE BeginProfile
  BY <1>1, BeginProfileInv
<1>2. CASE NoMatchingProfile
  BY <1>2, NoMatchingProfileInv
<1>3. CASE EvalRequired("service_group", "host")
  BY <1>3, EvalRequiredInv
<1>4. CASE EvalRequired("host", "logbasename")
  BY <1>4, EvalRequiredInv
<1>5. CASE EvalRequired("logbasename", "severity")
  BY <1>5, EvalRequiredInv
<1>6. CASE EvalSeverity
  BY <1>6, EvalSeverityInv
<1>7. CASE EvalLabels
  BY <1>7, EvalLabelsInv
<1>8. CASE EvalMessage
  BY <1>8, EvalMessageInv
<1>9. CASE Done \/ UNCHANGED vars
  <2>1. UNCHANGED <<profiles, number, text, given, idx, pc, ids, cfgs, result>>
    BY <1>9 DEF Done, vars
  <2>2. Profile' = Profile
    BY <2>1 DEF Profile
  <2>3. TypeOK'
    BY <2>1 DEF TypeOK
  <2>4. \A k \in 1 .. idx' - 1 : PassedOver(k)'
    BY <2>1 DEF SearchInv, PassedOver, HasStream
  <2>5. /\ Request1(Profile)' = Request1(Profile) /\ Request2(Profile)' = Request2(Profile)
        /\ Request3(Profile)' = Request3(Profile) /\ LabelIds(Profile)' = LabelIds(Profile)
        /\ Matches(Profile)' = Matches(Profile) /\ HasStream(Profile)' = HasStream(Profile)
        /\ SeverityKept(Profile)' = SeverityKept(Profile)
    BY <2>1, <2>2
    DEF Request3, Request2, Request1, Put, EmptyMap, SeverityKept, NumberOf, LabelIds, Matches, HasStream
  <2>6. ProfileInv' /\ ResultInv'
    BY <2>1, <2>2, <2>5 DEF SearchInv, ProfileInv, ResultInv, AfterGroup, AfterHost, AfterBase, AfterSeverity
  <2>7. QED
    BY <2>3, <2>4, <2>6 DEF SearchInv
<1>10. QED
  BY <1>1, <1>2, <1>3, <1>4, <1>5, <1>6, <1>7, <1>8, <1>9 DEF Next

\* The invariant of the search.
LEMMA SpecInv == Spec => [](TypeOK /\ SearchInv)
<1>1. Init => TypeOK /\ SearchInv
  BY InitInv
<1>2. (TypeOK /\ SearchInv) /\ [Next]_vars => (TypeOK /\ SearchInv)'
  BY NextInv
<1>3. QED
  BY <1>1, <1>2, PTL DEF Spec
----------------------------------------------------------------------------
(* The results.                                                            *)

\* idx stays within the profiles and one behind, the request and its labels are maps
\* from ids to values, and the severity number is one of OpenTelemetry's.
THEOREM MatchTypeCorrect == Spec => []TypeOK
BY SpecInv, PTL

\* The result is that of the first profile that matches, and an error only when there
\* is none.
THEOREM FirstProfileWins == Spec => []FirstMatchWins
<1>1. ASSUME TypeOK, SearchInv PROVE FirstMatchWins
  <2> SUFFICES ASSUME pc = "done"
               PROVE  /\ result.kind = "match" <=> Matching # {}
                      /\ result.kind = "match" => /\ idx \in Matching
                                                  /\ \A k \in Matching : idx <= k
                                                  /\ result.message = Profile.message
    BY DEF FirstMatchWins
  <2>1. /\ Len(profiles) \in Nat /\ DOMAIN profiles = 1 .. Len(profiles)
        /\ idx \in Nat /\ idx >= 1 /\ idx <= Len(profiles) + 1
    BY <1>1, ProfilesFacts
  <2>2. \A k \in 1 .. idx - 1 : k \notin Matching
    BY <1>1 DEF SearchInv, PassedOver, Matching, Matches
  <2>3. \A k \in Matching : k \in 1 .. Len(profiles) /\ idx <= k
    <3> SUFFICES ASSUME NEW k \in Matching PROVE k \in 1 .. Len(profiles) /\ idx <= k
      OBVIOUS
    <3>1. k \in 1 .. Len(profiles)
      BY <2>1 DEF Matching
    <3>2. k \notin 1 .. idx - 1
      BY <2>2
    <3>3. QED
      BY <2>1, <3>1, <3>2
  <2>4. CASE result.kind = "match"
    <3>1. idx <= Len(profiles) /\ Matches(Profile) /\ result.message = Profile.message
      BY <1>1, <2>4 DEF SearchInv, ResultInv
    <3>2. idx \in DOMAIN profiles
      BY <2>1, <3>1
    <3>3. idx \in Matching
      BY <3>1, <3>2 DEF Matching, Profile
    <3>4. QED
      BY <2>3, <2>4, <3>1, <3>3
  <2>5. CASE result.kind = "empty line"
    <3>1. idx = Len(profiles) /\ Profile.message = ""
      BY <1>1, <2>5 DEF SearchInv, ResultInv
    <3>2. idx \notin Matching
      BY <3>1 DEF Matching, Matches, Profile
    <3>3. Matching = {}
      <4> SUFFICES ASSUME NEW k \in Matching PROVE FALSE
        OBVIOUS
      <4>1. k = idx
        <5>1. k \in 1 .. Len(profiles) /\ idx <= k
          BY <2>3
        <5>2. idx = Len(profiles) /\ Len(profiles) \in Nat
          BY <2>1, <3>1
        <5>3. QED
          BY <5>1, <5>2
      <4>2. QED
        BY <3>2, <4>1
    <3>4. QED
      BY <2>5, <3>3
  <2>6. CASE result.kind = "no match"
    <3>1. idx = Len(profiles) + 1
      BY <1>1, <2>6 DEF SearchInv, ResultInv
    <3>2. Matching = {}
      <4> SUFFICES ASSUME NEW k \in Matching PROVE FALSE
        OBVIOUS
      <4>1. k \in 1 .. Len(profiles) /\ Len(profiles) + 1 <= k
        BY <2>3, <3>1
      <4>2. QED
        BY <2>1, <4>1
    <3>3. QED
      BY <2>6, <3>2
  <2>7. result.kind \in {"match", "empty line", "no match"}
    BY <1>1 DEF TypeOK, SearchInv, ResultInv
  <2>8. QED
    BY <2>4, <2>5, <2>6, <2>7
<1>2. QED
  BY <1>1, SpecInv, PTL

\* A record without a match is an empty line exactly when the last profile knows its
\* stream and finds no message in it.
THEOREM EmptyLinesClassified == Spec => []EmptyLineClassified
<1>1. ASSUME TypeOK, SearchInv, FirstMatchWins PROVE EmptyLineClassified
  <2> SUFFICES ASSUME pc = "done", Matching = {}
               PROVE  result.kind = "empty line" <=>
                        Len(profiles) > 0 /\ HasStream(profiles[Len(profiles)])
    BY DEF EmptyLineClassified
  <2>1. /\ Len(profiles) \in Nat /\ idx \in Nat /\ idx >= 1
    BY <1>1, ProfilesFacts
  <2>2. CASE result.kind = "empty line"
    <3>1. idx = Len(profiles) /\ HasStream(Profile)
      BY <1>1, <2>2 DEF SearchInv, ResultInv
    <3>2. Len(profiles) > 0
      BY <2>1, <3>1
    <3>3. QED
      BY <2>2, <3>1, <3>2 DEF Profile
  <2>3. CASE result.kind = "no match"
    <3>1. idx = Len(profiles) + 1
      BY <1>1, <2>3 DEF SearchInv, ResultInv
    <3> DEFINE k == Len(profiles)
    <3>2. ASSUME k > 0, HasStream(profiles[k]) PROVE FALSE
      <4>1. k \in 1 .. idx - 1
        BY <2>1, <3>1, <3>2
      <4>2. k < Len(profiles)
        BY <1>1, <3>2, <4>1 DEF SearchInv, PassedOver
      <4>3. QED
        BY <2>1, <4>2
    <3>3. QED
      BY <2>3, <3>2
  <2>4. result.kind \in {"empty line", "no match"}
    BY <1>1 DEF TypeOK, SearchInv, ResultInv, FirstMatchWins
  <2>5. QED
    BY <2>2, <2>3, <2>4
<1>2. QED
  BY <1>1, SpecInv, FirstProfileWins, PTL

\* The request of a match is made of the matching profile alone, the last of its
\* elements with an id giving that id its value.
THEOREM RequestOfMatchingProfile == Spec => []RequestOfMatch
<1>1. ASSUME TypeOK, SearchInv PROVE RequestOfMatch
  <2> SUFFICES ASSUME result.kind = "match"
               PROVE  /\ DOMAIN ids = {Profile[Required[n]].id : n \in 1..3}
                      /\ \A n \in 1..3 :
                           \/ ids[Profile[Required[n]].id] = Profile[Required[n]].value
                           \/ \E later \in n + 1 .. 3 : Profile[Required[later]].id = Profile[Required[n]].id
                      /\ DOMAIN cfgs = {Profile.labels[k].id : k \in DOMAIN Profile.labels}
    BY DEF RequestOfMatch
  <2>1. ids = Request3(Profile) /\ DOMAIN cfgs = LabelIds(Profile)
    BY <1>1 DEF SearchInv, ResultInv
  <2> DEFINE a == Profile["service_group"]
             b == Profile["host"]
             c == Profile["logbasename"]
  <2>2. Required[1] = "service_group" /\ Required[2] = "host" /\ Required[3] = "logbasename"
    BY DEF Required
  <2>3. 1..3 = {1, 2, 3} /\ 2 \in 1 + 1 .. 3 /\ 3 \in 1 + 1 .. 3 /\ 3 \in 2 + 1 .. 3
    OBVIOUS
  <2>4. DOMAIN ids = {a.id, b.id, c.id}
    BY <2>1 DEF Request3, Request2, Request1, Put, EmptyMap
  <2>5. ids[c.id] = c.value
    BY <2>1 DEF Request3, Put
  <2>6. ids[b.id] = b.value \/ c.id = b.id
    BY <2>1 DEF Request3, Request2, Put
  <2>7. ids[a.id] = a.value \/ b.id = a.id \/ c.id = a.id
    BY <2>1 DEF Request3, Request2, Request1, Put
  <2> HIDE DEF a, b, c
  <2>8. /\ Profile[Required[1]] = a /\ Profile[Required[2]] = b /\ Profile[Required[3]] = c
    BY <2>2 DEF a, b, c
  <2>9. DOMAIN ids = {Profile[Required[n]].id : n \in 1..3}
    BY <2>3, <2>4, <2>8
  <2>10. ASSUME NEW n \in 1..3
         PROVE  \/ ids[Profile[Required[n]].id] = Profile[Required[n]].value
                \/ \E later \in n + 1 .. 3 : Profile[Required[later]].id = Profile[Required[n]].id
    <3>1. CASE n = 1
      BY <2>3, <2>7, <2>8, <3>1
    <3>2. CASE n = 2
      BY <2>3, <2>6, <2>8, <3>2
    <3>3. CASE n = 3
      BY <2>5, <2>8, <3>3
    <3>4. QED
      BY <2>3, <3>1, <3>2, <3>3
  <2>11. QED
    BY <2>1, <2>9, <2>10 DEF LabelIds
<1>2. QED
  BY <1>1, SpecInv, PTL

\* When the matching profile has a severity, the record gets its number.
THEOREM SeverityOfMatchingProfile == Spec => []SeverityOfProfile
<1>1. ASSUME TypeOK, SearchInv PROVE SeverityOfProfile
  BY <1>1 DEF SeverityOfProfile, SearchInv, ResultInv, SeverityKept
<1>2. QED
  BY <1>1, SpecInv, PTL
============================================================================
