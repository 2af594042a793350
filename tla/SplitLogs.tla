----------------------------- MODULE SplitLogs -----------------------------
(***************************************************************************)
(* splitLogs of splitlogs.go on a resource entry of any shape: its two     *)
(* nested RemoveIf callbacks, one step for each call.  (BatchLogs needs it *)
(* on the one-scope groups of addToBatch only: SplitOff and SplitRest.)    *)
(*                                                                         *)
(* A resource entry is a sequence of scopes, [scope, records].  RemoveIf   *)
(* (external: pdata) calls its predicate on every element in order, keeps  *)
(* those for which it is false, in order, and drops the others.            *)
(***************************************************************************)
EXTENDS Naturals, Sequences, SequencesExt

CONSTANTS Scope, LogRecord,   \* the instrumentation scopes, the log records
          Inputs,             \* the resource entries to split
          Sizes               \* the sizes to split them at

ScopeLogs == [scope : Scope, records : Seq(LogRecord)]

ASSUME SplitAssumption == /\ Sizes \subseteq Nat \ {0}
                          /\ \A rl \in Inputs : rl \in Seq(ScopeLogs)

VARIABLES
  srcRl, size,   \* the parameters (srcRl as the caller passed it)
  scopes,        \* the scopes RemoveIf has not reached yet
  records,       \* the records of the scope being moved not reached yet
  kept,          \* the scopes that stay in srcRl
  keptRecords,   \* the records that stay in the scope being moved
  destRl,        \* the scopes of the new entry
  copied,        \* totalCopiedLogRecords
  pc             \* "source" when srcRl was returned, "return" when destRl was

vars == <<srcRl, size, scopes, records, kept, keptRecords, destRl, copied, pc>>

\* The records of an entry, counted scope by scope.
resourceLRC(rl) ==
  LET count[k \in 0 .. Len(rl)] == IF k = 0 THEN 0 ELSE count[k - 1] + Len(rl[k].records)
  IN  count[Len(rl)]

Init ==
  /\ srcRl \in Inputs
  /\ size \in Sizes
  /\ scopes = srcRl
  /\ records = <<>>
  /\ kept = <<>>
  /\ keptRecords = <<>>
  /\ destRl = <<>>
  /\ copied = 0
  /\ pc = "call"

\* An entry that is short enough is returned itself: no record leaves it, and the
\* result and the source are one object from here on.
ReturnSource ==
  /\ pc = "call"
  /\ resourceLRC(srcRl) <= size
  /\ pc' = "source"
  /\ UNCHANGED <<srcRl, size, scopes, records, kept, keptRecords, destRl, copied>>

Split ==
  /\ pc = "call"
  /\ resourceLRC(srcRl) > size
  /\ pc' = "scope"
  /\ UNCHANGED <<srcRl, size, scopes, records, kept, keptRecords, destRl, copied>>

\* The scope is left where it is: the result is complete.
Done == copied = size

NextScope ==
  /\ pc = "scope"
  /\ scopes # <<>>
  /\ scopes' = Tail(scopes)

KeepScope ==
  /\ NextScope
  /\ Done
  /\ kept' = Append(kept, Head(scopes))
  /\ UNCHANGED <<srcRl, size, records, keptRecords, destRl, copied, pc>>

FitsWithRoom(scope) == size > Len(scope.records) + copied    \* mutant
Fits(scope) == size >= Len(scope.records) + copied

\* Mutant: totalCopiedLogRecords misses the scope.
MoveScopeUncounted ==
  /\ NextScope
  /\ ~Done
  /\ Fits(Head(scopes))
  /\ destRl' = Append(destRl, Head(scopes))
  /\ UNCHANGED <<srcRl, size, records, kept, keptRecords, copied, pc>>

\* The scope moves as a whole.
MoveScope ==
  /\ NextScope
  /\ ~Done
  /\ Fits(Head(scopes))
  /\ copied' = copied + Len(Head(scopes).records)
  /\ destRl' = Append(destRl, Head(scopes))
  /\ UNCHANGED <<srcRl, size, records, kept, keptRecords, pc>>

\* The scope is cut: a copy of it opens in the result, its records are visited
\* one by one, and it stays in the source with those that do not move.
CutScope ==
  /\ NextScope
  /\ ~Done
  /\ ~Fits(Head(scopes))
  /\ destRl' = Append(destRl, [Head(scopes) EXCEPT !.records = <<>>])
  /\ kept' = Append(kept, [Head(scopes) EXCEPT !.records = <<>>])
  /\ records' = Head(scopes).records
  /\ keptRecords' = <<>>
  /\ pc' = "record"
  /\ UNCHANGED <<srcRl, size, copied>>

NextRecord ==
  /\ pc = "record"
  /\ records # <<>>
  /\ records' = Tail(records)

MoveRecord ==
  /\ NextRecord
  /\ ~Done
  /\ destRl' = [destRl EXCEPT ![Len(destRl)].records = Append(@, Head(records))]
  /\ copied' = copied + 1
  /\ UNCHANGED <<srcRl, size, scopes, kept, keptRecords, pc>>

\* Mutant: true in place of false once the result is complete.
KeepRecordRemoves ==
  /\ NextRecord
  /\ Done
  /\ UNCHANGED <<srcRl, size, scopes, kept, keptRecords, destRl, copied, pc>>

KeepRecord ==
  /\ NextRecord
  /\ Done
  /\ keptRecords' = Append(keptRecords, Head(records))
  /\ UNCHANGED <<srcRl, size, scopes, kept, destRl, copied, pc>>

ScopeIsCut ==
  /\ pc = "record"
  /\ records = <<>>
  /\ kept' = [kept EXCEPT ![Len(kept)].records = keptRecords]
  /\ pc' = "scope"
  /\ UNCHANGED <<srcRl, size, scopes, records, keptRecords, destRl, copied>>

Return ==
  /\ pc = "scope"
  /\ scopes = <<>>
  /\ pc' = "return"
  /\ UNCHANGED <<srcRl, size, scopes, records, kept, keptRecords, destRl, copied>>

Terminated == pc \in {"source", "return"} /\ UNCHANGED vars

Next == \/ ReturnSource \/ Split
        \/ KeepScope \/ MoveScope \/ CutScope
        \/ MoveRecord \/ KeepRecord \/ ScopeIsCut
        \/ Return \/ Terminated

Spec == Init /\ [][Next]_vars
----------------------------------------------------------------------------
(* Properties.                                                             *)

\* A resource entry as its records in order, each with its scope.
Flat(rl) ==
  FlattenSeq([i \in DOMAIN rl |-> [j \in DOMAIN rl[i].records |-> <<rl[i].scope, rl[i].records[j]>>]])

Min2(a, b) == IF a < b THEN a ELSE b

\* After the return: what the source holds, and what the caller got, which is the source
\* when no record had to leave it.
Remaining == kept \o scopes
Result == IF pc = "source" THEN Remaining ELSE destRl

\* The result is the first `size' records, or all of them when there are no more, in
\* their order and under the scopes they came with.  The source is left with the
\* others; a source that is short enough keeps every record, so that a caller that
\* splits until nothing is left never ends (splitlogs.go:21-25; the last split of
\* splitlogs_test.go:80-82 finds five records in the result and five in the source).
SplitsAtSize ==
  pc \in {"source", "return"} =>
    LET all == Flat(srcRl)
        n   == Min2(size, resourceLRC(srcRl))
    IN  /\ Flat(Result) = SubSeq(all, 1, n)
        /\ Flat(Remaining) = IF resourceLRC(srcRl) <= size THEN all ELSE SubSeq(all, n + 1, Len(all))

\* At every callback nothing is lost and nothing is in two places: what moved to the
\* new entry, what was kept and what is still to be visited are the source.  When the
\* source is returned itself nothing has moved.
NothingLost ==
  LET cut == IF pc = "record"
             THEN <<[kept[Len(kept)] EXCEPT !.records = keptRecords \o records]>>
             ELSE <<>>
  IN  /\ Flat(destRl \o kept \o cut \o scopes) = Flat(srcRl)
      /\ copied = Len(Flat(destRl)) /\ copied <= size

\* A cut leaves records behind: the source never keeps a scope that the split
\* emptied, so that a later split cannot deliver an empty scope again.
NoEmptiedScope ==
  pc = "return" =>
    \A i \in DOMAIN kept : kept[i].records = <<>> =>
      \E j \in DOMAIN srcRl : srcRl[j] = kept[i]
============================================================================
