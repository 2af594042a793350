--------------------------- MODULE MCSplitLogs ---------------------------
(* Every resource entry of up to three scopes with up to MaxRecords        *)
(* records each, split at every size up to MaxSize.                        *)
EXTENDS SplitLogs

CONSTANTS MaxRecords, MaxSize

\* The j-th record of the i-th scope is the pair <<i, j>>.
EntryOf(lens) == [i \in DOMAIN lens |->
                    [scope |-> i, records |-> [j \in 1..lens[i] |-> <<i, j>>]]]

MCScope == 1..3
MCLogRecord == (1..3) \X (1..MaxRecords)
MCInputs == {EntryOf(lens) : lens \in UNION {[1..n -> 0..MaxRecords] : n \in 0..3}}
MCSizes == 1..MaxSize
==========================================================================
