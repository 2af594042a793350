--------------------------- MODULE Subsequences ----------------------------
(***************************************************************************)
(* A sequence with some of its elements left out.  SelectSeq would do, but *)
(* what is left is written as a join here, about which there are theorems  *)
(* (module RecursionTheorems).                                             *)
(***************************************************************************)
EXTENDS Sequences, SequencesExt

\* s without its elements in X, the others in their order.
Without(s, X) == FlattenSeq([i \in DOMAIN s |-> IF s[i] \in X THEN <<>> ELSE <<s[i]>>])
============================================================================
