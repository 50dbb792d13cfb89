------------------------------ MODULE Numbering ------------------------------
(***************************************************************************)
(* Sets of messages as lists: IMAP numbers the messages of a folder in the *)
(* order of their UIDs.                                                    *)
(***************************************************************************)
EXTENDS Integers, FiniteSets, Functions

\* S as a sequence, in every order and in the order of different keys.
Arrangements(S) == {f \in [1 .. Cardinality(S) -> S] : IsInjective(f)}
Ascending(S, key) ==
  [n \in 1 .. Cardinality(S) |-> CHOOSE x \in S : Cardinality({y \in S : key[y] <= key[x]}) = n]
=============================================================================
