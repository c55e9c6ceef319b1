---------------------------- MODULE Enumeration ----------------------------
(***************************************************************************)
(* Finite sets of numbers read in their order, and the elements of a       *)
(* sequence that are in a set: what the code writes as sorted(...) and as  *)
(* [x for x in xs if ...].  Each place is described by how much comes      *)
(* before it, not computed from the place before.                          *)
(***************************************************************************)
EXTENDS Integers, Sequences, FiniteSets

\* The numbers of a finite set in their order: the k-th has k - 1 below it.
Ascending(S) ==
    [k \in 1..Cardinality(S) |->
        CHOOSE x \in S : Cardinality({y \in S : y < x}) = k - 1]

\* The elements of s at a set of positions, and those in a set, in the order of s.
At(s, positions) == [k \in 1..Cardinality(positions) |-> s[Ascending(positions)[k]]]

Within(s, S) == At(s, {i \in DOMAIN s : s[i] \in S})
=============================================================================
