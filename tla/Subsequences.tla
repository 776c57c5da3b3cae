---------------------------- MODULE Subsequences ----------------------------
(***************************************************************************)
(* The elements of a sequence at some of its positions, in their order:    *)
(* what Array.filter leaves of an array.  Without recursion, so that it    *)
(* can be reasoned about.                                                  *)
(***************************************************************************)
EXTENDS Naturals, FiniteSets

(* How many of the places come up to i. *)
Rank(places, i) == Cardinality({j \in places : j <= i})

Nth(places, k) == CHOOSE i \in places : Rank(places, i) = k

Selected(s, places) == [k \in 1..Cardinality(places) |-> s[Nth(places, k)]]
=============================================================================
