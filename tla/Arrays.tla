------------------------------- MODULE Arrays -------------------------------
(***************************************************************************)
(* External: Array.filter and Array.sort of JavaScript, as the client uses *)
(* them on the places of a sequence.                                       *)
(***************************************************************************)
EXTENDS Naturals, Sequences, FiniteSets

\* The elements of s at the places P, in the strict total order R of these places.
InOrder(s, P, R) ==
    [k \in 1..Cardinality(P) |->
        s[CHOOSE i \in P : Cardinality({j \in P : <<j, i>> \in R}) = k - 1]]

\* Array.filter: the elements at the places P, in their order.
KeptAt(s, P) == InOrder(s, P, {r \in P \X P : r[1] < r[2]})

\* Array.sort by a number that each place has, which is stable.
SortedBy(s, key) ==
    InOrder(s, DOMAIN s, {r \in (DOMAIN s) \X (DOMAIN s) :
        key[r[1]] < key[r[2]] \/ (key[r[1]] = key[r[2]] /\ r[1] < r[2])})
=============================================================================
