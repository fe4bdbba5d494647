-------------------------------- MODULE Orders --------------------------------
(* The order in which things are taken: sort.Strings over names, and loops    *)
(* over a list that skip some of it.                                          *)
EXTENDS Integers, FiniteSets

(* The elements of a set, the first of them first.                            *)
Sorted(names) ==
    CHOOSE q \in [1 .. Cardinality(names) -> names] :
        \A i, j \in DOMAIN q : i < j => q[i] < q[j]
===============================================================================
