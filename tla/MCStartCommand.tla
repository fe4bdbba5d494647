---------------------------- MODULE MCStartCommand ----------------------------
(* StartCommand for TLC: the manifests of four services with at most four    *)
(* local dependencies in all, or with five that link two pairs of services   *)
(* depending on each other.                                                  *)
EXTENDS StartCommand

Edges(d) == {<<s, t>> \in Services \X Services : t \in d[s]}

MCManifests ==
    {d \in [Services -> SUBSET Services] :
        /\ \A s \in Services : s \notin d[s]
        /\ \/ Cardinality(Edges(d)) <= 4
           \/ /\ Cardinality(Edges(d)) = 5
              /\ \A s \in Services : \E t \in d[s] : s \in d[t]}

(* Any one or all of the services, two in the wrong order, one of them       *)
(* twice, and one that does not exist.                                       *)
MCCommandLines ==
    {<<s>> : s \in Services} \cup {<<2, 1>>, <<4, 2>>, <<3, 4, 1>>, <<1, 2, 1>>, <<2, 5>>}
===============================================================================
