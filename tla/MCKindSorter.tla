---------------------------- MODULE MCKindSorter ----------------------------
(* An instance of KindSorter for TLC: the kind each order begins with, two  *)
(* known kinds that the orders rank alike and one that they rank in reverse, *)
(* and two custom kinds.                                                    *)
EXTENDS KindSorter

SomeKinds == {"Namespace", "Secret", "Service", "APIService", "Gateway", "Policy"}

Alphabetical ==
    [k \in SomeKinds |-> CASE k = "APIService" -> 0
                           [] k = "Gateway"    -> 1
                           [] k = "Namespace"  -> 2
                           [] k = "Policy"     -> 3
                           [] k = "Secret"     -> 4
                           [] k = "Service"    -> 5]
=============================================================================
