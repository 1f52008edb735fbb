-------------------------- MODULE MCSharedInformer --------------------------
(* Instances of SharedInformer for TLC: two objects in two namespaces.      *)
EXTENDS SharedInformer

CONSTANTS k1, k2, n1, n2

TwoNamespaces == [k \in {k1, k2} |-> IF k = k1 THEN n1 ELSE n2]
=============================================================================
