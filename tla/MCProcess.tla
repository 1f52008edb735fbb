----------------------------- MODULE MCProcess ------------------------------
(* Instances of Process for TLC: a kind listed at /api and that of a CRD,    *)
(* listed at /apis; the API server has all resources, or no Shoots, or       *)
(* nothing but Shoots.                                                       *)
EXTENDS Process

CONSTANTS core, crd, coreGroup, crdGroup, w1

TwoGroups == [k \in {core, crd} |-> IF k = core THEN coreGroup ELSE crdGroup]
WithAndWithout == {Types, Types \ {"Shoot"}, {"Shoot"}}
=============================================================================
