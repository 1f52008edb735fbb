------------------------ MODULE MCInstanceController ------------------------
(* Instances of InstanceController for TLC.                                *)
EXTENDS InstanceController, TLC

CONSTANTS i1, i2,          \* instances
          ns, cm, crd, cr, \* a Namespace, a ConfigMap in it, a CRD, a custom
                           \* object of its kind
          full, part       \* what a manifest renders to

\* What a budget does not name does not happen.
Nothing == [d \in Disturbances |-> 0]
OneOf(S) == [d \in Disturbances |-> CASE d = "any" -> Cardinality(S)
                                      [] d \in S -> 1
                                      [] OTHER -> 0]

\* A manifest that goes away and may come back, with a lost reply.
Away == [OneOf({"reply"}) EXCEPT !["vanish"] = 2, !["any"] = 3]

Undisturbed == {Nothing}
UpdateOnce == {OneOf({"update"})}
EditOnce == {OneOf({"edit"})}
FaultBudgets == {[OneOf({"call", "reply", "update", "restart", "relist"})
                    EXCEPT !["any"] = 3]}
LiveBudgets == {OneOf({"call", "reply", "restart", "edit"}), Away}

InstallPlain == [c \in Contents |-> IF c = full THEN <<ns, cm>> ELSE <<cm>>]
UninstallPlain == [c \in Contents |-> IF c = full THEN <<cm, ns>> ELSE <<cm>>]

AllFull == [i \in Keys |-> full]
AllPart == [i \in Keys |-> part]
FullAndPart == [i \in Keys |-> IF i = i1 THEN full ELSE part]

\* A Namespace to which an edit adds a ConfigMap.
InstallNs == [c \in Contents |-> IF c = full THEN <<ns, cm>> ELSE <<ns>>]
UninstallNs == [c \in Contents |-> IF c = full THEN <<cm, ns>> ELSE <<ns>>]

InstallCrd == [c \in Contents |-> IF c = full THEN <<crd, cr>> ELSE <<crd>>]

Uncontained == [o \in Objects |-> None]
Contained == [o \in Objects |-> CASE o = cm -> ns
                                  [] o = cr -> crd
                                  [] OTHER -> None]

Symmetry == Permutations(Workers)
=============================================================================
