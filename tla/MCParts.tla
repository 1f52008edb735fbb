------------------------------ MODULE MCParts -------------------------------
(* The parts of which only safety is checked, one at a time: the worker loop *)
(* by itself, and what keeps no state from one call to the next, which are   *)
(* the manifest lookup, the kind sorter, the deep copies and the access to   *)
(* the target of an instance.                                                *)
(*                                                                           *)
(* The sorter is given the kind each order begins with, two known kinds that *)
(* the orders rank alike and one that they rank in reverse, and two custom   *)
(* kinds; the lookup one addon with every version and tag in two namespaces, *)
(* of which one has ConfigMaps and the other charts, and another addon.      *)
EXTENDS MCControllerLoop, ManifestLookup, MCKindSorter, DeepCopy, TargetAccess

CONSTANTS garden, team

SomeManifests ==
    {[ns |-> s, base |-> "nginx", num |-> v, tag |-> t,
      configMap |-> s = garden, configMapHelm |-> s = team] :
        s \in Namespaces, v \in Numbers, t \in Tags}
      \cup {[ns |-> garden, base |-> "istio", num |-> 1, tag |-> "release",
             configMap |-> FALSE, configMapHelm |-> FALSE]}

VARIABLE part   \* the one that runs

\* What the variables of the others are.
NoLookup == /\ cluster = {} /\ name = "" /\ stage = "noManifest" /\ list = <<>> /\ n = 1
            /\ range = None /\ version = None /\ manifest = None /\ ref = None
NoSort == order = InstallOrder /\ objects = <<>> /\ i = 2 /\ j = 2
NoCopy == /\ type = "AddonManifest" /\ phase = "call" /\ shared = {} /\ todo = {}
          /\ source = [p \in Parts[type] |-> "nil"] /\ copy = source
NoTarget == TargetInit

Init ==
    \/ part = "lookup" /\ LookupInit /\ NoSort /\ NoCopy /\ NoTarget /\ LoopInit
    \/ part = "sort" /\ NoLookup /\ SorterInit /\ NoCopy /\ NoTarget /\ LoopInit
    \/ part = "copy" /\ NoLookup /\ NoSort /\ CopyInit /\ NoTarget /\ LoopInit
    \/ part = "target" /\ NoLookup /\ NoSort /\ NoCopy /\ TargetInit /\ LoopInit
    \/ part = "loop" /\ NoLookup /\ NoSort /\ NoCopy /\ NoTarget /\ LoopInit

Next ==
    \/ /\ part = "lookup" /\ LookupNext
       /\ UNCHANGED <<part, sorterVars, copyVars, targetVars, loopVars>>
    \/ /\ part = "sort" /\ SorterNext
       /\ UNCHANGED <<part, lookupVars, copyVars, targetVars, loopVars>>
    \/ /\ part = "copy" /\ CopyNext
       /\ UNCHANGED <<part, lookupVars, sorterVars, targetVars, loopVars>>
    \/ /\ part = "target" /\ TargetNext
       /\ UNCHANGED <<part, lookupVars, sorterVars, copyVars, loopVars>>
    \/ /\ part = "loop" /\ LoopNext
       /\ UNCHANGED <<part, lookupVars, sorterVars, copyVars, targetVars>>

vars == <<part, lookupVars, sorterVars, copyVars, targetVars, loopVars>>

Spec == Init /\ [][Next]_vars 
=============================================================================
