--------------------------- MODULE AddonLifecycle ---------------------------
(***************************************************************************)
(* What Bouquet promises of an AddonInstance, without queue, cache, worker *)
(* or call: its objects are installed while it exists, those that are its  *)
(* own are removed only once it is being deleted, and are all gone before  *)
(* it is.                                                                  *)
(***************************************************************************)
CONSTANTS Instances,
          Owned       \* the objects each instance renders to

VARIABLES phase,      \* of each instance: absent, live or deleting
          installed   \* objects in the target cluster

vars == <<phase, installed>>

Existing == {i \in Instances : phase[i] # "absent"}

\* The objects of an instance that belong to no other one.
OwnedAlone(i) ==
    {o \in Owned[i] : \A j \in Instances \ {i} : o \notin Owned[j]}

TypeOK ==
    /\ phase \in [Instances -> {"absent", "live", "deleting"}]
    /\ installed \subseteq UNION {Owned[i] : i \in Instances}

Init ==
    /\ phase = [i \in Instances |-> "absent"]
    /\ installed = {}

Create(i) ==
    /\ phase[i] = "absent"
    /\ phase' = [phase EXCEPT ![i] = "live"]
    /\ UNCHANGED installed

Delete(i) ==
    /\ phase[i] = "live"
    /\ phase' = [phase EXCEPT ![i] = "deleting"]
    /\ UNCHANGED installed

\* A worker that has not yet seen the deletion may still install.
Put(i, o) ==
    /\ i \in Existing /\ o \in Owned[i]
    /\ installed' = installed \cup {o}
    /\ UNCHANGED phase

\* Several objects may go at once, as a Namespace takes along what it contains.
\* What an instance shares with others may go with any of them.
Remove(S) ==
    /\ S \subseteq installed
    /\ \A i \in Instances : S \cap OwnedAlone(i) # {} => phase[i] = "deleting"
    /\ installed' = installed \ S
    /\ UNCHANGED phase

\* What is left of an instance that goes belongs to another one as well.
Finish(i) ==
    /\ phase[i] = "deleting"
    /\ phase' = [phase EXCEPT ![i] = "absent"]
    /\ installed \cap Owned[i] \subseteq
         UNION {Owned[j] : j \in Existing \ {i}}
    /\ UNCHANGED installed

Next ==
    \/ \E i \in Instances :
         \/ Create(i) \/ Delete(i) \/ Finish(i)
         \/ \E o \in Owned[i] : Put(i, o)
    \/ \E S \in SUBSET installed : Remove(S)

Spec == Init /\ [][Next]_vars

\* Nothing is left behind by an instance that is gone.
NothingLeftBehind == installed \subseteq UNION {Owned[i] : i \in Existing}
=============================================================================
