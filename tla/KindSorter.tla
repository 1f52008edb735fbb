----------------------------- MODULE KindSorter -----------------------------
(***************************************************************************)
(* kind_sorter.go: the order in which the objects of an addon are created  *)
(* (InstallOrder) and deleted (UninstallOrder).  The comparison Less is    *)
(* handed to Go's sort.Sort, which for up to MaxObjects objects is an      *)
(* insertion sort over Less and Swap; it is a state machine here because   *)
(* what it returns for a Less that is no order depends on its steps.       *)
(*                                                                         *)
(* ParseMappedFileContents collects the objects from a Go map, so they     *)
(* arrive in any order.                                                    *)
(***************************************************************************)
EXTENDS Naturals, Sequences, FiniteSets

CONSTANTS Kinds,      \* the kinds of the objects, known to the orders or not
          KindRank,   \* the place of each kind in the alphabet
          Names,      \* names of objects, numbered in alphabetical order
          MaxObjects  \* bound on the objects; up to 6 the sort is as below

ASSUME SorterAssumption ==
    /\ KindRank \in [Kinds -> Nat]
    /\ \A k, l \in Kinds : KindRank[k] = KindRank[l] => k = l
    /\ Names \subseteq Nat
    /\ MaxObjects \in Nat

InstallOrder ==
    <<"Namespace", "ResourceQuota", "LimitRange", "Secret", "ConfigMap",
      "StorageClass", "PersistentVolume", "PersistentVolumeClaim",
      "ServiceAccount", "CustomResourceDefinition", "ClusterRole",
      "ClusterRoleBinding", "Role", "RoleBinding", "Service", "DaemonSet",
      "Pod", "ReplicationController", "ReplicaSet", "Deployment",
      "StatefulSet", "Job", "CronJob", "Ingress", "APIService">>

UninstallOrder ==
    <<"APIService", "Ingress", "Service", "CronJob", "Job", "StatefulSet",
      "Deployment", "ReplicaSet", "ReplicationController", "Pod",
      "DaemonSet", "RoleBinding", "Role", "ClusterRoleBinding",
      "ClusterRole", "CustomResourceDefinition", "ServiceAccount",
      "PersistentVolumeClaim", "PersistentVolume", "StorageClass",
      "ConfigMap", "Secret", "LimitRange", "ResourceQuota", "Namespace">>

Object == [kind : Kinds, name : Names]

VARIABLES order,    \* the SortOrder the sorter was made with
          objects,  \* the slice that is being sorted
          i, j      \* the indices of the two loops; i = Len(objects) + 1: done

sorterVars == <<order, objects, i, j>>

IsKnown(ord, k) == \E n \in DOMAIN ord : ord[n] = k

\* ordering[kind], which for a missing kind is Go's zero value.
Ordering(ord, k) ==
    IF IsKnown(ord, k) THEN (CHOOSE n \in DOMAIN ord : ord[n] = k) - 1 ELSE 0

\* Mutant: without the lines that put a missing kind last.
LessByIndex(ord, a, b) ==
    LET first == Ordering(ord, a.kind)
        second == Ordering(ord, b.kind)
    IN  IF first = second THEN a.name < b.name ELSE first < second

\* The objects a and b stand for those at two indices of the slice.
Less(ord, a, b) ==
    LET first == Ordering(ord, a.kind)
        second == Ordering(ord, b.kind)
        aok == IsKnown(ord, a.kind)
        bok == IsKnown(ord, b.kind)
    IN  IF first = second
          THEN IF ~aok /\ ~bok /\ a.kind # b.kind
                 THEN KindRank[a.kind] < KindRank[b.kind]
                 ELSE a.name < b.name
          ELSE aok /\ (bok => first < second)

\* The slice with two of its objects exchanged.
Swap(s, m, n) == [s EXCEPT ![m] = s[n], ![n] = s[m]]

-----------------------------------------------------------------------------

Slices == UNION {[1 .. n -> Object] : n \in 0 .. MaxObjects}

SorterInit ==
    /\ order \in {InstallOrder, UninstallOrder}
    /\ objects \in Slices
    /\ i = 2 /\ j = 2

Running == i <= Len(objects)

\* The inner loop moves an object to the front while it is less.
MoveForward ==
    /\ Running /\ j > 1 /\ Less(order, objects[j], objects[j - 1])
    /\ objects' = Swap(objects, j, j - 1)
    /\ j' = j - 1
    /\ UNCHANGED <<order, i>>

\* Mutant: the inner loop starts at the length and not at the index.
NextElementTooFar ==
    /\ Running /\ (j > 1 => ~Less(order, objects[j], objects[j - 1]))
    /\ i' = i + 1 /\ j' = Len(objects) + 1
    /\ UNCHANGED <<order, objects>>

NextElement ==
    /\ Running /\ (j > 1 => ~Less(order, objects[j], objects[j - 1]))
    /\ i' = i + 1 /\ j' = i + 1
    /\ UNCHANGED <<order, objects>>

SorterNext == MoveForward \/ NextElement

SorterSpec == SorterInit /\ [][SorterNext]_sorterVars

-----------------------------------------------------------------------------
(* Properties.                                                             *)

SorterTypeOK ==
    /\ order \in {InstallOrder, UninstallOrder}
    /\ objects \in Seq(Object)
    /\ i \in Nat /\ j \in 1 .. i

Sorted == ~Running

\* A missing kind has the index of the first kind of the order.  Objects among
\* which only one of the two occurs can be compared consistently.
IsTame(ord, S) ==
    \/ \A a \in S : IsKnown(ord, a.kind)
    \/ \A a \in S : a.kind # ord[1]

Elements == {objects[n] : n \in DOMAIN objects}

\* The order Helm documents (tiller/kind_sorter.go: "Results are sorted by
\* 'ordering'", "unknown kind is last"): known kinds by their place in the
\* order and each by name, then the unknown ones by kind and name.
Group(ord, o) == IF IsKnown(ord, o.kind) THEN 0 ELSE 1

Place(ord, o) == IF IsKnown(ord, o.kind) THEN Ordering(ord, o.kind)
                                         ELSE KindRank[o.kind]

Precedes(ord, a, b) ==
    \/ Group(ord, a) < Group(ord, b)
    \/ /\ Group(ord, a) = Group(ord, b)
       /\ \/ Place(ord, a) < Place(ord, b)
          \/ Place(ord, a) = Place(ord, b) /\ a.name < b.name

\* Whatever order a Go map yields the objects in, they are installed and
\* deleted in the documented order, as long as no kind is missing from the
\* order or none is its first kind.
SortedWhenTame ==
    Sorted /\ IsTame(order, Elements) =>
      \A m, n \in DOMAIN objects :
        m < n => ~Precedes(order, objects[n], objects[m])

\* The kinds of the order come in its order, whatever else the addon has
\* (tiller/kind_sorter.go: "Results are sorted by 'ordering'").
KnownInOrder ==
    Sorted =>
      \A m, n \in DOMAIN objects :
        /\ m < n
        /\ IsKnown(order, objects[m].kind) /\ IsKnown(order, objects[n].kind)
        => Ordering(order, objects[m].kind) <= Ordering(order, objects[n].kind)
=============================================================================
