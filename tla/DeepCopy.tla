------------------------------ MODULE DeepCopy ------------------------------
(***************************************************************************)
(* DeepCopy of the API types, half of it generated and half written by     *)
(* hand in types.go.  What a lister returns is shared by all its readers,  *)
(* so whoever wants to change an object needs a copy that shares no map    *)
(* and no slice with it.  An object is a tree of parts here, each of them  *)
(* a map or a slice: a copy begins with the references of the original and *)
(* is given parts of its own one by one.                                   *)
(***************************************************************************)
EXTENDS Naturals, Sequences, SequencesExt

VARIABLES type,     \* the type of the object
          source,   \* the content of each part of the original
          copy,     \* the content of each part of the copy
          shared,   \* the parts of the copy that are those of the original
          todo,     \* the parts DeepCopyInto has still to copy
          phase     \* "call", "copying", "returned" or "used"

copyVars == <<type, source, copy, shared, todo, phase>>

Under(p, S) == {p \o q : q \in S}

\* The maps and slices of the types.  values stands for any JSON, with another
\* map in it, objects for a slice of such; metadata for labels and the like.
JSON == {<<>>, <<"nested">>}
ManifestParts == {<<"metadata">>, <<"dependencies">>} \cup Under(<<"values">>, JSON)
InstanceParts == {<<"metadata">>} \cup Under(<<"values">>, JSON) \cup Under(<<"objects">>, JSON)
ListParts(S) == {<<"items">>} \cup Under(<<"items">>, S)

Parts == [AddonManifest |-> ManifestParts, AddonManifestList |-> ListParts(ManifestParts),
          AddonInstance |-> InstanceParts, AddonInstanceList |-> ListParts(InstanceParts)]

\* A part only exists in one that holds data.
Shape(f) == \A p \in DOMAIN f : f[p] # "nil" =>
               \A q \in DOMAIN f : IsStrictPrefix(q, p) => f[q] = "data"

CopyInit ==
    /\ type \in DOMAIN Parts
    /\ source \in {f \in [Parts[type] -> {"nil", "empty", "data"}] : Shape(f)}
    /\ copy = [p \in Parts[type] |-> "nil"]
    /\ shared = {} /\ todo = {} /\ phase = "call"

-----------------------------------------------------------------------------
(* What each DeepCopyInto copies.                                          *)

\* DeepCopyJSON.
CopiesOfJSON == {<<>>, <<"nested">>}

\* Mutant: the entries of Values are copied like those of Dependencies.
SpecCopiesEntries == {<<"values">>}

\* AddonManifestSpec.DeepCopyInto: Values, and Dependencies entry by entry.
ManifestSpecCopies == Under(<<"values">>, CopiesOfJSON) \cup {<<"dependencies">>}

\* AddonInstanceSpec.DeepCopyInto; Target and ManifestRef hold only strings.
InstanceSpecCopies == Under(<<"values">>, CopiesOfJSON)

\* AddonInstanceStatus.DeepCopyInto.
InstanceStatusCopies == Under(<<"objects">>, CopiesOfJSON)

\* The generated methods for the objects and their lists.
ManifestCopies == {<<"metadata">>} \cup ManifestSpecCopies
InstanceCopies == {<<"metadata">>} \cup InstanceSpecCopies \cup InstanceStatusCopies

ManifestListCopies == {<<"items">>} \cup Under(<<"items">>, ManifestCopies)
InstanceListCopies == {<<"items">>} \cup Under(<<"items">>, InstanceCopies)

Copies == [AddonManifest |-> ManifestCopies, AddonManifestList |-> ManifestListCopies,
           AddonInstance |-> InstanceCopies, AddonInstanceList |-> InstanceListCopies]

\* out is assigned in: all references are shared for now.
CallDeepCopy ==
    /\ phase = "call" /\ phase' = "copying"
    /\ copy' = source
    /\ shared' = {p \in DOMAIN source : source[p] # "nil"}
    /\ todo' = Copies[type]
    /\ UNCHANGED <<type, source>>

\* Is the part a field or an entry of something that is there?
Reached(p) == \A q \in DOMAIN source : IsStrictPrefix(q, p) => source[q] = "data"

\* Mutant: Dependencies are made, but their entries are not copied.
CopyPartWithoutEntries(p) ==
    /\ phase = "copying" /\ p \in todo
    /\ \A q \in todo : ~IsStrictPrefix(q, p)
    /\ todo' = todo \ {p}
    /\ shared' = shared \ {p}
    /\ copy' = [copy EXCEPT ![p] =
                  IF Last(p) = "dependencies" /\ Reached(p) THEN "empty" ELSE source[p]]
    /\ UNCHANGED <<type, source, phase>>

\* One part gets a map or slice of its own, with what the original has in it,
\* nil stays nil; but Dependencies are made anew in any case.
CopyPart(p) ==
    /\ phase = "copying" /\ p \in todo
    /\ \A q \in todo : ~IsStrictPrefix(q, p)
    /\ todo' = todo \ {p}
    /\ shared' = shared \ {p}
    /\ copy' = [copy EXCEPT ![p] =
                  IF Last(p) = "dependencies" /\ Reached(p) /\ source[p] = "nil"
                    THEN "empty" ELSE source[p]]
    /\ UNCHANGED <<type, source, phase>>

ReturnCopy ==
    /\ phase = "copying" /\ todo = {} /\ phase' = "returned"
    /\ UNCHANGED <<type, source, copy, shared, todo>>

\* The caller changes a map or a slice of its copy.
ChangeCopy(p) ==
    /\ phase \in {"returned", "used"} /\ phase' = "used"
    /\ copy[p] # "nil"
    /\ copy' = [copy EXCEPT ![p] = "changed"]
    /\ source' = IF p \in shared THEN [source EXCEPT ![p] = "changed"] ELSE source
    /\ UNCHANGED <<type, shared, todo>>

CopyNext ==
    \/ CallDeepCopy \/ ReturnCopy
    \/ \E p \in Parts[type] : CopyPart(p) \/ ChangeCopy(p)

CopySpec == CopyInit /\ [][CopyNext]_copyVars

-----------------------------------------------------------------------------
(* Properties.                                                             *)

\* Whatever the caller does with its copy, the object that the informers share
\* (thread_safe_store.go: "you must not modify anything returned by Get or
\* List") stays as it is.
SourceUntouched == [][source' = source]_copyVars

\* A copy says what the original says, whatever of it is nil or empty.  That it
\* is also equal to the original would be too much: Dependencies that are nil
\* become an empty map, which reads alike.
Reads(c) == IF c = "nil" THEN "empty" ELSE c
CopyReadsAlike ==
    phase = "returned" => \A p \in DOMAIN copy : Reads(copy[p]) = Reads(source[p])
=============================================================================
