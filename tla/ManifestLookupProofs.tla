------------------------ MODULE ManifestLookupProofs ------------------------
(***************************************************************************)
(* Proofs about ManifestLookup, for all namespaces, names, version numbers *)
(* and sets of manifests.                                                  *)
(***************************************************************************)
EXTENDS ManifestLookup, FiniteSetTheorems, TLAPS

\* What a lister returns is a sequence of the manifests it was asked for.
LEMMA ListingIsSeq ==
    ASSUME NEW S \in SUBSET Manifest, IsFiniteSet(S), NEW s \in Listings(S)
    PROVE  s \in Seq(Manifest) /\ Len(s) \in Nat
<1>1. Cardinality(S) \in Nat
  BY FS_CardinalityType
<1>2. s \in [1 .. Cardinality(S) -> S]
  BY DEF Listings
<1> QED
  BY <1>1, <1>2

\* Every manifest has a version.
LEMMA VersionType ==
    ASSUME NEW m \in Manifest
    PROVE  VersionOf(m) \in Version
  BY LookupAssumption DEF Manifest, VersionOf, Version, Zero, Parsed, Tags

\* Being later is a strict order on versions, in which the versions that are
\* not later than one another can be told from the others.
LEMMA LaterIsOrder ==
    ASSUME NEW u \in Version, NEW v \in Version, NEW w \in Version
    PROVE  /\ ~GT(v, v)
           /\ GT(v, w) => ~GT(w, v)
           /\ GT(v, w) /\ ~GT(u, w) => ~GT(u, v)
<1>1. \A p \in {"exp", "rc", "release"} : PreRank[p] \in Nat
  BY DEF PreRank
<1>2. \A x \in {u, v, w} : x.num \in Nat /\ PreRank[x.pre] \in Nat
  BY <1>1 DEF Version
<1> QED
  BY <1>2 DEF GT

-----------------------------------------------------------------------------

TypeIInv == LookupTypeOK /\ IsFiniteSet(cluster)

\* At first the cluster holds finitely many manifests and nothing is found.
LEMMA TypeInit == LookupInit => TypeIInv
<1> SUFFICES ASSUME LookupInit PROVE TypeIInv
  OBVIOUS
<1>0. PICK c \in 0 .. MaxManifests :
        \E s \in [1 .. c -> Manifests] : cluster = {s[x] : x \in DOMAIN s}
  BY DEF LookupInit, Clusters
<1>1. PICK s \in [1 .. c -> Manifests] : cluster = {s[x] : x \in DOMAIN s}
  BY <1>0
<1>2. c \in Nat /\ DOMAIN s = 1 .. c
  BY <1>1, LookupAssumption
<1>3. IsFiniteSet(1 .. c)
  BY <1>2, FS_Interval
<1>4. cluster = {s[x] : x \in 1 .. c}
  BY <1>1, <1>2
<1>5. IsFiniteSet(cluster)
  <2>1. s \in Surjection(1 .. c, cluster)
    BY <1>2, <1>4 DEF Surjection
  <2> QED
    BY <1>3, <2>1, FS_Surjection
<1>6. cluster \subseteq Manifest
  BY <1>1, <1>2, LookupAssumption
<1>7. /\ stage \in Stages /\ stage # "findManifestByRef"
      /\ name \in Bases \cup {""}
      /\ range \in Version \cup {None} /\ version \in Version \cup {None}
      /\ manifest \in Manifest \cup {None} /\ ref \in Manifest \cup {None}
      /\ manifest = None <=> version = None
  BY DEF LookupInit, Stages
<1>8. list \in Seq(Manifest) /\ n \in 1 .. Len(list) + 1
  <2>1. list = <<>> /\ n = 1
    BY DEF LookupInit
  <2>2. <<>> \in Seq(Manifest) /\ Len(<<>>) = 0
    OBVIOUS
  <2> QED
    BY <2>1, <2>2
<1> QED
  BY <1>5, <1>6, <1>7, <1>8 DEF TypeIInv, LookupTypeOK

\* A search starts in a state of the right type.
LEMMA SearchType ==
    ASSUME TypeIInv, NEW S \in SUBSET cluster, NEW r \in Version \cup {None},
           Search(S, r), UNCHANGED <<cluster, name, ref>>
    PROVE  TypeIInv'
<1>1. IsFiniteSet(S) /\ S \in SUBSET Manifest
  BY FS_Subset DEF TypeIInv, LookupTypeOK
<1>2. list' \in Seq(Manifest) /\ Len(list') \in Nat
  BY <1>1, ListingIsSeq DEF Search
<1>3. n' \in 1 .. Len(list') + 1
  BY <1>2 DEF Search
<1>4. /\ stage' \in Stages /\ stage' # "findManifestByRef"
      /\ range' \in Version \cup {None} /\ version' \in Version \cup {None}
      /\ manifest' \in Manifest \cup {None}
      /\ manifest' = None <=> version' = None
  BY DEF Search, Stages
<1>5. /\ cluster' \subseteq Manifest /\ IsFiniteSet(cluster)'
      /\ name' \in Bases \cup {""} /\ ref' \in Manifest \cup {None}
  BY DEF TypeIInv, LookupTypeOK
<1> QED
  BY <1>2, <1>3, <1>4, <1>5 DEF TypeIInv, LookupTypeOK

\* Every step keeps the types.
LEMMA TypeStep == TypeIInv /\ [LookupNext]_lookupVars => TypeIInv'
<1> SUFFICES ASSUME TypeIInv, [LookupNext]_lookupVars PROVE TypeIInv'
  OBVIOUS
<1>1. CASE ExtractAddonManifests
  BY <1>1, SearchType DEF ExtractAddonManifests
<1>2. CASE FindManifestByRef
  <2>1. ref \in Manifest /\ VersionOf(ref) \in Version
    BY <1>2, VersionType DEF FindManifestByRef, TypeIInv, LookupTypeOK
  <2>2. CASE Search({m \in cluster : m.ns = ref.ns}, VersionOf(ref))
    BY <1>2, <2>1, <2>2, SearchType DEF FindManifestByRef
  <2>3. CASE stage' = "badRange" /\ UNCHANGED <<range, list, n, version, manifest>>
    BY <1>2, <2>3 DEF FindManifestByRef, TypeIInv, LookupTypeOK, Stages
  <2> QED
    BY <1>2, <2>2, <2>3 DEF FindManifestByRef
<1>3. CASE Inspect
  <2>1. /\ list \in Seq(Manifest) /\ n \in 1 .. Len(list) + 1
        /\ Len(list) \in Nat /\ n <= Len(list) /\ n' = n + 1 /\ list' = list
    <3>1. list \in Seq(Manifest) /\ n \in 1 .. Len(list) + 1
      BY DEF TypeIInv, LookupTypeOK
    <3>2. n <= Len(list) /\ n' = n + 1 /\ list' = list
      BY <1>3 DEF Inspect
    <3>3. Len(list) \in Nat
      BY <3>1
    <3> QED
      BY <3>1, <3>2, <3>3
  <2>2. list[n] \in Manifest /\ n' \in 1 .. Len(list') + 1
    BY <2>1
  <2>3. VersionOf(list[n]) \in Version
    BY <2>2, VersionType
  <2>4. /\ version' \in Version \cup {None}
        /\ manifest' \in Manifest \cup {None}
        /\ manifest' = None <=> version' = None
    <3>1. CASE version' = VersionOf(list[n]) /\ manifest' = list[n]
      BY <2>2, <2>3, <3>1, LookupAssumption
    <3>2. CASE UNCHANGED <<version, manifest>>
      BY <3>2 DEF TypeIInv, LookupTypeOK
    <3> QED
      BY <1>3, <3>1, <3>2 DEF Inspect
  <2>5. UNCHANGED <<cluster, stage, name, range, ref>>
    BY <1>3 DEF Inspect
  <2> QED
    BY <2>1, <2>2, <2>4, <2>5 DEF TypeIInv, LookupTypeOK
<1>4. CASE SearchDone
  BY <1>4 DEF SearchDone, TypeIInv, LookupTypeOK, Stages
<1>5. CASE ResolveManifest
  BY <1>5 DEF ResolveManifest, TypeIInv, LookupTypeOK, Stages
<1>6. CASE UNCHANGED lookupVars
  BY <1>6 DEF lookupVars, TypeIInv, LookupTypeOK
<1> QED
  BY <1>1, <1>2, <1>3, <1>4, <1>5, <1>6 DEF LookupNext

\* The search stays within the list the lister returned.
THEOREM TypeCorrect == LookupSpec => []LookupTypeOK
<1>1. TypeIInv => LookupTypeOK
  BY DEF TypeIInv
<1> QED
  BY TypeInit, TypeStep, <1>1, PTL DEF LookupSpec

-----------------------------------------------------------------------------
(* The latest match is found.                                              *)

\* What the loop has seen: the list before n.
BestSoFar ==
    stage = "search" =>
      IF manifest = None
        THEN \A m \in DOMAIN list : m < n => ~Matches(list[m])
        ELSE /\ Matches(manifest) /\ version = VersionOf(manifest)
             /\ \A m \in DOMAIN list :
                  m < n /\ Matches(list[m])
                    => ~GT(VersionOf(list[m]), VersionOf(manifest))

\* A turn of the loop keeps the best match up to the next index.
LEMMA InspectBest == ASSUME TypeIInv, BestSoFar, Inspect PROVE BestSoFar'
<1>1. /\ list \in Seq(Manifest) /\ n \in Nat /\ n \in DOMAIN list
      /\ \A m \in DOMAIN list : m \in Nat
      /\ n' = n + 1 /\ list' = list /\ stage = "search" /\ stage' = stage
      /\ name' = name /\ range' = range
  <2>1. /\ n <= Len(list) /\ n' = n + 1 /\ list' = list
        /\ stage = "search" /\ stage' = stage /\ name' = name /\ range' = range
    BY DEF Inspect
  <2>2. list \in Seq(Manifest) /\ n \in 1 .. Len(list) + 1
    BY DEF TypeIInv, LookupTypeOK
  <2>3. Len(list) \in Nat /\ DOMAIN list = 1 .. Len(list)
    BY <2>2
  <2> QED
    BY <2>1, <2>2, <2>3
<1>2. \A m \in DOMAIN list : m < n' <=> m < n \/ m = n
  BY <1>1
<1>3. \A m \in DOMAIN list : list[m] \in Manifest /\ VersionOf(list[m]) \in Version
  BY <1>1, VersionType
<1>4. \A m : Matches(m)' <=> Matches(m)
  BY <1>1 DEF Matches
<1>5. CASE /\ Matches(list[n])
           /\ version = None \/ GT(VersionOf(list[n]), version)
  <2>1. version' = VersionOf(list[n]) /\ manifest' = list[n] /\ list[n] # None
    BY <1>1, <1>3, <1>5, LookupAssumption DEF Inspect
  <2>2. ASSUME NEW m \in DOMAIN list, m < n', Matches(list[m])
        PROVE  ~GT(VersionOf(list[m]), VersionOf(list[n]))
    <3>1. CASE m = n
      BY <1>1, <1>3, <3>1, LaterIsOrder
    <3>2. CASE m < n /\ manifest = None
      BY <1>1, <2>2, <3>2 DEF BestSoFar
    <3>3. CASE m < n /\ manifest # None
      <4>1. /\ version = VersionOf(manifest) /\ version \in Version
            /\ ~GT(VersionOf(list[m]), version)
        BY <1>1, <2>2, <3>3 DEF BestSoFar, TypeIInv, LookupTypeOK
      <4>2. GT(VersionOf(list[n]), version)
        BY <1>5, <4>1, LookupAssumption
      <4> QED
        BY <1>1, <1>3, <4>1, <4>2, LaterIsOrder
    <3> QED
      BY <1>2, <2>2, <3>1, <3>2, <3>3
  <2> QED
    BY <1>1, <1>4, <1>5, <2>1, <2>2 DEF BestSoFar
<1>6. CASE ~ /\ Matches(list[n])
             /\ version = None \/ GT(VersionOf(list[n]), version)
  <2>1. version' = version /\ manifest' = manifest
    BY <1>6 DEF Inspect
  <2>2. CASE manifest = None
    <3>1. version = None
      BY <2>2 DEF TypeIInv, LookupTypeOK
    <3> QED
      BY <1>1, <1>2, <1>4, <1>6, <2>1, <2>2, <3>1 DEF BestSoFar
  <2>3. CASE manifest # None
    BY <1>1, <1>2, <1>4, <1>6, <2>1, <2>3 DEF BestSoFar
  <2> QED
    BY <2>2, <2>3
<1> QED
  BY <1>5, <1>6

\* Every step keeps what the loop has seen.
LEMMA BestStep == TypeIInv /\ BestSoFar /\ [LookupNext]_lookupVars => BestSoFar'
<1> SUFFICES ASSUME TypeIInv, BestSoFar, [LookupNext]_lookupVars PROVE BestSoFar'
  OBVIOUS
<1>1. ASSUME NEW S \in SUBSET cluster, NEW r, Search(S, r) PROVE BestSoFar'
  <2>1. list' \in Seq(Manifest) /\ n' = 1 /\ manifest' = None
    <3>1. IsFiniteSet(S) /\ S \in SUBSET Manifest
      BY FS_Subset DEF TypeIInv, LookupTypeOK
    <3> QED
      BY <1>1, <3>1, ListingIsSeq DEF Search
  <2>2. \A m \in DOMAIN list' : ~(m < n')
    BY <2>1
  <2> QED
    BY <2>1, <2>2 DEF BestSoFar
<1>2. CASE ExtractAddonManifests
  BY <1>1, <1>2 DEF ExtractAddonManifests
<1>3. CASE FindManifestByRef
  <2>1. CASE stage' = "badRange"
    BY <2>1 DEF BestSoFar
  <2> QED
    BY <1>1, <1>3, <2>1 DEF FindManifestByRef
<1>4. CASE Inspect
  BY <1>4, InspectBest
<1>5. CASE SearchDone
  BY <1>5 DEF SearchDone, BestSoFar
<1>6. CASE ResolveManifest
  BY <1>6 DEF ResolveManifest, BestSoFar
<1>7. CASE UNCHANGED lookupVars
  BY <1>7 DEF lookupVars, BestSoFar, Matches
<1> QED
  BY <1>2, <1>3, <1>4, <1>5, <1>6, <1>7 DEF LookupNext

\* FindManifestForRange returns the latest match, in whatever order the lister
\* returns the manifests and whatever their versions are.
THEOREM LatestCorrect == LookupSpec => []LatestChosen
<1>1. LookupInit => BestSoFar
  BY DEF LookupInit, BestSoFar
<1>2. TypeIInv /\ BestSoFar => LatestChosen
  <2> SUFFICES ASSUME TypeIInv, BestSoFar, stage = "search", n > Len(list)
               PROVE  LatestChosen
    BY DEF LatestChosen
  <2>1. \A m \in DOMAIN list : m < n
    <3>1. list \in Seq(Manifest) /\ n \in 1 .. Len(list) + 1
      BY DEF TypeIInv, LookupTypeOK
    <3>2. Len(list) \in Nat /\ DOMAIN list = 1 .. Len(list) /\ n \in Nat
      BY <3>1
    <3> QED
      BY <3>2
  <2> QED
    BY <2>1 DEF BestSoFar, LatestChosen
<1> QED
  BY TypeInit, TypeStep, BestStep, <1>1, <1>2, PTL DEF LookupSpec

-----------------------------------------------------------------------------
(* The reference finds the manifest it was made from.                      *)

\* What is in a list.
ElementsIn(s) == {s[k] : k \in DOMAIN s}

\* A lister returns every object.
LEMMA ListingIsComplete ==
    ASSUME NEW S, IsFiniteSet(S), NEW s \in Listings(S)
    PROVE  ElementsIn(s) = S
<1> DEFINE c == Cardinality(S)
<1>1. c \in Nat
  BY FS_CardinalityType
<1>2. IsFiniteSet(1 .. c) /\ Cardinality(1 .. c) = c
  BY <1>1, FS_Interval
<1>3. s \in Injection(1 .. c, S)
  BY DEF Listings, Injection, IsInjective
<1>4. s \in Surjection(1 .. c, S)
  BY <1>2, <1>3, FS_Injection
<1> QED
  BY <1>4 DEF Surjection, ElementsIn

\* What is being searched, and what the search for a reference has found.
Searched == IF ref = None THEN cluster ELSE {m \in cluster : m.ns = ref.ns}

RefIInv ==
    /\ \A a, b \in cluster : SameName(a, b) => a = b
    /\ ref # None => ref \in cluster /\ NameOf(ref) = name
    /\ stage = "extractAddonManifests" => ref = None
    /\ stage = "noManifest" => ref = None
    /\ stage = "search" =>
         /\ ElementsIn(list) = Searched
         /\ range = IF ref = None THEN None ELSE VersionOf(ref)
         /\ manifest # None => manifest \in Searched
    /\ stage \in {"resolveManifest", "rendered", "noSource"} =>
         /\ ref # None /\ manifest \in Searched
         /\ NameOf(manifest) = name /\ VersionOf(manifest) = VersionOf(ref)

\* Name, version and namespace are all there is to tell well-formed manifests
\* apart by.
LEMMA ReferenceIsUnique ==
    ASSUME TypeIInv, RefIInv, NEW a \in cluster, NEW b \in cluster,
           a.ns = b.ns, NameOf(a) = NameOf(b), VersionOf(a) = VersionOf(b),
           a.tag \in Parsed, b.tag \in Parsed
    PROVE  a = b
<1>1. a.base = b.base
  BY DEF NameOf, Parsed
<1>2. a.num = b.num /\ a.tag = b.tag
  <2>1. VersionOf(a).num = a.num /\ VersionOf(a).pre = a.tag
    BY DEF VersionOf
  <2>2. VersionOf(b).num = b.num /\ VersionOf(b).pre = b.tag
    BY DEF VersionOf
  <2> QED
    BY <2>1, <2>2
<1> QED
  BY <1>1, <1>2 DEF RefIInv, SameName

\* Every step keeps what is known of the reference.
LEMMA RefStep ==
    ASSUME TypeIInv, BestSoFar, RefIInv, [LookupNext]_lookupVars
    PROVE  RefIInv'
<1>0. /\ cluster \subseteq Manifest /\ IsFiniteSet(cluster)
      /\ None \notin Manifest /\ list \in Seq(Manifest)
      /\ n \in 1 .. Len(list) + 1
  BY LookupAssumption DEF TypeIInv, LookupTypeOK
<1>1. CASE ExtractAddonManifests
  <2>1. /\ ref = None /\ list' \in Listings(cluster) /\ stage' = "search"
        /\ range' = None /\ manifest' = None /\ UNCHANGED <<cluster, name, ref>>
    BY <1>1 DEF ExtractAddonManifests, Search, RefIInv
  <2>2. ElementsIn(list') = cluster
    BY <1>0, <2>1, ListingIsComplete
  <2> QED
    BY <2>1, <2>2 DEF RefIInv, Searched, ElementsIn
<1>2. CASE FindManifestByRef
  <2>1. ref # None /\ ref \in cluster
    BY <1>2 DEF FindManifestByRef, TypeIInv, LookupTypeOK, RefIInv
  <2>2. CASE stage' = "badRange" /\ UNCHANGED <<cluster, name, ref>>
    BY <2>1, <2>2 DEF RefIInv
  <2>3. CASE Search({m \in cluster : m.ns = ref.ns}, VersionOf(ref))
    <3>1. /\ list' \in Listings(Searched) /\ stage' = "search"
          /\ range' = VersionOf(ref) /\ manifest' = None
          /\ UNCHANGED <<cluster, name, ref>>
      BY <1>2, <2>1, <2>3 DEF FindManifestByRef, Search, Searched
    <3>2. IsFiniteSet(Searched)
      BY <1>0, FS_Subset DEF Searched
    <3>3. ElementsIn(list') = Searched
      BY <3>1, <3>2, ListingIsComplete
    <3> QED
      BY <2>1, <3>1, <3>3 DEF RefIInv, Searched, ElementsIn
  <2> QED
    BY <1>2, <2>2, <2>3 DEF FindManifestByRef
<1>3. CASE Inspect
  <2>1. /\ stage = "search" /\ n \in DOMAIN list
        /\ UNCHANGED <<cluster, stage, name, range, list, ref>>
        /\ manifest' = manifest \/ manifest' = list[n]
    <3>1. /\ stage = "search" /\ n <= Len(list)
          /\ UNCHANGED <<cluster, stage, name, range, list, ref>>
          /\ manifest' = manifest \/ manifest' = list[n]
      BY <1>3 DEF Inspect
    <3>2. DOMAIN list = 1 .. Len(list) /\ Len(list) \in Nat
      BY <1>0
    <3> QED
      BY <1>0, <3>1, <3>2
  <2>2. list[n] \in Searched
    BY <2>1 DEF RefIInv, ElementsIn
  <2> QED
    BY <2>1, <2>2 DEF RefIInv, Searched, ElementsIn
<1>4. CASE SearchDone
  <2>1. /\ stage = "search" /\ n > Len(list)
        /\ UNCHANGED <<cluster, name, range, list, n, version, manifest>>
        /\ ElementsIn(list) = Searched
        /\ manifest # None => manifest \in Searched /\ Matches(manifest)
    BY <1>4 DEF SearchDone, RefIInv, BestSoFar
  <2>2. \A m \in DOMAIN list : m < n
    <3>1. DOMAIN list = 1 .. Len(list) /\ Len(list) \in Nat /\ n \in Nat
      BY <1>0
    <3> QED
      BY <2>1, <3>1
  <2>3. CASE manifest = None /\ stage' = "noManifest" /\ UNCHANGED ref
    <3>1. ASSUME ref # None PROVE FALSE
      <4>1. ref \in ElementsIn(list) /\ Matches(ref)
        BY <2>1, <3>1 DEF RefIInv, Searched, Matches
      <4> QED
        BY <2>1, <2>2, <2>3, <4>1 DEF BestSoFar, ElementsIn
    <3> QED
      BY <2>1, <2>3, <3>1 DEF RefIInv
  <2>4. CASE /\ manifest # None /\ ref = None
             /\ stage' = "findManifestByRef" /\ ref' = manifest
    <3>1. manifest \in cluster /\ NameOf(manifest) = name
      BY <2>1, <2>4 DEF Searched, Matches
    <3> QED
      BY <2>1, <2>4, <3>1 DEF RefIInv
  <2>5. CASE /\ manifest # None /\ ref # None
             /\ stage' = "resolveManifest" /\ UNCHANGED ref
    <3>1. range = VersionOf(ref) /\ range # None
      <4>1. ref \in Manifest
        BY <1>0, <2>5 DEF RefIInv
      <4> QED
        BY <2>1, <2>5, <4>1, VersionType, LookupAssumption DEF RefIInv
    <3>2. NameOf(manifest) = name /\ VersionOf(manifest) = VersionOf(ref)
      BY <2>1, <2>5, <3>1 DEF Matches
    <3> QED
      BY <2>1, <2>5, <3>2 DEF RefIInv, Searched
  <2> QED
    BY <1>4, <2>3, <2>4, <2>5 DEF SearchDone
<1>5. CASE ResolveManifest
  BY <1>5 DEF ResolveManifest, RefIInv, Searched
<1>6. CASE UNCHANGED lookupVars
  BY <1>6 DEF lookupVars, RefIInv, Searched, ElementsIn
<1> QED
  BY <1>1, <1>2, <1>3, <1>4, <1>5, <1>6 DEF LookupNext

\* The reference the shoot controller writes into an AddonInstance always leads
\* the instance controller to a manifest, and to the one that was chosen if the
\* names of all manifests are well formed.
THEOREM ReferenceFound == LookupSpec => []RefIdentifiesManifest
<1>1. LookupInit => RefIInv
  BY DEF LookupInit, Clusters, RefIInv
<1>2. LookupInit => BestSoFar
  BY DEF LookupInit, BestSoFar
<1>3. TypeIInv /\ RefIInv => RefIdentifiesManifest
  <2> SUFFICES ASSUME TypeIInv, RefIInv,
                      stage \in {"resolveManifest", "rendered", "noSource"},
                      \A m \in cluster : m.tag \in Parsed
               PROVE  manifest = ref
    BY DEF RefIdentifiesManifest, RefIInv
  <2> QED
    BY ReferenceIsUnique DEF RefIInv, Searched
<1> QED
  BY TypeInit, TypeStep, BestStep, RefStep, <1>1, <1>2, <1>3, PTL DEF LookupSpec
=============================================================================
