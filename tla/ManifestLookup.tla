--------------------------- MODULE ManifestLookup ---------------------------
(***************************************************************************)
(* How an addon's name becomes the content that is rendered.  The shoot    *)
(* controller looks for the latest AddonManifest of that name in all       *)
(* namespaces and writes its namespace, name and version into an           *)
(* AddonInstance; the instance controller takes the version as a semver    *)
(* range, looks for the manifest in that namespace, and resolves its       *)
(* source.  Both searches are FindManifestForRange over a lister's List,   *)
(* which yields the manifests in any order.                                *)
(*                                                                         *)
(* A manifest carries name and version in one string.  What the code makes *)
(* of that string is told by its number and a tag for the rest of it.      *)
(***************************************************************************)
EXTENDS Naturals, Sequences, FiniteSets

CONSTANTS Namespaces,
          Bases,        \* names of addons
          Numbers,      \* version numbers, in their order
          None,
          Manifests,    \* the manifests a cluster may hold
          MaxManifests  \* bound on how many it holds

Tags == {"release",     \* nginx-1.0.0
         "rc",          \* nginx-1.0.0-rc: a prerelease
         "exp",         \* nginx-1.0.0-exp: a prerelease with an x in it
         "padded",      \* nginx-01.0.0: no semantic version
         "unversioned"} \* nginx: no version

\* configMap and configMapHelm of the spec: set or empty.
Manifest == [ns : Namespaces, base : Bases, num : Numbers, tag : Tags,
             configMap : BOOLEAN, configMapHelm : BOOLEAN]

Version == [num : Nat, pre : {"exp", "rc", "release"}]

ASSUME LookupAssumption ==
    /\ Numbers \subseteq Nat
    /\ Manifests \subseteq Manifest /\ None \notin Manifest \cup Version
    /\ MaxManifests \in Nat

\* A cluster cannot hold two manifests of one name in one namespace.
SameName(a, b) == a.ns = b.ns /\ a.base = b.base /\ a.num = b.num /\ a.tag = b.tag

VARIABLES cluster,  \* the AddonManifests that exist
          stage,    \* the function that runs
          name,     \* the name that is looked for
          range,    \* the version that is looked for, or None for any
          list,     \* what the lister returned
          n,        \* loop index
          version,  \* the best version so far, or None
          manifest, \* and its manifest
          ref       \* the manifest the shoot controller chose, or None

lookupVars == <<cluster, stage, name, range, list, n, version, manifest, ref>>

Stages == {"extractAddonManifests", "findManifestByRef", "search",
           "resolveManifest", "rendered",
           "noManifest", "badRange", "noSource"}

\* semver.Version{}, the version of what cannot be parsed.
Zero == [num |-> 0, pre |-> "release"]

\* Prereleases come before the release, and by the alphabet.
PreRank == [p \in {"exp", "rc", "release"} |->
              CASE p = "exp" -> 0 [] p = "rc" -> 1 [] p = "release" -> 2]

GT(v, w) == \/ v.num > w.num
            \/ v.num = w.num /\ PreRank[v.pre] > PreRank[w.pre]

Parsed == {"exp", "rc", "release"}

\* NameAndVersion: without a match of the regular expression both are empty.
NameOf(m) == IF m.tag = "unversioned" THEN "" ELSE m.base

VersionOf(m) == IF m.tag \in Parsed THEN [num |-> m.num, pre |-> m.tag] ELSE Zero

\* ParseRange takes an x anywhere in a version for a wildcard.
IsRange(v) == v.pre # "exp"

\* List returns the objects of a map.
Listings(S) ==
    {s \in [1 .. Cardinality(S) -> S] :
       \A a, b \in DOMAIN s : s[a] = s[b] => a = b}

Clusters ==
    {S \in {{s[x] : x \in DOMAIN s} :
               s \in UNION {[1 .. c -> Manifests] : c \in 0 .. MaxManifests}} :
       \A a, b \in S : SameName(a, b) => a = b}

LookupInit ==
    /\ cluster \in Clusters
    /\ name \in Bases \cup {""}
    /\ stage = "extractAddonManifests"
    /\ range = None /\ list = <<>> /\ n = 1
    /\ version = None /\ manifest = None /\ ref = None

-----------------------------------------------------------------------------

\* Mutant: the second search starts with the result of the first.
SearchKeepsManifest(manifests, r) ==
    /\ stage' = "search"
    /\ range' = r
    /\ list' \in Listings(manifests)
    /\ n' = 1 /\ version' = None /\ UNCHANGED manifest

\* FindManifestForRange begins.
Search(manifests, r) ==
    /\ stage' = "search"
    /\ range' = r
    /\ list' \in Listings(manifests)
    /\ n' = 1 /\ version' = None /\ manifest' = None

\* extractAddonManifests searches all namespaces for any version.
ExtractAddonManifests ==
    /\ stage = "extractAddonManifests"
    /\ Search(cluster, None)
    /\ UNCHANGED <<cluster, name, ref>>

\* Mutant: the manifests of all namespaces are searched for the reference.
FindInAnyNamespace ==
    /\ stage = "findManifestByRef"
    /\ \/ /\ IsRange(VersionOf(ref))
          /\ Search(cluster, VersionOf(ref))
       \/ /\ ~IsRange(VersionOf(ref)) /\ stage' = "badRange"
          /\ UNCHANGED <<range, list, n, version, manifest>>
    /\ UNCHANGED <<cluster, name, ref>>

\* findManifestByRef searches the namespace of the reference for its version.
FindManifestByRef ==
    /\ stage = "findManifestByRef"
    /\ \/ /\ IsRange(VersionOf(ref))
          /\ Search({m \in cluster : m.ns = ref.ns}, VersionOf(ref))
       \/ /\ ~IsRange(VersionOf(ref)) /\ stage' = "badRange"
          /\ UNCHANGED <<range, list, n, version, manifest>>
    /\ UNCHANGED <<cluster, name, ref>>

Matches(m) == NameOf(m) = name /\ (range = None \/ VersionOf(m) = range)

\* Mutant: the first match is kept.
InspectFirst ==
    /\ stage = "search" /\ n <= Len(list)
    /\ IF Matches(list[n]) /\ version = None
         THEN version' = VersionOf(list[n]) /\ manifest' = list[n]
         ELSE UNCHANGED <<version, manifest>>
    /\ n' = n + 1
    /\ UNCHANGED <<cluster, stage, name, range, list, ref>>

\* One turn of the loop of FindManifestForRange.
Inspect ==
    /\ stage = "search" /\ n <= Len(list)
    /\ IF /\ Matches(list[n])
          /\ version = None \/ GT(VersionOf(list[n]), version)
         THEN version' = VersionOf(list[n]) /\ manifest' = list[n]
         ELSE UNCHANGED <<version, manifest>>
    /\ n' = n + 1
    /\ UNCHANGED <<cluster, stage, name, range, list, ref>>

\* The loop is over: an error, the reference for a new instance, or the
\* manifest to resolve.
SearchDone ==
    /\ stage = "search" /\ n > Len(list)
    /\ \/ manifest = None /\ stage' = "noManifest" /\ UNCHANGED ref
       \/ /\ manifest # None /\ ref = None
          /\ stage' = "findManifestByRef" /\ ref' = manifest
       \/ /\ manifest # None /\ ref # None
          /\ stage' = "resolveManifest" /\ UNCHANGED ref
    /\ UNCHANGED <<cluster, name, range, list, n, version, manifest>>

\* resolveManifest: both sources get the ConfigMap that spec.configMap names,
\* which for a chart is empty and refused by the client.
ResolveManifest ==
    /\ stage = "resolveManifest"
    /\ stage' = IF manifest.configMap THEN "rendered" ELSE "noSource"
    /\ UNCHANGED <<cluster, name, range, list, n, version, manifest, ref>>

LookupNext == \/ ExtractAddonManifests \/ FindManifestByRef
        \/ Inspect \/ SearchDone \/ ResolveManifest

LookupSpec == LookupInit /\ [][LookupNext]_lookupVars
-----------------------------------------------------------------------------
(* Properties.                                                             *)

LookupTypeOK ==
    /\ cluster \subseteq Manifest
    /\ stage \in Stages
    /\ name \in Bases \cup {""}
    /\ range \in Version \cup {None}
    /\ list \in Seq(Manifest)
    /\ n \in 1 .. Len(list) + 1
    /\ version \in Version \cup {None}
    /\ manifest \in Manifest \cup {None}
    /\ manifest = None <=> version = None
    /\ ref \in Manifest \cup {None}
    /\ stage = "findManifestByRef" => ref # None

\* Whatever the order of the list, the search ends with a manifest that
\* matches and has the latest version of those that do, or with none if none
\* does.
LatestChosen ==
    stage = "search" /\ n > Len(list) =>
      IF manifest = None
        THEN \A m \in DOMAIN list : ~Matches(list[m])
        ELSE /\ Matches(manifest)
             /\ \A m \in DOMAIN list :
                  Matches(list[m]) =>
                    ~GT(VersionOf(list[m]), VersionOf(manifest))

\* The instance controller always finds a manifest for the reference the
\* shoot controller wrote, and as long as the names of manifests are well
\* formed it is the one that was chosen: namespace, name and version identify
\* it.
RefIdentifiesManifest ==
    /\ stage = "noManifest" => ref = None
    /\ (/\ stage \in {"resolveManifest", "rendered", "noSource"}
        /\ \A m \in cluster : m.tag \in Parsed)
       => manifest = ref
=============================================================================
