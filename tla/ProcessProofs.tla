---------------------------- MODULE ProcessProofs ----------------------------
(***************************************************************************)
(* What resets do to the mapper of the local cluster, whichever of their   *)
(* requests fail and whatever comes and goes meanwhile, and what ends the  *)
(* process; for any kinds, groups, workers and sets of resources.          *)
(***************************************************************************)
EXTENDS Process, FiniteSetTheorems, TLAPS

\* The steps of DiscoveryMapper that Process is built from.
MapperNext ==
    \/ ResetStep
    \/ \E k \in AllKinds : ChangeKinds(k)
    \/ \E w \in Workers : GetDelegate(w) \/ DropDelegate(w)

\* A step of the process leaves the mapper alone or is one of the mapper's.
LEMMA ProcessStepsMapper ==
    ProcessNext => MapperNext \/ UNCHANGED mapperVars
BY DEF ProcessNext, MapperNext, BuildClients, FirstReset, TickerReset, NewController,
   GoAll, MainReturns, Signal, Start, CacheSynced, StartWorking, ReturnFromRun,
   SyncBegins, SyncEnds, KindsChange

-----------------------------------------------------------------------------
(* The mapper.                                                             *)

GroupState == [step : ResetSteps, groups : SUBSET Groups, refused : SUBSET Roots,
               todo : SUBSET Groups, lists : [Groups -> SUBSET AllKinds]]

\* The groups a reset has so far are from the requests that were answered, and
\* lists are only fetched of some.
GroupsAnswered ==
    /\ reset.step = "/api" => reset.groups = {} /\ reset.refused = {}
    /\ reset.step = "/apis" => \A g \in reset.groups : RootOf(g) = "/api"
    /\ reset.step = "/apis" => reset.refused \subseteq {"/api"}
    /\ reset.step = "lists" => reset.groups # {}
    /\ reset.step \in {"/apis", "lists"} => \A g \in reset.groups : RootOf(g) \notin reset.refused

\* A kind is only in the list of its group; what was served all the time is in a
\* group the reset has found, if the request that lists it was answered; and a
\* kind the cache has is, if it was served all the time, in the new list of its
\* group once that is fetched or retained.
ListsOfGroups ==
    \A g \in Groups : \A k \in lists[g] \cup reset.lists[g] : GroupOf[k] = g
Found(k) == GroupOf[k] \in reset.groups \/ RootOf(GroupOf[k]) \in reset.refused
SteadyFound ==
    /\ reset.step = "/apis" => \A k \in steady : RootOf(GroupOf[k]) = "/api" => Found(k)
    /\ reset.step = "lists" => \A k \in steady : Found(k)
SteadyRetained ==
    reset.step = "lists" =>
      \A k \in Cached \cap steady :
         GroupOf[k] \in reset.groups \ reset.todo => k \in reset.lists[GroupOf[k]]

KindsIInv ==
    /\ served \in SUBSET AllKinds /\ steady \in SUBSET served
    /\ lists \in [Groups -> SUBSET AllKinds]
    /\ groupList \in {Unset} \cup SUBSET Groups
    /\ reset \in GroupState
    /\ GroupsAnswered /\ ListsOfGroups /\ SteadyFound /\ SteadyRetained /\ DelegateIsCache

\* Before the first reset nothing is known.
LEMMA KindsInit == MapperInit => KindsIInv
BY MapperAssumption DEF MapperInit, KindsIInv, GroupState, ResetSteps, NoReset, GroupsAnswered,
   Roots, ListsOfGroups, SteadyFound, SteadyRetained, DelegateIsCache, Groups

\* Every kind has a group.
LEMMA GroupKnown == \A k \in AllKinds : GroupOf[k] \in Groups
BY DEF Groups

\* A kind of the cache comes from the list of its group.
LEMMA CachedOfGroup ==
    ASSUME KindsIInv, NEW k \in Cached
    PROVE  /\ k \in AllKinds /\ GroupOf[k] \in Groups
           /\ k \in lists[GroupOf[k]] /\ groupList # Unset /\ GroupOf[k] \in groupList
<1>1. groupList # Unset /\ groupList \in SUBSET Groups
  BY DEF KindsIInv, Cached
<1>2. PICK g \in groupList : k \in lists[g]
  BY <1>1 DEF Cached
<1>3. g \in Groups /\ lists[g] \in SUBSET AllKinds
  BY <1>1, <1>2 DEF KindsIInv
<1>4. GroupOf[k] = g
  BY <1>2, <1>3 DEF KindsIInv, ListsOfGroups
<1> QED BY <1>1, <1>2, <1>3, <1>4

\* Kinds come and go in the API server; what the cache and a reset hold stays.
LEMMA ChangeKeepsKinds ==
    ASSUME KindsIInv, NEW k \in AllKinds, ChangeKinds(k)
    PROVE  KindsIInv'
<1>1. Cached' = Cached
  BY DEF ChangeKinds, Cached
<1>2. served' \in SUBSET AllKinds /\ steady' \in SUBSET served' /\ steady' \in SUBSET steady
  BY DEF ChangeKinds, KindsIInv
<1>3. UNCHANGED <<lists, groupList, reset, delegate>>
  BY DEF ChangeKinds
<1> QED BY <1>1, <1>2, <1>3 DEF KindsIInv, GroupsAnswered, ListsOfGroups, Found, SteadyFound,
           SteadyRetained, DelegateIsCache

\* A reset begins; it has found no group yet.
LEMMA BeginKeepsKinds ==
    ASSUME KindsIInv, BeginReset
    PROVE  KindsIInv'
<1>1. Cached' = Cached
  BY DEF BeginReset, Cached
<1>2. reset' = [step |-> "/api", groups |-> {}, refused |-> {}, todo |-> {},
                lists |-> [g \in Groups |-> {}]]
  BY DEF BeginReset, NoReset
<1>3. reset' \in GroupState
  BY <1>2 DEF GroupState, ResetSteps, Roots
<1> QED BY <1>1, <1>2, <1>3 DEF BeginReset, KindsIInv, GroupsAnswered, ListsOfGroups, SteadyFound,
           SteadyRetained, DelegateIsCache

\* The two requests for groups: a reset finds those of all that is served, but
\* for a request that is refused, or none can be listed.
LEMMA GroupsKeepKinds ==
    ASSUME KindsIInv, NEW root \in Roots, FetchGroups(root)
    PROVE  KindsIInv' /\ reset'.step # "idle"
<1> DEFINE Then(groups) == IF root = "/api" THEN "/apis"
                           ELSE IF groups # {} THEN "lists" ELSE "kept"
<1>1. Cached' = Cached /\ UNCHANGED <<served, groupList, lists, delegate, steady>>
      /\ reset.step = root /\ root \in {"/api", "/apis"}
  BY DEF FetchGroups, Cached, Roots
<1>2. GroupsAt(root) \in SUBSET Groups /\ \A g \in GroupsAt(root) : RootOf(g) = root
  BY DEF KindsIInv, Groups, GroupsAt
<1>3. \A k \in steady : RootOf(GroupOf[k]) = root => GroupOf[k] \in GroupsAt(root)
  BY DEF KindsIInv, GroupsAt
<1>4. \A g : RootOf(g) \in {"/api", "/apis"}
  BY DEF RootOf
<1>5. ASSUME NEW groups, NEW refused,
             \/ groups = reset.groups \cup GroupsAt(root) /\ refused = reset.refused
             \/ groups = reset.groups /\ refused = reset.refused \cup {root},
             reset' = [reset EXCEPT !.step = Then(groups), !.groups = groups,
                                    !.todo = groups, !.refused = refused]
      PROVE  KindsIInv' /\ reset'.step # "idle"
  <2>1. reset' = [step |-> Then(groups), groups |-> groups, refused |-> refused,
                  todo |-> groups, lists |-> reset.lists]
    BY <1>5 DEF KindsIInv, GroupState
  <2>2. reset' \in GroupState /\ reset'.step \in {"/apis", "lists", "kept"}
    <3>1. groups \in SUBSET Groups /\ refused \in SUBSET Roots
      BY <1>2, <1>5 DEF KindsIInv, GroupState
    <3> QED BY <2>1, <3>1 DEF KindsIInv, GroupState, ResetSteps, Roots
  <2>3. GroupsAnswered'
    BY <1>1, <1>2, <1>5, <2>1 DEF KindsIInv, GroupsAnswered
  <2>4. SteadyFound'
    <3>1. ASSUME NEW k \in steady, RootOf(GroupOf[k]) = root
          PROVE  GroupOf[k] \in groups \/ RootOf(GroupOf[k]) \in refused
      BY <1>3, <1>5, <3>1
    <3>2. ASSUME NEW k \in steady, root = "/apis", RootOf(GroupOf[k]) # root
          PROVE  GroupOf[k] \in groups \/ RootOf(GroupOf[k]) \in refused
      BY <1>1, <1>4, <1>5, <3>2 DEF KindsIInv, SteadyFound, Found
    <3> QED BY <1>1, <2>1, <3>1, <3>2 DEF SteadyFound, Found
  <2>5. ListsOfGroups'
    BY <1>1, <2>1 DEF KindsIInv, ListsOfGroups
  <2>6. SteadyRetained'
    BY <2>1 DEF SteadyRetained
  <2> QED BY <1>1, <2>2, <2>3, <2>4, <2>5, <2>6 DEF KindsIInv, DelegateIsCache
<1>6. CASE reset' = [reset EXCEPT !.step = "kept"]
  <2>1. reset' = [step |-> "kept", groups |-> reset.groups, refused |-> reset.refused,
                  todo |-> reset.todo, lists |-> reset.lists]
    BY <1>6 DEF KindsIInv, GroupState
  <2>2. reset' \in GroupState
    BY <2>1 DEF KindsIInv, GroupState, ResetSteps
  <2> QED BY <1>1, <2>1, <2>2 DEF KindsIInv, GroupsAnswered, ListsOfGroups, SteadyFound,
             SteadyRetained, DelegateIsCache
<1> QED BY <1>5, <1>6 DEF FetchGroups

\* The list of a group is fetched, or that of the cache retained.
LEMMA ListKeepsKinds ==
    ASSUME KindsIInv, NEW g \in Groups, FetchList(g)
    PROVE  KindsIInv'
<1> DEFINE found == {k \in served : GroupOf[k] = g}
<1>1. Cached' = Cached /\ UNCHANGED <<served, groupList, lists, delegate, steady>>
      /\ reset.step = "lists" /\ g \in reset.todo
  BY DEF FetchList, Cached
<1>2. PICK new \in {found, lists[g]} :
        /\ reset' = [reset EXCEPT !.todo = @ \ {g}, !.lists[g] = new]
        /\ new = lists[g] \/ (new = found /\ found # {})
  BY DEF FetchList
<1>3. new \in SUBSET AllKinds /\ \A k \in new : GroupOf[k] = g
  BY <1>2 DEF KindsIInv, ListsOfGroups
<1>4. reset' = [step |-> reset.step, groups |-> reset.groups, refused |-> reset.refused,
                todo |-> reset.todo \ {g}, lists |-> [reset.lists EXCEPT ![g] = new]]
  BY <1>2 DEF KindsIInv, GroupState
<1>5. reset' \in GroupState
  BY <1>3, <1>4 DEF KindsIInv, GroupState
<1>6. ListsOfGroups'
  BY <1>1, <1>3, <1>4 DEF KindsIInv, GroupState, ListsOfGroups
<1>7. GroupsAnswered' /\ SteadyFound'
  BY <1>1, <1>4 DEF KindsIInv, GroupsAnswered, SteadyFound, Found
<1>8. SteadyRetained'
  <2> SUFFICES ASSUME NEW k \in Cached \cap steady, GroupOf[k] \in reset.groups \ (reset.todo \ {g})
               PROVE  k \in [reset.lists EXCEPT ![g] = new][GroupOf[k]]
    BY <1>1, <1>4 DEF SteadyRetained
  <2>1. GroupOf[k] \in Groups /\ k \in lists[GroupOf[k]] /\ k \in served
    BY CachedOfGroup DEF KindsIInv
  <2>2. CASE GroupOf[k] = g
    <3>1. k \in new
      BY <1>2, <2>1, <2>2
    <3> QED BY <3>1, <2>1, <2>2 DEF KindsIInv, GroupState
  <2>3. CASE GroupOf[k] # g
    <3>1. k \in reset.lists[GroupOf[k]]
      BY <1>1, <2>3 DEF KindsIInv, SteadyRetained
    <3> QED BY <3>1, <2>1, <2>3 DEF KindsIInv, GroupState
  <2> QED BY <2>2, <2>3
<1> QED BY <1>1, <1>5, <1>6, <1>7, <1>8 DEF KindsIInv, DelegateIsCache

\* What a reset takes away: only kinds whose group was not listed, because that one
\* request was refused.
KindKept(k) == k \in Cached' \/ reset.refused = {RootOf(GroupOf[k])}

\* What a reset found goes into the cache, and the mapper built before is dropped.
LEMMA EndKeepsKinds ==
    ASSUME KindsIInv, EndReset
    PROVE  KindsIInv' /\ \A k \in Cached \cap steady : KindKept(k)
<1>1. reset' = NoReset /\ delegate' = Unset /\ UNCHANGED <<served, steady>>
  BY DEF EndReset
<1>2. reset' \in GroupState /\ reset'.step = "idle" /\ \A g \in Groups : reset'.lists[g] = {}
  BY <1>1 DEF NoReset, GroupState, ResetSteps
<1> USE DEF KindKept
<1>3. CASE reset.step = "kept"
  <2>1. UNCHANGED <<groupList, lists>>
    BY <1>3 DEF EndReset
  <2>2. Cached' = Cached
    BY <2>1 DEF Cached
  <2> QED BY <1>1, <1>2, <2>1, <2>2 DEF KindsIInv, GroupsAnswered, ListsOfGroups, SteadyFound,
             SteadyRetained, DelegateIsCache
<1>4. CASE reset.step = "lists" /\ reset.todo = {}
  <2>1. groupList' = reset.groups /\ lists' = reset.lists
    BY <1>4 DEF EndReset
  <2>2. groupList' \in SUBSET Groups /\ groupList' # Unset
        /\ lists' \in [Groups -> SUBSET AllKinds]
    BY <2>1, MapperAssumption DEF KindsIInv, GroupState
  <2>3. ListsOfGroups'
    BY <1>2, <2>1 DEF KindsIInv, GroupState, ListsOfGroups
  <2>4. KindsIInv'
    BY <1>1, <1>2, <2>2, <2>3
    DEF KindsIInv, GroupsAnswered, SteadyFound, SteadyRetained, DelegateIsCache
  <2>5. ASSUME NEW k \in Cached \cap steady
        PROVE  KindKept(k)
    <3>1. CASE GroupOf[k] \in reset.groups
      <4>1. k \in reset.lists[GroupOf[k]]
        BY <1>4, <3>1 DEF KindsIInv, SteadyRetained
      <4> QED BY <2>1, <2>2, <3>1, <4>1 DEF Cached
    <3>2. CASE GroupOf[k] \notin reset.groups
      <4>1. RootOf(GroupOf[k]) \in reset.refused
        BY <1>4, <3>2 DEF KindsIInv, SteadyFound, Found
      <4>2. PICK g \in reset.groups : RootOf(g) \notin reset.refused
        BY <1>4 DEF KindsIInv, GroupsAnswered
      <4>3. reset.refused \in SUBSET {"/api", "/apis"} /\ RootOf(g) \in {"/api", "/apis"}
        BY DEF KindsIInv, GroupState, Roots, RootOf
      <4> QED BY <4>1, <4>2, <4>3
    <3> QED BY <3>1, <3>2
  <2> QED BY <2>4, <2>5
<1> QED BY <1>3, <1>4 DEF EndReset

\* A sync gets the mapper, built from the cache, or forgets it; the cache stays.
LEMMA GetKeepsKinds ==
    ASSUME KindsIInv, NEW w \in Workers, GetDelegate(w) \/ DropDelegate(w)
    PROVE  KindsIInv'
<1>1. Cached' = Cached /\ UNCHANGED <<served, groupList, lists, reset, steady>>
  BY DEF GetDelegate, DropDelegate, Cached
<1>2. DelegateIsCache'
  BY <1>1 DEF GetDelegate, DropDelegate, KindsIInv, DelegateIsCache
<1> QED BY <1>1, <1>2 DEF KindsIInv, GroupsAnswered, ListsOfGroups, Found, SteadyFound,
           SteadyRetained

\* Where nothing of the mapper changes, what is known of it stays.
LEMMA StillKeepsKinds ==
    ASSUME KindsIInv, UNCHANGED mapperVars
    PROVE  KindsIInv'
BY DEF KindsIInv, mapperVars, GroupsAnswered, ListsOfGroups, Found, SteadyFound, SteadyRetained,
   DelegateIsCache, Cached

\* Every step of the process keeps what is known of the discovery cache.
LEMMA KindsStep ==
    ASSUME KindsIInv, [ProcessNext]_processVars
    PROVE  /\ KindsIInv'
           /\ reset.step # "idle" /\ reset'.step = "idle"
                => \A k \in Cached \cap steady : KindKept(k)
<1>1. MapperNext \/ UNCHANGED mapperVars
  BY ProcessStepsMapper DEF processVars
<1>2. CASE UNCHANGED mapperVars
  BY <1>2, StillKeepsKinds DEF mapperVars
<1>3. ASSUME NEW k \in AllKinds, ChangeKinds(k)
      PROVE  KindsIInv' /\ reset' = reset
  BY <1>3, ChangeKeepsKinds DEF ChangeKinds
<1>4. ASSUME NEW w \in Workers, GetDelegate(w) \/ DropDelegate(w)
      PROVE  KindsIInv' /\ reset' = reset
  BY <1>4, GetKeepsKinds DEF GetDelegate, DropDelegate
<1>5. CASE BeginReset
  BY <1>5, BeginKeepsKinds DEF BeginReset
<1>6. ASSUME NEW root \in Roots, FetchGroups(root)
      PROVE  KindsIInv' /\ reset'.step # "idle"
  BY <1>6, GroupsKeepKinds
<1>7. ASSUME NEW g \in Groups, FetchList(g)
      PROVE  KindsIInv' /\ reset'.step # "idle"
  <2>1. reset'.step # "idle"
    BY <1>7 DEF FetchList, KindsIInv, GroupState
  <2> QED BY <1>7, <2>1, ListKeepsKinds
<1>8. CASE EndReset
  BY <1>8, EndKeepsKinds
<1> QED BY <1>1, <1>2, <1>3, <1>4, <1>5, <1>6, <1>7, <1>8 DEF MapperNext, ResetStep

\* What is known of the discovery cache holds in every state of the process.
THEOREM KindsInvariant == ProcessSpec => []KindsIInv
<1>1. ProcessInit => KindsIInv
  BY KindsInit DEF ProcessInit
<1>2. KindsIInv /\ [ProcessNext]_processVars => KindsIInv'
  BY KindsStep
<1> QED BY <1>1, <1>2, PTL DEF ProcessSpec

\* The mapper the syncs get is never older than the cache (Reset of discovery.go).
THEOREM MapperCurrent == ProcessSpec => []DelegateIsCache
<1>1. KindsIInv => DelegateIsCache
  BY DEF KindsIInv
<1> QED BY KindsInvariant, <1>1, PTL

\* Invalidate of memcache.go with ServerGroups of discovery_client.go: a kind that
\* was known and has been there all the time stays known, unless just the request
\* that lists its group was refused with 403 or 404.
THEOREM KindsNotForgotten == ProcessSpec => KnownKindsKept
<1> DEFINE Kept == reset.step # "idle" /\ reset'.step = "idle" =>
                     \A k \in Cached \cap steady :
                        k \in Cached' \/ reset.refused = {RootOf(GroupOf[k])}
<1>1. KindsIInv /\ [ProcessNext]_processVars => [Kept]_mapperVars
  BY KindsStep DEF KindKept
<1> QED BY KindsInvariant, <1>1, PTL DEF ProcessSpec, KnownKindsKept

-----------------------------------------------------------------------------
(* Types.                                                                  *)

\* What a step of the mapper, or one beside it, leaves typed.
LEMMA MapperTyped ==
    ASSUME KindsIInv, KindsIInv', MapperTypeOK, MapperNext \/ UNCHANGED mapperVars
    PROVE  MapperTypeOK'
<1> USE MapperAssumption DEF MapperTypeOK, KindsIInv, GroupState
<1>1. Cached \in SUBSET AllKinds
  <2>1. CASE groupList = Unset
    BY <2>1 DEF Cached
  <2>2. CASE groupList # Unset
    <3>1. \A g \in groupList : lists[g] \in SUBSET AllKinds
      BY <2>2
    <3> QED BY <3>1, <2>2 DEF Cached
  <2> QED BY <2>1, <2>2
<1>2. CASE UNCHANGED mapperVars
  BY <1>2 DEF mapperVars
<1>3. ASSUME NEW k \in AllKinds, ChangeKinds(k) PROVE MapperTypeOK'
  BY <1>3 DEF ChangeKinds
<1>4. CASE BeginReset
  BY <1>4 DEF BeginReset, NoReset
<1>5. ASSUME Fail PROVE failures' \in 0..MaxFailures
  BY <1>5 DEF Fail
<1>6. ASSUME NEW root \in Roots, FetchGroups(root) PROVE MapperTypeOK'
  <2>1. failures' \in 0..MaxFailures
    BY <1>5, <1>6 DEF FetchGroups
  <2>2. \/ reset'.todo = reset'.groups
        \/ reset'.todo = reset.todo /\ reset'.groups = reset.groups
    BY <1>6 DEF FetchGroups
  <2> QED BY <1>6, <2>1, <2>2 DEF FetchGroups
<1>7. ASSUME NEW g \in Groups, FetchList(g) PROVE MapperTypeOK'
  <2>1. failures' \in 0..MaxFailures
    BY <1>5, <1>7 DEF FetchList
  <2>2. reset'.todo = reset.todo \ {g} /\ reset'.groups = reset.groups
    <3>1. \E list : reset' = [reset EXCEPT !.todo = @ \ {g}, !.lists[g] = list]
      BY <1>7 DEF FetchList
    <3> QED BY <3>1
  <2> QED BY <1>7, <2>1, <2>2 DEF FetchList
<1>8. CASE EndReset
  BY <1>8 DEF EndReset, NoReset
<1>9. ASSUME NEW w \in Workers, GetDelegate(w) \/ DropDelegate(w) PROVE MapperTypeOK'
  <2>1. delegate' \in {Unset} \cup SUBSET AllKinds
    BY <1>1, <1>9 DEF GetDelegate, DropDelegate
  <2>2. mapper' \in [Workers -> {Unset} \cup SUBSET AllKinds]
    BY <1>9, <2>1 DEF GetDelegate, DropDelegate
  <2> QED BY <1>9, <2>1, <2>2 DEF GetDelegate, DropDelegate
<1> QED BY <1>2, <1>3, <1>4, <1>6, <1>7, <1>8, <1>9 DEF MapperNext, ResetStep

\* The instance controller makes two informers and the Shoot controller one more:
\* it finds the one for the AddonManifests.
Requested ==
    /\ main \in {"clients", "reset", "instance"} =>
         made = 0 /\ \A t \in Types : informers[t] = 0
    /\ main = "shoot" =>
         /\ made = 2 /\ informers["Shoot"] = 0
         /\ informers["AddonManifest"] # 0 /\ informers["AddonInstance"] # 0

\* What informers a controller makes.
LEMMA InformersMade ==
    ASSUME ProcessTypeOK, Requested, NEW c \in Controllers, NewController(c)
    PROVE  /\ made' = IF c = "instance" THEN 2 ELSE 3
           /\ informers' \in [Types -> 0..made']
           /\ \A t \in Types : \/ informers'[t] = informers[t]
                               \/ informers[t] = 0 /\ informers'[t] # 0
           /\ \A t \in Wants(c) : informers'[t] # 0
           /\ c = "instance" => informers'["Shoot"] = 0
<1> DEFINE missing == {t \in Wants(c) : informers[t] = 0}
<1>1. main = c /\ c \in {"instance", "shoot"}
  BY DEF NewController, Controllers
<1>2. /\ made' = made + Cardinality(missing)
      /\ \E new \in [missing -> (made + 1) .. made'] :
           informers' = [t \in Types |-> IF t \in missing THEN new[t] ELSE informers[t]]
  BY DEF NewController, InformerFor
<1>3. made' = IF c = "instance" THEN 2 ELSE 3
  <2>1. CASE c = "instance"
    <3>1. missing = {"AddonManifest", "AddonInstance"} /\ made = 0
      BY <1>1, <2>1 DEF Requested, Wants, Types
    <3>2. Cardinality({"AddonManifest"}) = 1 /\ IsFiniteSet({"AddonManifest"})
      BY FS_Singleton
    <3>3. Cardinality({"AddonManifest"} \cup {"AddonInstance"}) = 2
      BY <3>2, FS_AddElement
    <3>4. missing = {"AddonManifest"} \cup {"AddonInstance"}
      BY <3>1
    <3>5. Cardinality(missing) = 2
      BY <3>3, <3>4
    <3> HIDE DEF missing
    <3> QED BY <1>2, <2>1, <3>1, <3>5
  <2>2. CASE c = "shoot"
    <3>1. missing = {"Shoot"} /\ made = 2
      BY <1>1, <2>2 DEF Requested, Wants, Types
    <3>2. Cardinality({"Shoot"}) = 1
      BY FS_Singleton
    <3> QED BY <1>2, <2>2, <3>1, <3>2
  <2> QED BY <1>1, <2>1, <2>2
<1>4. made \in Nat /\ made' \in Nat /\ made <= made' /\ informers \in [Types -> 0..made]
  BY <1>1, <1>3 DEF ProcessTypeOK, Requested
<1>5. PICK new \in [missing -> (made + 1) .. made'] :
        informers' = [t \in Types |-> IF t \in missing THEN new[t] ELSE informers[t]]
  BY <1>2
<1>6. \A t \in missing : new[t] \in 1..made' /\ informers[t] = 0
  BY <1>4, <1>5
<1>7. informers' \in [Types -> 0..made']
  BY <1>4, <1>5, <1>6
<1>8. Wants(c) \subseteq Types /\ (c = "instance" => "Shoot" \notin Wants(c))
  BY DEF Wants, Types
<1>9. \A t \in Types : \/ informers'[t] = informers[t]
                       \/ informers[t] = 0 /\ informers'[t] # 0
  BY <1>5, <1>6
<1>10. \A t \in Wants(c) : informers'[t] # 0
  BY <1>5, <1>6, <1>8
<1>11. c = "instance" => informers'["Shoot"] = 0
  BY <1>1, <1>5, <1>8 DEF Requested, Types
<1> QED BY <1>3, <1>7, <1>9, <1>10, <1>11

\* What is typed but for the mapper.
ProcessState ==
    /\ main \in {"clients", "reset", "instance", "shoot", "go", "wait"} \cup Exits
    /\ signals \in 0..2
    /\ servable \in Servable
    /\ made \in 0..3
    /\ informers \in [Types -> 0..made]
    /\ started \subseteq Types /\ \A t \in started : informers[t] \in running
    /\ unstarted \subseteq {"bouquet", "garden"}
    /\ running \subseteq 1..made /\ synced \subseteq running
    /\ holds \in [Controllers -> [Types -> 0..made]]
    /\ run \in [Controllers -> {"none", "waiting", "working", "returned"}]

\* There are three types.
LEMMA StateTyped == ProcessTypeOK <=> MapperTypeOK /\ ProcessState
<1>1. Cardinality({"Shoot"}) = 1 /\ IsFiniteSet({"Shoot"})
  BY FS_Singleton
<1>2. /\ Cardinality({"Shoot"} \cup {"AddonInstance"}) = 2
      /\ IsFiniteSet({"Shoot"} \cup {"AddonInstance"})
  BY <1>1, FS_AddElement
<1>3. Cardinality(({"Shoot"} \cup {"AddonInstance"}) \cup {"AddonManifest"}) = 3
  BY <1>2, FS_AddElement
<1>4. Types = ({"Shoot"} \cup {"AddonInstance"}) \cup {"AddonManifest"}
  BY DEF Types
<1> QED BY <1>3, <1>4 DEF ProcessTypeOK, ProcessState

\* Every step keeps the types.
LEMMA TypesStep ==
    ASSUME KindsIInv, KindsIInv', ProcessTypeOK, Requested, [ProcessNext]_processVars
    PROVE  ProcessTypeOK' /\ Requested'
<1>1. MapperTypeOK /\ ProcessState
  BY StateTyped
<1>2. MapperTypeOK'
  BY <1>1, ProcessStepsMapper, MapperTyped DEF processVars
<1> SUFFICES ProcessState' /\ Requested'
  <2>1. (ProcessTypeOK <=> MapperTypeOK /\ ProcessState)'
    BY StateTyped, PTL
  <2> QED BY <1>2, <2>1
<1> USE <1>1 DEF ProcessState, Requested, Exits, factoryVars, informerVars
<1>3. CASE BuildClients
  BY <1>3 DEF BuildClients
<1>4. CASE FirstReset
  BY <1>4 DEF FirstReset
<1>5. CASE TickerReset
  BY <1>5 DEF TickerReset
<1>6. ASSUME NEW c \in Controllers, NewController(c)
      PROVE  ProcessState' /\ Requested'
  <2>1. /\ made' = IF c = "instance" THEN 2 ELSE 3
        /\ informers' \in [Types -> 0..made']
        /\ \A t \in Types : \/ informers'[t] = informers[t]
                            \/ informers[t] = 0 /\ informers'[t] # 0
        /\ \A t \in Wants(c) : informers'[t] # 0
        /\ c = "instance" => informers'["Shoot"] = 0
    BY <1>6, InformersMade
  <2>2. /\ main = c /\ UNCHANGED <<signals, servable, started, unstarted, running, synced, run>>
        /\ holds' = [holds EXCEPT ![c] = [t \in Types |-> IF t \in Wants(c) THEN informers'[t] ELSE 0]]
        /\ main' = IF c = "instance" THEN "shoot" ELSE "go"
    BY <1>6 DEF NewController
  <2>3. made <= made' /\ made' \in 0..3 /\ c \in {"instance", "shoot"}
    BY <2>1, <2>2 DEF Controllers
  <2>4. \A t \in started : informers'[t] = informers[t]
    BY <2>1
  <2>5. [t \in Types |-> IF t \in Wants(c) THEN informers'[t] ELSE 0] \in [Types -> 0..made']
    BY <2>1, <2>3
  <2>6. holds' \in [Controllers -> [Types -> 0..made']]
    <3>1. holds \in [Controllers -> [Types -> 0..made']]
      BY <2>3
    <3> QED BY <2>2, <2>5, <3>1
  <2>7. Requested'
    BY <2>1, <2>2, <2>3 DEF Wants
  <2>8. running' \subseteq 1..made'
    BY <2>2, <2>3
  <2> QED BY <2>1, <2>2, <2>3, <2>4, <2>6, <2>7, <2>8
<1>7. CASE GoAll
  BY <1>7 DEF GoAll
<1>8. CASE MainReturns
  BY <1>8 DEF MainReturns
<1>9. CASE Signal
  BY <1>9 DEF Signal, Alive
<1>10. ASSUME NEW f \in {"bouquet", "garden"}, Start(f)
       PROVE  ProcessState' /\ Requested'
  <2> DEFINE new == {t \in Types : FactoryOf(t) = f /\ informers[t] # 0 /\ t \notin started}
  <2>1. /\ running' = running \cup {informers[t] : t \in new} /\ started' = started \cup new
        /\ unstarted' = unstarted \ {f}
        /\ UNCHANGED <<main, signals, servable, made, informers, synced, holds, run>>
    BY <1>10 DEF Start
  <2>2. {informers[t] : t \in new} \subseteq 1..made
    OBVIOUS
  <2> QED BY <2>1, <2>2
<1>11. ASSUME NEW t \in Types, CacheSynced(t)
       PROVE  ProcessState' /\ Requested'
  BY <1>11 DEF CacheSynced
<1>12. ASSUME NEW c \in Controllers, StartWorking(c)
       PROVE  ProcessState' /\ Requested'
  BY <1>12 DEF StartWorking, WaitForCacheSync
<1>13. ASSUME NEW c \in Controllers, ReturnFromRun(c)
       PROVE  ProcessState' /\ Requested'
  BY <1>13 DEF ReturnFromRun
<1>14. ASSUME NEW w \in Workers, SyncBegins(w) \/ SyncEnds(w)
       PROVE  ProcessState' /\ Requested'
  BY <1>14 DEF SyncBegins, SyncEnds
<1>15. CASE KindsChange
  BY <1>15 DEF KindsChange
<1>16. CASE UNCHANGED processVars
  BY <1>16 DEF processVars
<1> QED BY <1>3, <1>4, <1>5, <1>6, <1>7, <1>8, <1>9, <1>10, <1>11, <1>12, <1>13, <1>14, <1>15,
           <1>16 DEF ProcessNext

\* Every variable keeps its type: no more informers are made than there are types,
\* and those of the types started are the ones that run.
THEOREM ProcessTypeCorrect == ProcessSpec => []ProcessTypeOK
<1>1. ProcessInit => ProcessTypeOK /\ Requested
  <2> SUFFICES ASSUME ProcessInit PROVE ProcessTypeOK /\ Requested
    OBVIOUS
  <2>1. MapperTypeOK
    BY MapperAssumption DEF ProcessInit, MapperInit, MapperTypeOK, NoReset, ResetSteps
  <2>2. ProcessState
    BY ServableAssumption DEF ProcessInit, ProcessState
  <2>3. Requested
    BY DEF ProcessInit, Requested
  <2> QED BY <2>1, <2>2, <2>3, StateTyped
<1>2. KindsIInv /\ KindsIInv' /\ ProcessTypeOK /\ Requested /\ [ProcessNext]_processVars
        => ProcessTypeOK' /\ Requested'
  BY TypesStep
<1> QED BY KindsInvariant, <1>1, <1>2, PTL DEF ProcessSpec

-----------------------------------------------------------------------------
(* The end of the process.                                                 *)

\* A Run only returns when it is told to.
ReturnedWhenTold ==
    /\ signals \in Nat
    /\ run \in [Controllers -> {"none", "waiting", "working", "returned"}]
    /\ \A c \in Controllers : run[c] = "returned" => signals > 0

\* A Run returns, and once the clients are built main ends, only after a signal.
LEMMA ReturnedStep ==
    ASSUME ReturnedWhenTold, [ProcessNext]_processVars
    PROVE  /\ ReturnedWhenTold'
           /\ main # "clients" /\ main' \in Exits => UNCHANGED processVars \/ signals' > 0
<1> USE DEF ReturnedWhenTold
<1>1. CASE BuildClients
  BY <1>1 DEF BuildClients
<1>2. CASE FirstReset
  BY <1>2 DEF FirstReset, Exits
<1>3. CASE TickerReset
  BY <1>3 DEF TickerReset, Alive
<1>4. ASSUME NEW c \in Controllers, NewController(c)
      PROVE  ReturnedWhenTold' /\ main' \notin Exits
  BY <1>4 DEF NewController, Exits
<1>5. CASE GoAll
  BY <1>5 DEF GoAll, Exits
<1>6. CASE MainReturns
  BY <1>6 DEF MainReturns, Controllers
<1>7. CASE Signal
  BY <1>7 DEF Signal
<1>8. ASSUME NEW f \in {"bouquet", "garden"}, Start(f)
      PROVE  ReturnedWhenTold' /\ main' \notin Exits
  BY <1>8 DEF Start, Alive
<1>9. ASSUME NEW t \in Types, CacheSynced(t)
      PROVE  ReturnedWhenTold' /\ main' \notin Exits
  BY <1>9 DEF CacheSynced, Alive
<1>10. ASSUME NEW c \in Controllers, StartWorking(c)
       PROVE  ReturnedWhenTold' /\ main' \notin Exits
  BY <1>10 DEF StartWorking, WaitForCacheSync, stopped, Alive
<1>11. ASSUME NEW c \in Controllers, ReturnFromRun(c)
       PROVE  ReturnedWhenTold' /\ main' \notin Exits
  BY <1>11 DEF ReturnFromRun, stopped, Alive
<1>12. ASSUME NEW w \in Workers, SyncBegins(w) \/ SyncEnds(w)
       PROVE  ReturnedWhenTold' /\ main' \notin Exits
  BY <1>12 DEF SyncBegins, SyncEnds, Alive
<1>13. CASE KindsChange
  BY <1>13 DEF KindsChange, Alive
<1>14. CASE UNCHANGED processVars
  BY <1>14 DEF processVars
<1> QED BY <1>1, <1>2, <1>3, <1>4, <1>5, <1>6, <1>7, <1>8, <1>9, <1>10, <1>11, <1>12,
           <1>13, <1>14 DEF ProcessNext

\* main.go waits for both Runs, whatever their errors: once the clients are built
\* only a signal ends the process.
THEOREM OnlySignalsEnd == ProcessSpec => EndsOnlyWhenTold
<1> DEFINE Told == main # "clients" /\ main' \in Exits => signals' > 0
<1>1. ProcessInit => ReturnedWhenTold
  BY DEF ProcessInit, ReturnedWhenTold, Controllers
<1>2. ReturnedWhenTold /\ [ProcessNext]_processVars => ReturnedWhenTold'
  BY ReturnedStep
<1>3. ReturnedWhenTold /\ [ProcessNext]_processVars => [Told]_processVars
  BY ReturnedStep
<1> QED BY <1>1, <1>2, <1>3, PTL DEF ProcessSpec, EndsOnlyWhenTold
=============================================================================
