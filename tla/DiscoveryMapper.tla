--------------------------- MODULE DiscoveryMapper ---------------------------
(***************************************************************************)
(* How the kinds of objects for the local cluster are found: main.go       *)
(* builds one DeferredDiscoveryRESTMapper over an in-memory discovery      *)
(* cache, which all syncs of instances without a shoot share and which a   *)
(* goroutine resets every minute.  The cache does no live lookups, so a    *)
(* reset is all that ever tells it of a CRD that came or went.             *)
(*                                                                         *)
(* A reset holds the mapper's lock through all its requests: two for the   *)
(* groups, one for the list of each.  Requests can fail, and kinds can     *)
(* come and go between two of them.                                        *)
(***************************************************************************)
EXTENDS Naturals, FiniteSets

CONSTANTS AllKinds,     \* the kinds there may be
          GroupOf,      \* the API group and version of each kind
          Legacy,       \* the groups that are listed at /api, not at /apis
          Core,         \* kinds that are always served
          Workers,      \* the workers that look kinds up
          Unset,        \* of what was not made yet
          MaxChanges,   \* bound on the kinds that come and go
          MaxFailures   \* bound on the discovery requests that fail

Groups == {GroupOf[k] : k \in AllKinds}

Roots == {"/api", "/apis"}
RootOf(g) == IF g \in Legacy THEN "/api" ELSE "/apis"

ASSUME MapperAssumption ==
    /\ DOMAIN GroupOf = AllKinds
    /\ Legacy \subseteq Groups
    /\ \A k \in AllKinds : GroupOf[k] \in Legacy => k \in Core
    /\ Core \subseteq AllKinds /\ Core # {}
    /\ \A S \in (SUBSET AllKinds) \cup (SUBSET Groups) : Unset # S
    /\ MaxChanges \in Nat /\ MaxFailures \in Nat

VARIABLES served,     \* the kinds the API server serves
          changes,    \* how often that has changed
          failures,   \* how many requests have failed
          groupList,  \* memcache: the groups, Unset before the first success
          lists,      \* memcache: the kinds of each group, {} for no entry
          delegate,   \* the mapper built from them, or Unset
          reset,      \* the reset that runs; refused is history
          steady,     \* history: what was served all through that reset
          mapper      \* the delegate each worker has been given, or Unset

mapperVars == <<served, changes, failures, groupList, lists, delegate, reset,
                steady, mapper>>

ResetSteps == {"idle", "lists", "kept"} \cup Roots
NoReset == [step |-> "idle", groups |-> {}, refused |-> {}, todo |-> {},
            lists |-> [g \in Groups |-> {}]]

MapperTypeOK ==
    /\ Core \subseteq served /\ served \subseteq AllKinds
    /\ changes \in 0..MaxChanges /\ failures \in 0..MaxFailures
    /\ groupList \in {Unset} \cup SUBSET Groups
    /\ lists \in [Groups -> SUBSET AllKinds]
    /\ delegate \in {Unset} \cup SUBSET AllKinds
    /\ reset.step \in ResetSteps /\ reset.refused \subseteq Roots
    /\ reset.todo \subseteq reset.groups /\ reset.groups \subseteq Groups
    /\ steady \subseteq served
    /\ mapper \in [Workers -> {Unset} \cup SUBSET AllKinds]

MapperInit ==
    /\ served = Core
    /\ changes = 0 /\ failures = 0
    /\ groupList = Unset /\ lists = [g \in Groups |-> {}]
    /\ delegate = Unset
    /\ reset = NoReset
    /\ steady = Core
    /\ mapper = [w \in Workers |-> Unset]

\* A CRD is created or deleted.
ChangeKinds(k) ==
    /\ k \notin Core /\ changes < MaxChanges
    /\ changes' = changes + 1
    /\ served' = IF k \in served THEN served \ {k} ELSE served \cup {k}
    /\ steady' = steady \cap served'
    /\ UNCHANGED <<failures, groupList, lists, delegate, reset, mapper>>

Fail == failures < MaxFailures /\ failures' = failures + 1

\* Every kind the cache knows.
Cached == IF groupList = Unset THEN {} ELSE UNION {lists[g] : g \in groupList}

\* Mutant: the cache is only filled once.
BeginResetOnce ==
    /\ reset.step = "idle" /\ groupList = Unset
    /\ reset' = [NoReset EXCEPT !.step = "/api"]
    /\ steady' = served
    /\ UNCHANGED <<served, changes, failures, groupList, lists, delegate, mapper>>

\* Reset takes the mapper's lock and calls Invalidate.
BeginReset ==
    /\ reset.step = "idle"
    /\ reset' = [NoReset EXCEPT !.step = "/api"]
    /\ steady' = served
    /\ UNCHANGED <<served, changes, failures, groupList, lists, delegate, mapper>>

\* The groups a request at root finds.
GroupsAt(root) == {g \in {GroupOf[k] : k \in served} : RootOf(g) = root}

\* ServerGroups asks /api and then /apis.  A request refused with 403 or 404 is
\* no error, its groups are just missing from the list; any other error, or a
\* list without groups, keeps everything.
FetchGroups(root) ==
    /\ reset.step = root
    /\ LET Then(groups) == IF root = "/api" THEN "/apis"
                           ELSE IF groups # {} THEN "lists" ELSE "kept"
           Take(groups, refused) ==
             reset' = [reset EXCEPT !.step = Then(groups), !.groups = groups,
                                    !.todo = groups, !.refused = refused]
       IN \/ Take(reset.groups \cup GroupsAt(root), reset.refused) /\ UNCHANGED failures
          \/ Fail /\ Take(reset.groups, reset.refused \cup {root})
          \/ Fail /\ reset' = [reset EXCEPT !.step = "kept"]
    /\ UNCHANGED <<served, changes, groupList, lists, delegate, steady, mapper>>

\* Mutant: a group whose list fails is left out.
FetchListOrNothing(g) ==
    /\ reset.step = "lists" /\ g \in reset.todo
    /\ LET found == {k \in served : GroupOf[k] = g}
           Take(list) == reset' = [reset EXCEPT !.todo = @ \ {g}, !.lists[g] = list]
       IN \/ Take(found) /\ UNCHANGED failures
          \/ Fail /\ Take({})
    /\ UNCHANGED <<served, changes, groupList, lists, delegate, steady, mapper>>

\* ServerResourcesForGroupVersion for one of the groups.  If it fails, or finds
\* nothing (as it does when the list of a legacy group is refused), the list the
\* cache has is retained.
FetchList(g) ==
    /\ reset.step = "lists" /\ g \in reset.todo
    /\ LET found == {k \in served : GroupOf[k] = g}
           Take(list) == reset' = [reset EXCEPT !.todo = @ \ {g}, !.lists[g] = list]
       IN \/ found # {} /\ Take(found) /\ UNCHANGED failures
          \/ found = {} /\ Take(lists[g]) /\ UNCHANGED failures
          \/ Fail /\ Take(lists[g])
    /\ UNCHANGED <<served, changes, groupList, lists, delegate, steady, mapper>>

\* Mutant: the mapper that was built before stays in use.
EndResetKeepsDelegate ==
    /\ \/ reset.step = "kept"
       \/ reset.step = "lists" /\ reset.todo = {}
    /\ IF reset.step = "kept" THEN UNCHANGED <<groupList, lists>>
       ELSE groupList' = reset.groups /\ lists' = reset.lists
    /\ reset' = NoReset
    /\ UNCHANGED <<served, changes, failures, delegate, steady, mapper>>

\* Invalidate stores what it found; Reset drops the delegate and unlocks.
EndReset ==
    /\ \/ reset.step = "kept"
       \/ reset.step = "lists" /\ reset.todo = {}
    /\ IF reset.step = "kept" THEN UNCHANGED <<groupList, lists>>
       ELSE groupList' = reset.groups /\ lists' = reset.lists
    /\ delegate' = Unset
    /\ reset' = NoReset
    /\ UNCHANGED <<served, changes, failures, steady, mapper>>

\* getDelegate, first part of RESTMapping: it waits for a reset, and fails as
\* long as the cache was never filled.
GetDelegate(w) ==
    /\ reset.step = "idle" /\ groupList # Unset
    /\ delegate' = IF delegate = Unset THEN Cached ELSE delegate
    /\ mapper' = [mapper EXCEPT ![w] = delegate']
    /\ UNCHANGED <<served, changes, failures, groupList, lists, reset, steady>>

\* The sync is over and forgets the mapper.
DropDelegate(w) ==
    /\ mapper' = [mapper EXCEPT ![w] = Unset]
    /\ UNCHANGED <<served, changes, failures, groupList, lists, delegate, reset, steady>>

ResetStep ==
    \/ BeginReset \/ EndReset
    \/ \E root \in Roots : FetchGroups(root)
    \/ \E g \in Groups : FetchList(g)

-----------------------------------------------------------------------------
(* Properties.                                                             *)

\* The mapper in use is the one the cache yields: no reset, and none that
\* failed half-way, leaves an older one behind.
DelegateIsCache == delegate # Unset => delegate = Cached

\* A reset takes away a kind that was served all the time in one case only: of
\* the two requests for the groups, just the one that lists its group was refused
\* with 403 or 404 (discovery_client.go: "ignore and return whatever we got from
\* /api").  No other failure of a request does (memcache.go: "will keep using
\* cached value", "retain the existing list, if we had it").
KnownKindsKept ==
    [][reset.step # "idle" /\ reset'.step = "idle" =>
         \A k \in Cached \cap steady :
            k \in Cached' \/ reset.refused = {RootOf(GroupOf[k])}]_mapperVars
=============================================================================
