# Bouquet, specified

TLA+ specifications of Bouquet, the addon manager for Gardener: two Kubernetes
controllers in one process. They are model-checked with TLC on small instances;
the theorems are proved with TLAPS for every value of the constants. Paths
below are relative to `src/`.

## The system

| part | code | state | operations |
|---|---|---|---|
| work queue and worker loop | `pkg/controller/{instance/instance.go,shoot/shoot.go}`, `vendor/k8s.io/client-go/util/workqueue` | queue, dirty and processing sets, failure counts, channel and heap of delayed keys | Add, Get, Done, Forget, NumRequeues, AddRateLimited, ShutDown, `processNextWorkItem`, `Run` |
| AddonInstance controller | `pkg/controller/instance/{instance,instance_control,client}.go` | none of its own: finalizer in the API server, objects in the target cluster | `syncHandler`, `reconcile`, ensure / delete objects, `removeInstanceFinalizer` |
| Shoot controller | `pkg/controller/shoot/{shoot,shoot_control}.go` | none of its own: AddonInstances it creates | `extractAddonManifests`, `ensureAddons` |
| manifest lookup and sources | `pkg/controller/common/manifest.go`, `pkg/controller/instance/manifest.go`, `pkg/apis/garden/v1alpha1/types.go` | manifests in the informer cache, ConfigMaps | `FindManifestForRange`, `findManifestByRef`, `resolveManifest`, `Apply` |
| kind sorter | `pkg/controller/instance/kind_sorter.go` | a slice | `Less`, `Swap`, `SortObjects` |
| target cluster access | `instance_control.go:36-98`, `client.go` | none: one request after the other in every sync | `targetFromInstance`, `targetFromShoot`, `shootRestConfig`, `seedClient` |
| REST mapper of the local cluster | `cmd/main.go:67-75`, `vendor/k8s.io/client-go/{restmapper/discovery.go,discovery/cached/memcache.go,discovery/discovery_client.go}` | discovery cache, the mapper built from it | `Reset`, `Invalidate`, `getDelegate` |
| informers and listers | `pkg/client/{informers,listers}`, `vendor/k8s.io/client-go/tools/cache` | reflector's resourceVersion, DeltaFIFO, indexer, pending notifications | list, watch, `Replace`, `Resync`, `Pop`, `HandleDeltas`, handlers, `HasSynced`, `Get`, `List` |
| process | `cmd/main.go`, `pkg/signals`, `pkg/client/informers/externalversions/factory.go` | stopCh, the factories' informers | `InformerFor`, `Start`, `WaitForCacheSync`, `Run`, signal, exit |
| API types | `pkg/apis/garden/v1alpha1` | the objects all parts share | `DeepCopy`, `NameAndVersion` |

They interact as follows. Informers call the event handlers, which `Add` a key.
Two workers per controller take keys and sync them. The Shoot controller reads
Shoots and manifests from caches and creates AddonInstances in the API server;
the instance controller sees these through its informer, renders the manifest
they refer to, creates or deletes the rendered objects in the target cluster,
and takes its finalizer off a deleted instance by an Update. Nothing else is
shared, but for one pointer: the object a lister returns is the object in the
cache.

What is hard here:

* concurrency: two workers and the handlers on one queue; a failure is counted
  after the key was released; delayed keys go through a bounded channel to a
  goroutine with a heap;
* staleness: everything a sync reads from a cache is old, and instances are
  deleted and created again meanwhile; manifests may change or disappear;
* partial failure: any call fails, or takes effect without a reply; loops over
  objects go on after an error; the process dies between two of them; one of
  the requests of a discovery or of the way to a shoot fails;
* lost events: a watch breaks while an object is deleted, and a list may be
  older than the watch was; a resync competes with what is queued;
* ordering: kinds are sorted by a table that does not know them all; kinds are
  discovered before the CRD that defines them is created;
* liveness: no event tells of a changed manifest, an exhausted retry or an
  object another instance deleted. Only the resync every 30 s does.

What makes each part correct: a key is synced by one worker at a time, retried
a bounded number of times and not lost; an instance disappears only after its
objects, and its objects appear and stay as long as it does; a shoot's usable
annotation gets all its instances and an unusable one none, without versions
going back; the latest manifest is found in whatever order they are listed, and
found again from the reference; objects are sorted into the documented order;
a shutdown is not blocked and drains the queue. A cache never goes back and
catches up, and its handlers are told of every change; the kinds that are known
are the ones there are, in the end; a sync works on the cluster of a Shoot that
is there; a copy shares nothing with its original; the controllers start when
their caches can, and a signal, and nothing else, ends the process.

## Modules

```
KeyedTasks  <-- implements --  ControllerLoop  <-- EXTENDS --  InstanceController -- implements --> AddonLifecycle
                                     ^------------ EXTENDS --  ShootController
CacheFeed   <-- implements --  SharedInformer        (what Deliver, Relist, Resync and Notify of both abstract)
DiscoveryMapper <-- EXTENDS -- Process               (main, both controllers' Run, the factories, the mapper they share)
ManifestLookup   KindSorter   DeepCopy   TargetAccess   (the steps of a sync that keep no state, on their own)
```

**ControllerLoop** is the loop both controllers hold a copy of, with the
rate-limited delaying queue under it. One action is one critical section of the
code: a method of the queue (its mutex), of the limiter (`failuresLock`), or an
operation on `waitingForAddCh`. A worker's `pc` is its place in
`processNextWorkItem`: `get`, `sync`, `forget`/`synced` after success, `failed`,
`check` (NumRequeues, after Done), `requeue` (the limiter's When), `add`
(AddAfter). What a sync does is open (`SyncOK`, `SyncErr`), so what holds here
holds for both controllers. `CloseStopCh`, `ShutDown` and `Restart` end it.
A delay is any time at all; a delayed key fires at any moment. The heap is a
set, since `waitingEntryByData` keeps a key once.

**KeyedTasks** is what such a queue promises: a set of requested keys and a set
of active ones; a requested key that is not active is begun in the end.

**InstanceController** puts the real sync between `TakeKey` and
`SyncOK`/`SyncErr`, one action per call another process can run in between:
`Lookup` (lister), `Render` (`findManifestByRef`, `resolveManifest`, `Apply`),
`ResolveTarget`, `NextObject` (one turn of the create or delete loop),
`ObjectsDone`, `RemoveFinalizer`. Around it: the API server's instances (`inst`,
`rv`), the informer (`cache`, `notify`: `Deliver`, `Resync`, `Relist`, `Notify`),
what rendering yields at the moment (`catalog`), and the target cluster
(`present`, `terminating`). A content of a manifest is the list of objects it
renders to in each order. `Container` makes an object need a Namespace or CRD,
`Custom` makes its kind unknown without it. `shared` says that a worker's copy
is still the very object in the cache: `RemoveFinalizer` then changes the cache
too, before its Update, as `instance_control.go:155` does.

**AddonLifecycle** is the promise: an instance is absent, live or deleting, its
objects are put while it exists, those that are its alone are removed only while it
is being deleted, several at once where a Namespace takes along its contents, and
it goes when none is left that is not another's.

**ShootController** puts the other sync there: `Lookup` (lister, deletion, JSON
and duplicate check), `ExtractManifest` (one turn, with a List of its own),
`ExtractDone`, `EnsureAddon` (one Create), `EnsureDone`. `InstanceName` is a
parameter: `getAddonInstanceName` joins with a dash, so different pairs may
share a name. `made` and `published` are history variables. UIDs are left out:
a Shoot created again under its name finds the names of its instances taken.

**ManifestLookup** is the way from a name to a source: the search over all
namespaces for any version, the reference, the search in one namespace for the
reference's version read as a range, and the choice of the source. It keeps what
the parsers do: a name without version gives an empty name, an unparsable
version gives 0.0.0, and an `x` anywhere makes `ParseRange` expand a wildcard
and fail. The lister returns the manifests in any order. Stages `badRange` and
`noSource` are real dead ends: an instance of version `1.0.0-exp` can be neither
rendered nor finalized (`manifest.go:102`), and a manifest that has only
`configMapHelm` is never rendered, as `resolveConfigMapHelm` asks for the
ConfigMap named by `configMap` (`manifest.go:163`). No run is spent on them.

**KindSorter** is Less, Swap, and the insertion sort that Go's `sort.Sort` runs
on up to 12 elements; its preceding pass of gap 6 changes nothing up to 6
elements, which bounds `MaxObjects`. The slice starts in any order, because
`ParseMappedFileContents` ranges over a map.

**SharedInformer** is one informer from the API server to the handlers. The API
server is a log of writes and a resourceVersion is a length of it. An action is
a critical section of the DeltaFIFO's lock: `Replace`, one `WatchEvent`,
`Resync`, `Pop`; since Pop keeps the lock while it works off a key (`hand`),
nothing else gets at the FIFO until `HandleDelta` has applied all its deltas,
but listers and handlers run in between. `Queued` is dedupDeltas and
willObjectBeDeletedLocked, `Replaced` finds what a list lacks. `upTo` is a
history variable: the moment of the log that the cache's version of an object
is of. **CacheFeed** is the promise to readers: an object is shown as it was at
some moment, never as it was before that, and finally as it is.

**DiscoveryMapper** is the mapper for instances without a shoot. `BeginReset`,
`FetchGroups` (for `/api` and then for `/apis`), `FetchList` and `EndReset` are
the steps of a reset, with requests that fail and kinds that come and go in
between; `getDelegate` waits for it, as both take `initMu`. A list that fails
keeps its old content, as `memcache.go:149` does, and so does the whole cache if
the groups cannot be listed (`memcache.go:137`). One failure is different:
`ServerGroups` takes a 403 or 404 of `/api` or `/apis` for an empty list
(`discovery_client.go:143-156`), and `Invalidate` stores the groups of the other
request alone. All kinds of the missing groups are then unknown, to syncs of
local targets, until a later reset, although they are served; only when no
group at all is left the cache is kept. `KnownKindsKept` says that this is the
one case in which a known kind is lost, and which kinds it can be;
`reset.refused` is a history of the requests that were refused.

**Process** puts that mapper into the program: `BuildClients`, `FirstReset`,
`NewController` of each controller in the order of `main.go`, `GoAll` (both
factories' `Start` and both Runs, which then go on in any order), and the
signals. An informer is a number, so that two informers of one type would be
told apart. `servable` are the resources the API server has: an informer of
another one never syncs, and its controller waits for it.

**TargetAccess** is the chain of requests of `targetFromInstance`. Shoots of one
name follow each other and have different clusters; what the sync has read may
be out of date at each step. A sync may get the cluster of an earlier or a later
Shoot of that name than the one it read, if the other one was there while it
ran, since the namespace in the seed is computed from the name.

**DeepCopy** copies an object part by part; a part is a map or a slice. Which
parts get copies of their own is translated method by method, from
`zz_generated.deepcopy.go` and the methods in `types.go` it calls. A copy of a
manifest with nil `Dependencies` has an empty map there: it reads alike, but is
not equal to the original by `reflect.DeepEqual`, so client-go's cache mutation
detector, which is on with `KUBE_CACHE_MUTATION_DETECTOR`, would report a
manifest nobody has changed.

**MCParts** runs the parts of which only safety is checked in one run, one part
at a time. The `MC*` modules give the constants values; the `*Proofs` modules hold the
theorems. A definition marked `Mutant` is a plausible bug: put in the place of
the definition it varies, TLC finds a property violated.

## What TLC checks

| run | question and bounds |
|---|---|
| `parts` | One part at a time. Loop: 2 keys, 2 workers, channel of 2, 2 retries, unbounded events, syncs, restarts: `QueueInv` (queue.go's comment and its converse), `OneWorkerPerKey`, `RetryBound`, `NoRetryLost`, `DrainedBeforeExit`. Lookup: every cluster of up to three of 21 manifests, every name, every list order: `LatestChosen`, `RefIdentifiesManifest`. Sort: every slice of up to four objects of six kinds, both orders: `SortedWhenTame`. Copies: every shape of all four types with nil, empty or filled parts: `SourceUntouched`, `CopyReadsAlike`. Target: 3 Shoots that follow each other, 2 seeds, any request fails: `TargetOfShoot`. |
| `loop_live` | 2 keys, 1 worker, channel of 1, 2 retries, fair. `ImplementsKeyedTasks`, `RetriesSettle`, `StopReachesWorkers`. |
| `instance_safety` | 1 instance, 2 workers, a Namespace and a ConfigMap in it, three writes by users (created, deleted, created again), any three of: failing call (of which a manifest that is gone is one, for safety), lost reply, failing Update, restart, relist. `NoOrphans`, `ImplementsLifecycle`. |
| `instance_live` | 1 worker, in one of two scenarios (`Budgets`): a failing call, a lost reply, a restart and an edit, or a manifest that goes away and comes back and a lost reply. Either is enough to use up `MaxRetries = 1`; while the manifest is away every sync fails, and only the resync takes the instance up again. `DeletionCompletes`, `InstallConverges`. |
| `instance_shared` | 2 instances that share a CRD, one with a custom object of its kind. `InstallConverges`. |
| `shoot` | 1 Shoot, 2 addons, 3 manifests, usable, broken and duplicate annotations, any three disturbances. `AllOrNothing`, `NoDowngrade`, `AddonsEnsured`. |
| `informer` | 2 objects, 3 writes, 2 broken watches, lists of any age the reflector may meet, resyncs. `FifoConsistent` (delta_fifo.go's comment), `HandlersFollowCache`, `SyncedMeansListed`, `ImplementsCacheFeed`, `HandlersInformed`. |
| `process` | 2 kinds in 2 groups, listed at `/api` and `/apis`, of which the second comes and goes, a discovery request that fails or is refused, a worker, any signals, an API server with all resources, without Shoots, or with nothing else. `DelegateIsCache`, `KnownKindsKept`, `EndsOnlyWhenTold`, `ControllersStart`, `SignalEndsProcess`, `MapperConverges`. |

Why the bounds suffice: two keys and two workers give every pair of actors in the
queue, a channel of one or two is full when it should be, and the retry count
reaches its bound; what needs more is proved without bounds. One worker is
enough in the temporal runs of the controllers: `QueueCorrect` proves that
syncs of one key do not overlap, whatever the number of workers. Three writes
let an instance be recreated under a worker that still holds the old one, and
let an object be created, deleted and created again while its informer's watch
is broken; the second break leaves a relist that meets what the first one left.
Two Shoots of a name are what `TargetOfShoot` needs, the third one replaces a
Shoot that has itself replaced one. Three objects and an order of two known
kinds make every comparison the sort can get wrong; the proof has no bound.

Deadlock is not checked where users' actions are bounded, since such a system
comes to rest, nor where the process ends; it is checked for the loop with its
fairness and for the informer. Symmetry is used only where no liveness
property is checked.

Fairness: goroutines are scheduled, timers fire, API calls return (with an answer or
an error), watch events and resyncs arrive, handlers run, and the target
cluster finishes deletions. `AddAfter` is strongly fair, because Go
serves the goroutines blocked on a channel in their order. No fairness is assumed
of users, failures, restarts or edits, and they are bounded, since a disturbance
that never ends could keep any controller from converging. In `informer`,
`Replace` and `WatchEvent` are strongly fair: they wait for the FIFO's lock,
which resyncs (every 30 s) and the loop ask for as well, and Go's mutex hands
itself over to a waiter after a millisecond. In `process` nobody need send a
signal and nothing need change; informers of resources that exist sync, which is
what `informer` is about. The Shoot's
run assumes that a deleted instance is finalized, which is `DeletionCompletes`.

### Where the code does not do what is said

| run | what it shows |
|---|---|
| `instance_stuck` | one failed Update leaves an instance Terminating: the finalizer was taken out of the cached object first, so no later sync tries again. `instance_live` holds only as Updates do not fail in it. |
| `instance_crd` | an instance whose CRD is not there (never installed, or already gone) cannot be finalized: its custom objects fail to map on every pass. |
| `instance_orphans` | objects to delete are rendered from the manifest as it is now; what an earlier content created stays. `NoOrphans` holds only while contents are not edited. |
| `sorter_all` | a kind missing from the order counts as the first one and is compared by name; the comparison is no order, and a Secret can come before its Namespace. |

## What is proved

`ControllerLoopProofs`, from `LoopAssumption` alone:

* `LoopTypeCorrect`: `LoopSpec => []LoopTypeOK`, which also says that a worker
  has a key exactly from Get to the end of `processNextWorkItem`.
* `QueueCorrect`: `LoopSpec => []QueueInv`, and with it that no key has two
  workers. `QueueInv` is not inductive: that `Done` puts back the right keys needs
  `processing` to be exactly what the workers hold, and that in turn that no two
  hold the same key, which needs `QueueInv`. The inductive invariant is the
  conjunction.
* `RetryBounded`: `failures[k] <= MaxRetries + Cardinality(Workers) - 1`. The
  strengthening counts the workers that have passed the check and not counted
  yet: `failures[k]` plus their number stays within the bound.
* `RetriesKept`: `LoopSpec => []NoRetryLost`. Given `QueueInv` it is inductive: the
  key that `Get` takes out of the dirty set is the one its worker then carries,
  to the channel, the heap, or a failure count of zero.
* `ShutdownDrains`: `LoopSpec => []DrainedBeforeExit`. The strengthening says
  that once a worker has stopped the queue is shut down, and that no key is
  dirty as soon as no worker is in its loop: the one that stops last finds the
  queue empty and no key held, and `Add` does nothing after ShutDown.
* `LoopStepsAreTasks`: the first state and every step of the loop are one of
  `KeyedTasks`, or none. The fairness of that specification stays with TLC.

`ShootControllerProofs` and `InstanceControllerProofs`: `ShootIsLoop` and
`InstanceIsLoop`, `Spec => LoopSpec`. The end of a real sync is one of the ends the
loop allows, and nothing else the controller does touches the queue. So every
theorem above holds of both controllers (`ShootQueueCorrect`,
`InstanceQueueCorrect`).

`ShootControllerProofs`, from `ShootAssumption` and `InstanceNameAssumption` as well:
`TypeCorrect` and `AllOrNothingHolds`. Their inductive invariant is `TypeOK /\ ShootIInv /\
AllOrNothing`: `Checked` says of every sync that each addon of its annotation is
still to be looked up or had a manifest, and that none is left to look up once
it creates instances. Manifests withdrawn meanwhile do not matter, as
`AllOrNothing` speaks of what was ever published. `VersionsNeverFall`: `Spec =>
NoDowngrade`. Its invariant `VersionIInv` says that instances are made of, and
syncs have found, what was published; and while nothing was withdrawn, that all
of it is still there, that what a sync has found for one addon is in the order
of its versions, and that none of it is older than what its instance was last
made from. It needs `QueueCorrect`, as two workers on one Shoot could overtake
each other, and `InstanceNameAssumption`, that Shoots do not share the name of
one addon's instance: it is the Shoot's name and the addon's, joined, in the
Shoot's namespace, so only different addons can meet in one name.

`KindSorterProofs`: `TypeCorrect`, and `SortCorrect`, that the sort yields the
documented order for any kinds, names and number of objects, provided that no missing
kind meets the first one. The inductive invariant says that up to the outer index no
later object precedes an earlier one, except the one at the inner index, which
may still have to move forward.

`InstanceControllerProofs`, from `InstanceAssumption` and the assumptions of the
queue:

* `InstanceTypeCorrect`: `Spec => []TypeOK`, whose hard part is the write
  through the pointer the lister returned: it needs that the cache still has that
  object. `SyncState`, the part of `TypeOK` about syncs, says so: a
  worker has an instance in hand only in a sync and always past the lister, and
  where that instance is the cache's own object, the cache still has it.
* `NothingOrphaned`: `Spec => []NoOrphans` while no content is edited
  (`b["edit"] = 0` for all `Budgets`; with edits TLC finds the run `instance_orphans`). `NoOrphans`
  needs nearly everything the controller relies on. `OrphanIInv` says of the
  versions that neither the cache nor a copy in a sync is ahead of the API server,
  that a resourceVersion identifies a version, and that an instance that is gone
  was not last seen as one to install (`VersionOf`); of a sync that it starts with all its instance owns and
  finalizes only with an empty list and no error (`SyncContents`); and of every
  object there is that it belongs to an existing instance no worker has already
  cleared it for (`Needed`). That two workers do not create and delete for one
  instance at a time is `InstanceQueueCorrect`.
* `InstanceLives`: `Spec => ImplementsLifecycle`, again while no content is edited,
  and if `ContainersApart`: what one instance alone owns does not lie in a
  Namespace or CRD that another one renders. (Where it does, the other's deletion
  takes it along, and only the resync brings it back: `instance_shared`.) Objects may be
  shared. `LifeIInv` says two things more. `Recreated`: when an instance exists
  again and the cache, or the copy in a sync, is still of the deletion of the one
  before, nothing of its own is installed, and no sync that would install it is under way;
  so the worker that goes on deleting finds nothing to delete.
  `Sinking`: what lies in a container that is terminating is of an instance that
  is being deleted; so nothing else goes with the container.

`ManifestLookupProofs`: `TypeCorrect`; `LatestCorrect`, that the search ends
with a match no other match is later than, for any list and range; its invariant
`BestSoFar` says that of the part of the list already seen. `ReferenceFound`:
`LookupSpec => []RefIdentifiesManifest`; a listing of all objects has all of them (by
its length), the part already searched does not have the one that is looked for,
and namespace, name and version are of one manifest only.

`SharedInformerProofs`, from `InformerAssumption`: `InformerTypeCorrect`, `FifoCorrect`,
`SyncedCorrect`, `HandlersTold` and `InformerFeeds`.

* The invariant `InformerIInv` is about the deltas of a key that are still to be
  applied, in `hand` first and then in the FIFO. `Chain` says that they are
  versions the key had in the log, one not before the other, none before what the
  cache shows or the first list, none after the reflector's resourceVersion, and
  that a deletion only follows a version, be it the one in the cache. `Shown`
  says that what the cache shows the key was at `upTo`.
  `HandState` says what holds while the FIFO's lock is kept; `Counted`, that every
  key of the first list that is not applied yet is still counted, which is what
  `HasSynced` goes by. Dedupe, `Replace`, a watch event and a resync each keep
  the chain.
* `InformerFeeds` follows: a delta that is applied shows a moment not before the
  one shown. It is the safety part of `ImplementsCacheFeed`.
* `HandlersKnow` is `HandlersFollowCache` object by object, with the last
  notification about an object found by the well-founded order of the naturals.
* All of it holds for `Hasty = TRUE` too: when a list meets deltas that are still unread,
  it is only the catching up that fails.

`PartsProofs`, the two parts that are too small for a module of their own:

* `CopyCorrect` and `CopyIndependent`: `CopySpec => []CopyReadsAlike` and
  `CopySpec => SourceUntouched`. What is still to be copied is all that the copy
  shares with its original, and what has been copied reads alike; so when the
  copy is returned nothing is shared, as the parts the code copies are all the
  parts there are.
* `TargetCorrect`: `TargetSpec => []TargetOfShoot`. The invariant says that a Shoot
  which is there during a sync was noticed by it, that a shoot's kubeconfig is
  only in its own seed, and that what a sync found is of a Shoot it noticed.

`ProcessProofs`: `MapperCurrent` (`DelegateIsCache`), `KindsNotForgotten`
(`KnownKindsKept`: what was served all the time is in a group the reset has found,
unless the request that lists the group was refused, and if it was cached, in the
list fetched or retained for that group; a reset that goes on to the lists has
groups, so one of the two requests was answered, `GroupsAnswered`),
`OnlySignalsEnd` (`EndsOnlyWhenTold`, as a Run returns only after a signal), and
`ProcessTypeCorrect`. The type invariant bounds the informers by what the factories
made: its strengthening `Requested` says that the instance controller makes two
and the Shoot controller finds one of them and makes one more.

Only model-checked is everything under fairness, which is out of TLAPS's reach: the
temporal properties of `loop_live`, `instance_live`, `instance_shared`, `shoot`,
`informer` and `process`, and of the refinements of KeyedTasks and CacheFeed the part
that says what happens in the end. Every invariant and every action property of
a passing run is a theorem, for all values of the constants its hypotheses admit.

## What is not modelled, and simplifications

* Rendering (Helm, Sprig templates, YAML decoding) is a list of objects or an
  error. Default values of a chart are never merged (`manifest.go:85`); nothing
  here depends on them.
* SharedInformer: lists and watches are served by one API server, whose watch
  cache may lag but does not go back; with several of them a list of
  resourceVersion 0 (`reflector.go:246`) may be older than the cache, and so
  take it back. The FIFO has been worked off when the next list comes, as the
  reflector waits for a second in between; with `Hasty = TRUE` TLC finds a relist
  that takes an object for gone, or for there, by what is still queued. A resync
  is due only when the last one was worked off (30 s). An informer has one
  listener, which takes part in every resync. A watch sends no event of an
  unknown type or bookmark.
* TargetAccess: Gardener puts a shoot's kubeconfig into its seed and takes it
  away before the Shoot goes. The namespace of a shoot is computed for the
  project `garden-dev` (`client.go:77`); shoots of other projects would not be
  found, and only what Gardener names its namespaces decides on that. When the
  Shoot is gone before its instance, every sync of the instance fails.
* Process: what controllers do between start and return is in their modules; an
  informer that runs in vain goes on trying.
* In InstanceController the stop channel is not closed; a restart at any moment
  covers what it may cut off. Several watch events may be compressed into one.
* All instances are created with Bouquet's finalizer and have no other.
* Taking off the finalizer and the arrival of the Update are one step.
* Manifests are those in the informer's cache; lag only delays a change.
* InstanceController has one target cluster, to which the chain of TargetAccess
  is one call that may fail; discovery may miss kinds.
* A request does not outlive the process that sent it.
* Greedy matching of names such as `a-1.0.0-2.0.0` is left out.
* Owner references and garbage collection: the reference's API version
  (`shoot_control.go:88`) is a printed group, version and kind, and what a
  garbage collector makes of it is outside this code.
* Of the generated clients what nobody calls (Patch, UpdateStatus, deletions),
  their construction, and the fakes, which no test uses; scheme registration; the
  Helm chart of Bouquet itself and its scripts.

## Plan

Done: the modules above, in the order ControllerLoop, InstanceController,
KindSorter, ManifestLookup, ShootController, DiscoveryMapper, Process,
SharedInformer, DeepCopy, TargetAccess. What could follow:

1. `Bouquet`: ShootController and InstanceController over one API server, down to
   "an addon a Shoot asks for is installed in its cluster". The two are already
   tied by what each assumes of the other: the shoot's run that a deleted
   instance is finalized, which is `DeletionCompletes`.
2. Proofs: `NothingOrphaned` and `InstanceLives` for manifests whose edits only
   add objects, where `Owned` would have to follow the content.
