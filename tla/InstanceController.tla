------------------------- MODULE InstanceController -------------------------
(***************************************************************************)
(* The AddonInstance controller (pkg/controller/instance) with everything  *)
(* it talks to: the API server that stores AddonInstances, the informer    *)
(* cache that lags behind it, the manifests and ConfigMaps instances are   *)
(* rendered from, and the target cluster the rendered objects live in.     *)
(*                                                                         *)
(* The worker loop is ControllerLoop; here the keys are AddonInstances and *)
(* a sync is the code of syncHandler and reconcile, one action per call    *)
(* that another process can run in between.  Two things can stop a sync    *)
(* short: a call that fails and a process that restarts.  How often such   *)
(* disturbances happen is bounded by one of the Budgets.                   *)
(*                                                                         *)
(* A manifest's content is abstracted to the list of objects it renders    *)
(* to, in the two orders kind_sorter.go puts them (see KindSorter).        *)
(***************************************************************************)
EXTENDS ControllerLoop

CONSTANTS None,
          Objects,    \* objects in the target cluster
          Contents,   \* versions of what a manifest renders to
          Install,    \* the objects of a content in InstallOrder
          Uninstall,  \* the objects of a content in UninstallOrder
          Container,  \* the Namespace or CRD an object needs, or None
          Custom,     \* objects whose kind is defined by their Container
          Manifest,   \* the content each instance refers to at first
          MaxRv,      \* bound on the writes of users to an instance
          Budgets     \* how often each disturbance happens, in each of the
                      \* scenarios

Disturbances ==
    {"any",      \* any of the following
     "call",     \* a request fails without effect (or a rendering error)
     "reply",    \* a write takes effect and its reply is lost
     "update",   \* the Update of an instance fails without effect
     "restart",  \* the controller process is restarted
     "relist",   \* the informer's watch breaks and it lists again
     "vanish",   \* a manifest or its ConfigMap is deleted or recreated
     "edit"}     \* a manifest or its ConfigMap gets other content

Instance == [rv : Nat, deleting : BOOLEAN, finalizer : BOOLEAN]

ASSUME InstanceAssumption ==
    /\ None \notin Objects \cup Contents \cup Instance
    /\ Install \in [Contents -> Seq(Objects)]
    /\ Uninstall \in [Contents -> Seq(Objects)]
    /\ \A c \in Contents : ElementsOf(Install[c]) = ElementsOf(Uninstall[c])
    /\ Container \in [Objects -> Objects \cup {None}]
    /\ Custom \subseteq Objects
    /\ Manifest \in [Keys -> Contents]
    /\ MaxRv \in Nat
    /\ Budgets \subseteq [Disturbances -> Nat]

VARIABLES inst,         \* AddonInstances in the API server
          rv,           \* the resourceVersion last given to each
          cache,        \* the informer's copy
          notify,       \* instances whose event handlers are still to run
          catalog,      \* what rendering an instance's manifest yields now
          present,      \* objects in the target cluster
          terminating,  \* of these, being deleted with what they contain
          task,         \* the local state of each worker's sync
          budget        \* disturbances left

apiVars == <<inst, rv>>
informerVars == <<cache, notify>>
targetVars == <<present, terminating>>
vars == <<loopVars, apiVars, informerVars, catalog, targetVars, task, budget>>

Steps == {"lookup", "render", "target", "objects", "finalize"}

\* held is the instance the lister returned; while shared is TRUE it is the
\* very object the cache holds, a pointer to it.  mapped are the objects whose
\* kind the REST mapper of this sync knows.
Task == [step : Steps, held : Instance \cup {None}, shared : BOOLEAN,
         todo : Seq(Objects), mapped : SUBSET Objects, erred : BOOLEAN]

NoTask == [step |-> "lookup", held |-> None, shared |-> FALSE,
           todo |-> <<>>, mapped |-> {}, erred |-> FALSE]

\* A worker has an instance in hand only in a sync, and always past the lister;
\* one whose copy is the cache's finds it there.
SyncState(w) ==
    /\ pc[w] # "sync" => task[w].held = None
    /\ task[w].step # "lookup" => task[w].held # None
    /\ task[w].shared => task[w].held # None /\ cache[cur[w]] # None

\* Every variable keeps its type, and no sync goes on with an instance that it
\* does not have (syncHandler, removeInstanceFinalizer).
TypeOK ==
    /\ LoopTypeOK
    /\ inst \in [Keys -> Instance \cup {None}]
    /\ rv \in [Keys -> Nat]
    /\ cache \in [Keys -> Instance \cup {None}]
    /\ notify \subseteq Keys
    /\ catalog \in [Keys -> Contents \cup {None}]
    /\ present \subseteq Objects
    /\ terminating \subseteq present
    /\ task \in [Workers -> Task]
    /\ \A w \in Workers : SyncState(w)
    /\ budget \in [Disturbances -> Nat]

Init ==
    /\ LoopInit
    /\ inst = [i \in Keys |-> None]
    /\ rv = [i \in Keys |-> 0]
    /\ cache = [i \in Keys |-> None]
    /\ notify = {}
    /\ catalog = Manifest
    /\ present = {}
    /\ terminating = {}
    /\ task = [w \in Workers |-> NoTask]
    /\ budget \in Budgets

Spend(d) ==
    /\ budget[d] > 0 /\ budget["any"] > 0
    /\ budget' = [budget EXCEPT ![d] = @ - 1, !["any"] = @ - 1]

-----------------------------------------------------------------------------
(* Users and the API server.                                               *)

\* An AddonInstance is created with Bouquet's finalizer, as the shoot
\* controller and the examples do.
CreateInstance(i) ==
    /\ inst[i] = None /\ rv[i] < MaxRv
    /\ rv' = [rv EXCEPT ![i] = @ + 1]
    /\ inst' = [inst EXCEPT ![i] = [rv |-> rv[i] + 1, deleting |-> FALSE,
                                    finalizer |-> TRUE]]
    /\ UNCHANGED <<loopVars, informerVars, catalog, targetVars, task, budget>>

\* A delete request sets deletionTimestamp: the finalizer keeps the object.
DeleteInstance(i) ==
    /\ inst[i] # None /\ rv[i] < MaxRv
    /\ ~inst[i].deleting
    /\ rv' = [rv EXCEPT ![i] = @ + 1]
    /\ inst' = [inst EXCEPT ![i].deleting = TRUE, ![i].rv = rv[i] + 1]
    /\ UNCHANGED <<loopVars, informerVars, catalog, targetVars, task, budget>>

\* Another write to the instance, of a label or an annotation.
TouchInstance(i) ==
    /\ inst[i] # None /\ rv[i] < MaxRv
    /\ rv' = [rv EXCEPT ![i] = @ + 1]
    /\ inst' = [inst EXCEPT ![i].rv = rv[i] + 1]
    /\ UNCHANGED <<loopVars, informerVars, catalog, targetVars, task, budget>>

EditCatalog(i) ==
    /\ \/ Spend("vanish") /\ catalog' = [catalog EXCEPT ![i] = None]
       \/ Spend("vanish") /\ catalog' = [catalog EXCEPT ![i] = Manifest[i]]
       \/ \E c \in Contents :
            Spend("edit") /\ catalog' = [catalog EXCEPT ![i] = c]
    /\ catalog' # catalog
    /\ UNCHANGED <<loopVars, apiVars, informerVars, targetVars, task>>

\* The target cluster finishes deleting a Namespace or a CRD.
Purge(o) ==
    /\ o \in terminating
    /\ LET gone == {o} \cup {x \in Objects : Container[x] = o} IN
         /\ present' = present \ gone
         /\ terminating' = terminating \ gone
    /\ UNCHANGED <<loopVars, apiVars, informerVars, catalog, task, budget>>

-----------------------------------------------------------------------------
(* The informer.                                                           *)

Behind(i) == IF inst[i] = None \/ cache[i] = None
               THEN inst[i] # cache[i]
               ELSE inst[i].rv # cache[i].rv

\* Whatever replaces objects of the cache leaves a sync with its old copy.
Unshare(I) ==
    task' = [w \in Workers |->
               IF cur[w] \in I THEN [task[w] EXCEPT !.shared = FALSE]
                               ELSE task[w]]

\* A watch event updates the cache; several may be compressed into one.
Deliver(i) ==
    /\ Behind(i)
    /\ cache' = [cache EXCEPT ![i] = inst[i]]
    /\ notify' = notify \cup {i}
    /\ Unshare({i})
    /\ UNCHANGED <<loopVars, apiVars, catalog, targetVars, budget>>

\* Mutant: the update handler ignores an object whose resourceVersion is old.
ResyncSkipsUnchanged(i) ==
    /\ cache[i] # None /\ i \notin notify
    /\ UNCHANGED vars

\* Every 30 s what is in the cache is sent to the handlers again, as it is.
Resync(i) ==
    /\ cache[i] # None /\ i \notin notify
    /\ notify' = notify \cup {i}
    /\ UNCHANGED <<loopVars, apiVars, cache, catalog, targetVars, task, budget>>

\* After a broken watch the reflector lists and replaces the whole cache.
Relist ==
    /\ Spend("relist")
    /\ cache' = inst
    /\ notify' = notify \cup {i \in Keys : cache[i] # None \/ inst[i] # None}
    /\ Unshare(Keys)
    /\ UNCHANGED <<loopVars, apiVars, catalog, targetVars>>

\* The event handler runs, after the cache was changed.
Notify(i) ==
    /\ i \in notify
    /\ notify' = notify \ {i}
    /\ Enqueue(i)
    /\ UNCHANGED <<apiVars, cache, catalog, targetVars, task, budget>>

-----------------------------------------------------------------------------
(* A sync: syncHandler and reconcile.                                      *)

At(w, s) == pc[w] = "sync" /\ task[w].step = s

Return(w, ok) ==
    /\ IF ok THEN SyncOK(w) ELSE SyncErr(w)
    /\ task' = [task EXCEPT ![w] = NoTask]

\* Mutant: an instance the lister does not find is logged, but synced.
LookupGoesOn(w) ==
    /\ At(w, "lookup")
    /\ task' = [task EXCEPT ![w].step = "render", ![w].held = cache[cur[w]],
                            ![w].shared = TRUE]
    /\ UNCHANGED <<loopVars, apiVars, informerVars, catalog, targetVars, budget>>

\* The lister's Get.  A deleted instance is nothing to sync.
Lookup(w) ==
    /\ At(w, "lookup")
    /\ LET i == cur[w] IN
         \/ cache[i] = None /\ Return(w, TRUE)
         \/ /\ cache[i] # None
            /\ task' = [task EXCEPT ![w].step = "render",
                                    ![w].held = cache[i],
                                    ![w].shared = TRUE]
            /\ UNCHANGED loopVars
    /\ UNCHANGED <<apiVars, informerVars, catalog, targetVars, budget>>

\* findManifestByRef, resolveManifest and Apply, for a deleted instance too.
Render(w) ==
    /\ At(w, "render")
    /\ LET c == catalog[cur[w]]
           held == task[w].held
       IN \/ c = None /\ Return(w, FALSE) /\ UNCHANGED budget
          \/ Spend("call") /\ Return(w, FALSE)
          \/ /\ c # None /\ held.deleting /\ ~held.finalizer
             /\ Return(w, TRUE) /\ UNCHANGED budget
          \/ /\ c # None /\ (held.deleting => held.finalizer)
             /\ task' = [task EXCEPT
                           ![w].step = "target",
                           ![w].todo = IF held.deleting THEN Uninstall[c]
                                                        ELSE Install[c]]
             /\ UNCHANGED <<loopVars, budget>>
    /\ UNCHANGED <<apiVars, informerVars, catalog, targetVars>>

\* The kinds discovery finds: a custom one as long as its CRD exists.
Known == {o \in Objects : o \in Custom => Container[o] \in present}

\* targetFromInstance: clients for the shoot and a snapshot of its kinds.  The
\* groups discovery fails for are left out of the snapshot without an error.
ResolveTarget(w) ==
    /\ At(w, "target")
    /\ \/ Spend("call") /\ Return(w, FALSE)
       \/ \E kinds \in SUBSET Known :
            /\ task' = [task EXCEPT ![w].step = "objects", ![w].mapped = kinds]
            /\ \/ kinds = Known /\ UNCHANGED budget
               \/ kinds # Known /\ Spend("call")
            /\ UNCHANGED loopVars
    /\ UNCHANGED <<apiVars, informerVars, catalog, targetVars>>

\* What the target cluster does with a request.  An object that is there, even
\* if it is terminating, makes Create fail with AlreadyExists, which the
\* controller takes as success.
Creatable(o) == Container[o] = None \/ Container[o] \in present \ terminating

CreateObject(o) ==
    /\ present' = present \cup {o}
    /\ UNCHANGED terminating

\* A Namespace or a CRD goes when its content is gone, other objects at once.
IsContainer(o) == \E x \in Objects : Container[x] = o

DeleteObject(o) ==
    IF IsContainer(o)
      THEN terminating' = terminating \cup (present \cap {o}) /\ UNCHANGED present
      ELSE present' = present \ {o} /\ UNCHANGED terminating

\* Mutant: NotFound is an error of Delete.
NextObjectMustExist(w) ==
    /\ At(w, "objects") /\ task[w].todo # <<>>
    /\ LET o == Head(task[w].todo)
           deleting == task[w].held.deleting
           refused == IF deleting THEN o \notin present
                                  ELSE o \notin present /\ ~Creatable(o)
           Proceed(failed) ==
             task' = [task EXCEPT ![w].todo = Tail(@),
                                  ![w].erred = @ \/ failed]
           Apply == IF deleting THEN DeleteObject(o) ELSE CreateObject(o)
       IN \/ /\ o \notin task[w].mapped \/ refused
             /\ Proceed(TRUE) /\ UNCHANGED <<targetVars, budget>>
          \/ /\ o \in task[w].mapped /\ ~refused
             /\ \/ Proceed(FALSE) /\ Apply /\ UNCHANGED budget
                \/ Proceed(TRUE) /\ Spend("call") /\ UNCHANGED targetVars
                \/ Proceed(TRUE) /\ Spend("reply") /\ Apply
    /\ UNCHANGED <<loopVars, apiVars, informerVars, catalog>>

\* One turn of the loop in ensureAddonInstanceObjects or
\* deleteAddonInstanceObjects: an error is remembered and the loop goes on.
NextObject(w) ==
    /\ At(w, "objects") /\ task[w].todo # <<>>
    /\ LET o == Head(task[w].todo)
           deleting == task[w].held.deleting
           refused == ~deleting /\ o \notin present /\ ~Creatable(o)
           Proceed(failed) ==
             task' = [task EXCEPT ![w].todo = Tail(@),
                                  ![w].erred = @ \/ failed]
           Apply == IF deleting THEN DeleteObject(o) ELSE CreateObject(o)
       IN \/ /\ o \notin task[w].mapped \/ refused
             /\ Proceed(TRUE) /\ UNCHANGED <<targetVars, budget>>
          \/ /\ o \in task[w].mapped /\ ~refused
             /\ \/ Proceed(FALSE) /\ Apply /\ UNCHANGED budget
                \/ Proceed(TRUE) /\ Spend("call") /\ UNCHANGED targetVars
                \/ Proceed(TRUE) /\ Spend("reply") /\ Apply
    /\ UNCHANGED <<loopVars, apiVars, informerVars, catalog>>

\* Mutant: the loop is left after the first object.
ObjectsDoneEarly(w) ==
    /\ At(w, "objects")
    /\ \/ task[w].erred /\ Return(w, FALSE)
       \/ ~task[w].erred /\ ~task[w].held.deleting /\ Return(w, TRUE)
       \/ /\ ~task[w].erred /\ task[w].held.deleting
          /\ task' = [task EXCEPT ![w].step = "finalize"]
          /\ UNCHANGED loopVars
    /\ UNCHANGED <<apiVars, informerVars, catalog, targetVars, budget>>

\* The end of the loop.
ObjectsDone(w) ==
    /\ At(w, "objects") /\ task[w].todo = <<>>
    /\ \/ task[w].erred /\ Return(w, FALSE)
       \/ ~task[w].erred /\ ~task[w].held.deleting /\ Return(w, TRUE)
       \/ /\ ~task[w].erred /\ task[w].held.deleting
          /\ task' = [task EXCEPT ![w].step = "finalize"]
          /\ UNCHANGED loopVars
    /\ UNCHANGED <<apiVars, informerVars, catalog, targetVars, budget>>

\* Mutant: the Update is sent without the resourceVersion that was read.
RemoveFinalizerBlindly(w) ==
    /\ At(w, "finalize")
    /\ LET i == cur[w] IN
         /\ cache' = IF task[w].shared
                       THEN [cache EXCEPT ![i].finalizer = FALSE] ELSE cache
         /\ inst' = [inst EXCEPT ![i] = None]
         /\ Return(w, TRUE)
    /\ UNCHANGED <<rv, notify, catalog, targetVars, budget>>

\* removeInstanceFinalizer: the finalizer is taken out of the object the lister
\* returned, which may be the one in the cache, and the object is sent as an
\* Update.  The API server compares resourceVersions and removes a deleted
\* instance with its last finalizer.
RemoveFinalizer(w) ==
    /\ At(w, "finalize")
    /\ LET i == cur[w]
           held == task[w].held
       IN /\ cache' = IF task[w].shared
                        THEN [cache EXCEPT ![i].finalizer = FALSE] ELSE cache
          /\ \/ inst[i] = None
                /\ Return(w, TRUE) /\ UNCHANGED <<inst, budget>>
             \/ inst[i] # None /\ inst[i].rv # held.rv
                /\ Return(w, FALSE) /\ UNCHANGED <<inst, budget>>
             \/ /\ inst[i] # None /\ inst[i].rv = held.rv
                /\ inst' = [inst EXCEPT ![i] = None]
                /\ \/ Return(w, TRUE) /\ UNCHANGED budget
                   \/ Return(w, FALSE) /\ Spend("reply")
             \/ Spend("update") /\ Return(w, FALSE) /\ UNCHANGED inst
    /\ UNCHANGED <<rv, notify, catalog, targetVars>>

SyncStep(w) == Lookup(w) \/ Render(w) \/ ResolveTarget(w) \/ NextObject(w)
                 \/ ObjectsDone(w) \/ RemoveFinalizer(w)

\* A new process lists all instances before its workers start.
RestartController ==
    /\ Spend("restart")
    /\ Restart
    /\ cache' = inst
    /\ notify' = {i \in Keys : inst[i] # None}
    /\ task' = [w \in Workers |-> NoTask]
    /\ UNCHANGED <<apiVars, catalog, targetVars>>

\* A step of the loop that the sync handler has no part in.
LoopStep(A) ==
    /\ A
    /\ UNCHANGED <<apiVars, informerVars, catalog, targetVars, task, budget>>

Next ==
    \/ \E i \in Keys : \/ CreateInstance(i) \/ DeleteInstance(i)
                       \/ TouchInstance(i) \/ EditCatalog(i)
                       \/ Deliver(i) \/ Resync(i) \/ Notify(i)
                       \/ LoopStep(Fire(i))
    \/ \E o \in Objects : Purge(o)
    \/ \E w \in Workers : SyncStep(w) \/ LoopStep(WorkerStep(w))
    \/ LoopStep(Receive)
    \/ Relist
    \/ RestartController

Spec == Init /\ [][Next]_vars

\* The scheduling ControllerLoop assumes; API calls return; watch events,
\* resyncs and handlers arrive; the target cluster finishes deletions.
Fairness ==
    /\ \A w \in Workers : /\ WF_vars(LoopStep(WorkerStep(w)))
                         /\ SF_vars(LoopStep(AddAfter(w)))
                         /\ WF_vars(SyncStep(w))
    /\ \A i \in Keys : /\ WF_vars(LoopStep(Fire(i)))
                      /\ WF_vars(Deliver(i))
                      /\ WF_vars(Resync(i))
                      /\ WF_vars(Notify(i))
    /\ \A o \in Objects : WF_vars(Purge(o))
    /\ WF_vars(LoopStep(Receive))

FairSpec == Spec /\ Fairness

-----------------------------------------------------------------------------
(* Properties.                                                             *)

Owned == [i \in Keys |-> ElementsOf(Install[Manifest[i]])]

\* While manifests keep their content, what is left in the target cluster
\* belongs to an instance that still exists: the finalizer is removed after
\* everything an instance renders to has been deleted, whatever stale copy,
\* retry, restart or recreation of the instance came in between.
NoOrphans ==
    present \ terminating \subseteq
      UNION {Owned[i] : i \in {j \in Keys : inst[j] # None}}

\* The abstract life of an instance and its objects.
Lifecycle == INSTANCE AddonLifecycle
               WITH Instances <- Keys,
                    phase <- [i \in Keys |->
                                IF inst[i] = None THEN "absent"
                                ELSE IF inst[i].deleting THEN "deleting"
                                ELSE "live"],
                    installed <- present \ terminating

\* Every step of the controller is a step of that life, or none.
ImplementsLifecycle == Lifecycle!Spec

\* An instance that is being deleted goes away in the end, if its manifest
\* stays (README.md: "If an AddonInstance is deleted, Bouquet will also make
\* sure that the created objects are deleted as well"; the finalizer is what
\* Bouquet reacts on).
DeletionCompletes ==
    \A i \in Keys :
      <>[](catalog[i] # None) =>
        ((inst[i] # None /\ inst[i].deleting)
           ~> (inst[i] = None \/ ~inst[i].deleting))

\* The objects of an instance that stays, and whose manifest stays, exist in
\* the end and stay (README.md: "ensure that the objects exist in the target
\* shoot"): also those that another instance deleted, and those a later edit of
\* the manifest added, of which no event tells the controller.
InstallConverges ==
    \A i \in Keys, c \in Contents :
      <>[](inst[i] # None /\ ~inst[i].deleting /\ catalog[i] = c)
        => <>[](ElementsOf(Install[c]) \subseteq present \ terminating)

\* When no instance is left, nothing any instance created is left (README.md:
\* "Bouquet will also make sure that the created objects are deleted as well").
CreatedObjectsDeleted ==
    (\A i \in Keys : inst[i] = None) => present \subseteq terminating
=============================================================================
