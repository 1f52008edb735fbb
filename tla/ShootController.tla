--------------------------- MODULE ShootController ---------------------------
(***************************************************************************)
(* The Shoot controller (pkg/controller/shoot): a Shoot whose annotation   *)
(* names addons gets an AddonInstance for each of them, made from the      *)
(* latest manifest of that name.  Around it are the Shoots and manifests   *)
(* as its informers have seen them, and the AddonInstances of the API      *)
(* server, which others delete.                                            *)
(*                                                                         *)
(* The worker loop is ControllerLoop; the keys are Shoots.  The choice of  *)
(* a manifest is what ManifestLookup shows of FindManifestForRange: any of *)
(* the manifests with the latest version.                                  *)
(***************************************************************************)
EXTENDS ControllerLoop

CONSTANTS None,
          Broken,        \* an annotation that is no JSON list of strings
          Addons,        \* names of addons
          Annotations,   \* the annotations users write
          Manifests,     \* [addon, ns, version] of the manifests there may be
          Initial,       \* the sets of them there may be at first
          Names,         \* names of AddonInstances
          InstanceName,  \* getAddonInstanceName: shoot and addon with a dash
          Budget         \* how often each disturbance happens

Disturbances ==
    {"any",       \* any of the following
     "call",      \* the creation of an instance fails without effect
     "reply",     \* it takes effect and its reply is lost
     "restart",   \* the controller process is restarted
     "annotate",  \* a user changes or removes the annotation
     "publish",   \* a manifest is added
     "withdraw",  \* a manifest is deleted
     "shoot",     \* a user deletes a Shoot
     "delete"}    \* a user deletes an AddonInstance

Manifest == [addon : Addons, ns : STRING, version : Nat]

\* The UID is left out: a Shoot that is created again under its name takes
\* over the instances of the former one, as their names exist already.
Shoot == [deleting : BOOLEAN, annotation : Seq(Addons) \cup {Broken, None}]

ASSUME ShootAssumption ==
    /\ None \notin Annotations /\ Annotations \subseteq Seq(Addons) \cup {Broken}
    /\ Broken \notin Seq(Addons)
    /\ Initial \subseteq SUBSET Manifests
    /\ Manifests \subseteq Manifest /\ None \notin Manifest \cup Shoot
    /\ InstanceName \in [Keys \X Addons -> Names]
    /\ Budget \in [Disturbances -> Nat]

\* An addon has the same suffix in the names of its instances, so those of two
\* Shoots differ; only those of different addons can be alike.
ASSUME InstanceNameAssumption ==
    \A k, l \in Keys, a \in Addons : InstanceName[k, a] = InstanceName[l, a] => k = l

VARIABLES shoots,     \* the Shoots in the informer's cache
          notify,     \* Shoots whose event handlers are still to run
          manifests,  \* the AddonManifests in the informer's cache
          published,  \* history: all that were ever there
          instances,  \* AddonInstances in the API server
          made,       \* history: what each name was last created from
          task,       \* the local state of each worker's sync
          budget      \* disturbances left

shootVars == <<shoots, notify>>
manifestVars == <<manifests, published>>
instanceVars == <<instances, made>>
vars == <<loopVars, shootVars, manifestVars, instanceVars, task, budget>>

Instance == [manifest : Manifest, deleting : BOOLEAN]

\* names are the addons still to be looked up, found the manifests whose
\* instances are still to be created.
Task == [step : {"lookup", "extract", "ensure"}, held : Shoot \cup {None},
         names : Seq(Addons), found : Seq(Manifest), erred : BOOLEAN]

NoTask == [step |-> "lookup", held |-> None, names |-> <<>>, found |-> <<>>,
           erred |-> FALSE]

TypeOK ==
    /\ LoopTypeOK
    /\ shoots \in [Keys -> Shoot \cup {None}]
    /\ notify \subseteq Keys
    /\ manifests \subseteq published /\ published \subseteq Manifests
    /\ instances \in [Names -> Instance \cup {None}]
    /\ made \in [Names -> [manifest : Manifest, annotation : Seq(Addons)]
                            \cup {None}]
    /\ task \in [Workers -> Task]
    /\ budget \in [Disturbances -> Nat]
    /\ \A w \in Workers : pc[w] # "sync" => task[w] = NoTask

Init ==
    /\ LoopInit
    /\ shoots = [k \in Keys |-> None]
    /\ notify = {}
    /\ manifests \in Initial /\ published = manifests
    /\ instances = [n \in Names |-> None]
    /\ made = [n \in Names |-> None]
    /\ task = [w \in Workers |-> NoTask]
    /\ budget = Budget

Spend(d) ==
    /\ budget[d] > 0 /\ budget["any"] > 0
    /\ budget' = [budget EXCEPT ![d] = @ - 1, !["any"] = @ - 1]

-----------------------------------------------------------------------------
(* Users, the API server and the instance controller.                      *)

\* isTargetShoot: the handlers ignore a Shoot without the annotation.
SeeShoot(k, shoot) ==
    /\ shoots' = [shoots EXCEPT ![k] = shoot]
    /\ notify' = IF shoot.annotation = None THEN notify ELSE notify \cup {k}

CreateShoot(k) ==
    /\ shoots[k] = None
    /\ \E a \in Annotations \cup {None} :
         SeeShoot(k, [deleting |-> FALSE, annotation |-> a])
    /\ UNCHANGED <<loopVars, manifestVars, instanceVars, task, budget>>

Annotate(k) ==
    /\ shoots[k] # None /\ Spend("annotate")
    /\ \E a \in (Annotations \cup {None}) \ {shoots[k].annotation} :
         SeeShoot(k, [shoots[k] EXCEPT !.annotation = a])
    /\ UNCHANGED <<loopVars, manifestVars, instanceVars, task>>

DeleteShoot(k) ==
    /\ shoots[k] # None /\ ~shoots[k].deleting /\ Spend("shoot")
    /\ SeeShoot(k, [shoots[k] EXCEPT !.deleting = TRUE])
    /\ UNCHANGED <<loopVars, manifestVars, instanceVars, task>>

\* The Shoot is gone.  A relist reports that with a tombstone, which
\* isTargetShoot takes for no Shoot.
RemoveShoot(k) ==
    /\ shoots[k] # None /\ shoots[k].deleting
    /\ shoots' = [shoots EXCEPT ![k] = None]
    /\ notify' \in {notify} \cup
                   (IF shoots[k].annotation = None THEN {} ELSE {notify \cup {k}})
    /\ UNCHANGED <<loopVars, manifestVars, instanceVars, task, budget>>

PublishManifest(m) ==
    /\ m \notin manifests /\ Spend("publish")
    /\ manifests' = manifests \cup {m}
    /\ published' = published \cup {m}
    /\ UNCHANGED <<loopVars, shootVars, instanceVars, task>>

WithdrawManifest(m) ==
    /\ m \in manifests /\ Spend("withdraw")
    /\ manifests' = manifests \ {m}
    /\ UNCHANGED <<loopVars, shootVars, published, instanceVars, task>>

\* The finalizer keeps an instance that is deleted ...
DeleteInstance(n) ==
    /\ instances[n] # None /\ ~instances[n].deleting /\ Spend("delete")
    /\ instances' = [instances EXCEPT ![n].deleting = TRUE]
    /\ UNCHANGED <<loopVars, shootVars, manifestVars, made, task>>

\* ... until the instance controller removes it.
FinalizeInstance(n) ==
    /\ instances[n] # None /\ instances[n].deleting
    /\ instances' = [instances EXCEPT ![n] = None]
    /\ UNCHANGED <<loopVars, shootVars, manifestVars, made, task, budget>>

-----------------------------------------------------------------------------
(* The informer.                                                           *)

\* Every 30 s the handlers are called for every Shoot in the cache.
Resync(k) ==
    /\ shoots[k] # None /\ shoots[k].annotation # None /\ k \notin notify
    /\ notify' = notify \cup {k}
    /\ UNCHANGED <<loopVars, shoots, manifestVars, instanceVars, task,
                   budget>>

Notify(k) ==
    /\ k \in notify
    /\ notify' = notify \ {k}
    /\ Enqueue(k)
    /\ UNCHANGED <<shoots, manifestVars, instanceVars, task, budget>>

-----------------------------------------------------------------------------
(* A sync: syncHandler and reconcile.                                      *)

At(w, s) == pc[w] = "sync" /\ task[w].step = s

Return(w, ok) ==
    /\ IF ok THEN SyncOK(w) ELSE SyncErr(w)
    /\ task' = [task EXCEPT ![w] = NoTask]

\* The annotation is parsed and refused if it names an addon twice.
Usable(annotation) ==
    annotation \notin {None, Broken} /\ NoDuplicates(annotation)

\* The lister's Get.  There is nothing to do for a Shoot that is gone or being
\* deleted.
Lookup(w) ==
    /\ At(w, "lookup")
    /\ LET shoot == shoots[cur[w]] IN
         \/ shoot = None /\ Return(w, TRUE)
         \/ shoot # None /\ shoot.deleting /\ Return(w, TRUE)
         \/ /\ shoot # None /\ ~shoot.deleting /\ ~Usable(shoot.annotation)
            /\ Return(w, FALSE)
         \/ /\ shoot # None /\ ~shoot.deleting /\ Usable(shoot.annotation)
            /\ task' = [task EXCEPT ![w].step = "extract", ![w].held = shoot,
                                    ![w].names = shoot.annotation]
            /\ UNCHANGED loopVars
    /\ UNCHANGED <<shootVars, manifestVars, instanceVars, budget>>

Named(a) == {m \in manifests : m.addon = a}

\* Mutant: the first manifest of the name is taken.
AnyVersion(a) == Named(a)

\* FindManifestForRange for any version, over a list in any order.
Latest(a) == {m \in Named(a) : \A other \in Named(a) : other.version <= m.version}

\* Mutant: an addon without manifest is left out.
ExtractAvailable(w) ==
    /\ At(w, "extract") /\ task[w].names # <<>>
    /\ LET a == Head(task[w].names) IN
         \/ /\ Named(a) = {}
            /\ task' = [task EXCEPT ![w].names = Tail(@)]
         \/ \E m \in Latest(a) :
              task' = [task EXCEPT ![w].names = Tail(@),
                                   ![w].found = Append(@, m)]
    /\ UNCHANGED <<loopVars, shootVars, manifestVars, instanceVars, budget>>

\* One turn of the loop in extractAddonManifests, which lists the manifests
\* again for every addon.
ExtractManifest(w) ==
    /\ At(w, "extract") /\ task[w].names # <<>>
    /\ LET a == Head(task[w].names) IN
         \/ Named(a) = {} /\ Return(w, FALSE)
         \/ \E m \in Latest(a) :
              /\ task' = [task EXCEPT ![w].names = Tail(@),
                                      ![w].found = Append(@, m)]
              /\ UNCHANGED loopVars
    /\ UNCHANGED <<shootVars, manifestVars, instanceVars, budget>>

ExtractDone(w) ==
    /\ At(w, "extract") /\ task[w].names = <<>>
    /\ task' = [task EXCEPT ![w].step = "ensure"]
    /\ UNCHANGED <<loopVars, shootVars, manifestVars, instanceVars, budget>>

\* The Create that takes effect.
Make(n, w, m) ==
    /\ instances[n] = None
    /\ instances' = [instances EXCEPT
                       ![n] = [manifest |-> m, deleting |-> FALSE]]
    /\ made' = [made EXCEPT
                  ![n] = [manifest |-> m,
                          annotation |-> task[w].held.annotation]]

\* Mutant: an instance that exists ends the loop.
EnsureUntilExisting(w) ==
    /\ At(w, "ensure") /\ task[w].found # <<>>
    /\ LET m == Head(task[w].found)
           n == InstanceName[cur[w], m.addon]
           Proceed(failed) == task' = [task EXCEPT ![w].found = Tail(@),
                                                   ![w].erred = @ \/ failed]
       IN \/ Proceed(FALSE) /\ Make(n, w, m) /\ UNCHANGED budget
          \/ /\ instances[n] # None
             /\ task' = [task EXCEPT ![w].found = <<>>]
             /\ UNCHANGED <<instanceVars, budget>>
          \/ Proceed(TRUE) /\ Spend("reply") /\ Make(n, w, m)
          \/ Proceed(TRUE) /\ Spend("call") /\ UNCHANGED instanceVars
    /\ UNCHANGED <<loopVars, shootVars, manifestVars>>

\* One turn of the loop in ensureAddons: AlreadyExists is success, any other
\* error is remembered and the loop goes on.
EnsureAddon(w) ==
    /\ At(w, "ensure") /\ task[w].found # <<>>
    /\ LET m == Head(task[w].found)
           n == InstanceName[cur[w], m.addon]
           Proceed(failed) == task' = [task EXCEPT ![w].found = Tail(@),
                                                   ![w].erred = @ \/ failed]
       IN \/ Proceed(FALSE) /\ Make(n, w, m) /\ UNCHANGED budget
          \/ /\ instances[n] # None
             /\ Proceed(FALSE) /\ UNCHANGED <<instanceVars, budget>>
          \/ Proceed(TRUE) /\ Spend("reply") /\ Make(n, w, m)
          \/ Proceed(TRUE) /\ Spend("call") /\ UNCHANGED instanceVars
    /\ UNCHANGED <<loopVars, shootVars, manifestVars>>

EnsureDone(w) ==
    /\ At(w, "ensure") /\ task[w].found = <<>>
    /\ Return(w, ~task[w].erred)
    /\ UNCHANGED <<shootVars, manifestVars, instanceVars, budget>>

SyncStep(w) == Lookup(w) \/ ExtractManifest(w) \/ ExtractDone(w)
                 \/ EnsureAddon(w) \/ EnsureDone(w)

\* A new process lists all Shoots before its workers start.
RestartController ==
    /\ Spend("restart")
    /\ Restart
    /\ notify' = {k \in Keys : shoots[k] # None /\ shoots[k].annotation # None}
    /\ task' = [w \in Workers |-> NoTask]
    /\ UNCHANGED <<shoots, manifestVars, instanceVars>>

\* A step of the loop that the sync handler has no part in.
LoopStep(A) ==
    A /\ UNCHANGED <<shootVars, manifestVars, instanceVars, task, budget>>

Next ==
    \/ \E k \in Keys : \/ CreateShoot(k) \/ Annotate(k) \/ DeleteShoot(k)
                       \/ RemoveShoot(k) \/ Resync(k) \/ Notify(k)
                       \/ LoopStep(Fire(k))
    \/ \E m \in Manifests : PublishManifest(m) \/ WithdrawManifest(m)
    \/ \E n \in Names : DeleteInstance(n) \/ FinalizeInstance(n)
    \/ \E w \in Workers : SyncStep(w) \/ LoopStep(WorkerStep(w))
    \/ LoopStep(Receive)
    \/ RestartController

Spec == Init /\ [][Next]_vars

\* The scheduling ControllerLoop assumes; creations return; resyncs and
\* handlers come; the instance controller finalizes what is deleted
\* (InstanceController: DeletionCompletes).
Fairness ==
    /\ \A w \in Workers : /\ WF_vars(LoopStep(WorkerStep(w)))
                         /\ SF_vars(LoopStep(AddAfter(w)))
                         /\ WF_vars(SyncStep(w))
    /\ \A k \in Keys : /\ WF_vars(LoopStep(Fire(k)))
                      /\ WF_vars(Resync(k))
                      /\ WF_vars(Notify(k))
    /\ \A n \in Names : WF_vars(FinalizeInstance(n))
    /\ WF_vars(LoopStep(Receive))

FairSpec == Spec /\ Fairness
-----------------------------------------------------------------------------
(* Properties.                                                             *)

\* An annotation creates all its instances or none: nothing is ever made from
\* one that names an addon twice, or an addon that never had a manifest
\* (extractAddonManifests returns at the first that it cannot find).
AllOrNothing ==
    \A n \in Names : made[n] # None =>
      /\ NoDuplicates(made[n].annotation)
      /\ \A a \in ElementsOf(made[n].annotation) :
           \E m \in published : m.addon = a

\* As long as no manifest is withdrawn, an instance that is deleted and made
\* again never comes back with an older version, although the version is
\* chosen before the creation, by whichever worker has the key, and creations
\* are retried after errors and restarts.
NoDowngrade ==
    [][\A n \in Names :
         (/\ instances[n] = None /\ instances'[n] # None
          /\ made[n] # None /\ made[n].manifest.addon = made'[n].manifest.addon
          /\ budget["withdraw"] = Budget["withdraw"])
         => made'[n].manifest.version >= made[n].manifest.version]_vars

\* The addon is named by a usable annotation of a Shoot that is not being
\* deleted, and all addons of this annotation have a manifest.
Wanted(k, a) ==
    /\ shoots[k] # None /\ ~shoots[k].deleting
    /\ Usable(shoots[k].annotation)
    /\ a \in ElementsOf(shoots[k].annotation)
    /\ \A b \in ElementsOf(shoots[k].annotation) : Named(b) # {}

\* An addon that stays wanted has an instance in the end and keeps it: also
\* when a manifest comes late, of which no event tells the controller, when
\* the retries are used up, and when someone deletes the instance.
AddonsEnsured ==
    \A k \in Keys, a \in Addons :
      <>[]Wanted(k, a) => <>[](instances[InstanceName[k, a]] # None)
=============================================================================
