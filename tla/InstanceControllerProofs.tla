---------------------- MODULE InstanceControllerProofs ----------------------
(***************************************************************************)
(* Proofs about InstanceController, for every set of instances, workers,   *)
(* manifests and objects, and every budget of disturbances: what it        *)
(* inherits from the loop it extends, its types, and, while no manifest is *)
(* edited, that nothing it installs is orphaned and that it implements     *)
(* AddonLifecycle.                                                         *)
(***************************************************************************)
EXTENDS InstanceController, ControllerLoopProofs

USE DEF queueVars, delayVars, stopVars, workerVars,
        apiVars, informerVars, targetVars, vars

-----------------------------------------------------------------------------
(* What holds of the loop holds of the controller.                         *)

\* A step of a sync that does not end it leaves the loop alone; one that ends
\* it is the end of a sync.
LEMMA SyncIsLoopStep ==
    ASSUME NEW w \in Workers, SyncStep(w)
    PROVE  UNCHANGED loopVars \/ SyncOK(w) \/ SyncErr(w)
<1> DEFINE Goal == UNCHANGED loopVars \/ SyncOK(w) \/ SyncErr(w)
<1>1. ASSUME Return(w, TRUE) \/ Return(w, FALSE) PROVE Goal
  BY <1>1 DEF Return
<1>2. ASSUME Lookup(w) PROVE Goal
  BY <1>1, <1>2 DEF Lookup
<1>3. ASSUME Render(w) PROVE Goal
  BY <1>1, <1>3 DEF Render
<1>4. ASSUME ResolveTarget(w) PROVE Goal
  BY <1>1, <1>4 DEF ResolveTarget
<1>5. ASSUME NextObject(w) PROVE Goal
  BY <1>5 DEF NextObject
<1>6. ASSUME ObjectsDone(w) PROVE Goal
  BY <1>1, <1>6 DEF ObjectsDone
<1>7. ASSUME RemoveFinalizer(w) PROVE Goal
  BY <1>1, <1>7 DEF RemoveFinalizer
<1> QED
  BY <1>2, <1>3, <1>4, <1>5, <1>6, <1>7 DEF SyncStep

\* Every step of the controller is one of the loop it extends, or leaves the
\* loop alone.
LEMMA StepIsLoopStep == [Next]_vars => [LoopNext]_loopVars
<1> SUFFICES ASSUME [Next]_vars PROVE [LoopNext]_loopVars
  OBVIOUS
<1>1. ASSUME NEW i \in Keys,
             \/ CreateInstance(i) \/ DeleteInstance(i) \/ TouchInstance(i)
             \/ EditCatalog(i) \/ Deliver(i) \/ Resync(i)
      PROVE  UNCHANGED loopVars
  BY <1>1
  DEF CreateInstance, DeleteInstance, TouchInstance, EditCatalog, Deliver, Resync
<1>2. ASSUME NEW i \in Keys, Notify(i) \/ LoopStep(Fire(i)) PROVE LoopNext
  BY <1>2 DEF Notify, LoopStep, LoopNext
<1>3. ASSUME \/ \E o \in Objects : Purge(o)
             \/ Relist
             \/ UNCHANGED vars
      PROVE  UNCHANGED loopVars
  BY <1>3 DEF Purge, Relist
<1>4. ASSUME NEW w \in Workers, SyncStep(w) \/ LoopStep(WorkerStep(w))
      PROVE  LoopNext \/ UNCHANGED loopVars
  BY <1>4, SyncIsLoopStep DEF LoopStep, LoopNext
<1>5. ASSUME LoopStep(Receive) \/ RestartController PROVE LoopNext
  BY <1>5 DEF LoopStep, RestartController, LoopNext
<1> QED
  BY <1>1, <1>2, <1>3, <1>4, <1>5 DEF Next

\* The controller implements the loop: its real sync handler is one of those
\* ControllerLoop leaves open.
THEOREM InstanceIsLoop == Spec => LoopSpec
<1>1. Init => LoopInit
  BY DEF Init
<1> QED
  BY <1>1, StepIsLoopStep, PTL DEF Spec, LoopSpec

\* So no two workers ever install or remove the objects of one instance at the
\* same time, its key is queued at most once, and no retry of it is lost.
COROLLARY InstanceQueueCorrect ==
    Spec => [](QueueInv /\ OneWorkerPerKey /\ RetryBound /\ NoRetryLost)
  BY InstanceIsLoop, QueueCorrect, RetryBounded, RetriesKept, PTL

-----------------------------------------------------------------------------
(* Types.                                                                  *)

\* What is terminating has been there to contain something.
OnlyContainers == \A o \in terminating : IsContainer(o)

InstanceIInv == TypeOK /\ OnlyContainers

\* A worker without a sync has a task, the empty one.
LEMMA NoTaskType == NoTask \in Task
<1>1. <<>> \in Seq(Objects) /\ {} \in SUBSET Objects
  OBVIOUS
<1> QED
  BY <1>1 DEF NoTask, Task, Steps

\* The head of a list of objects is one of its elements, and the others are in
\* its tail.
LEMMA HeadOfObjects ==
    ASSUME NEW s \in Seq(Objects), s # <<>>
    PROVE  /\ Head(s) \in Objects /\ Tail(s) \in Seq(Objects)
           /\ ElementsOf(s) = ElementsOf(Tail(s)) \cup {Head(s)}
<1>1. /\ Head(s) \in Objects /\ Tail(s) \in Seq(Objects)
      /\ Len(s) \in Nat \ {0} /\ DOMAIN s = 1 .. Len(s)
      /\ DOMAIN Tail(s) = 1 .. Len(s) - 1
      /\ \A n \in 1 .. Len(s) - 1 : Tail(s)[n] = s[n + 1]
      /\ Head(s) = s[1]
  OBVIOUS
<1> DEFINE t == Tail(s)
<1>2. \A n \in DOMAIN t : t[n] = s[n + 1] /\ n + 1 \in DOMAIN s
  BY <1>1
<1>3. \A n \in DOMAIN s : n = 1 \/ (n - 1 \in DOMAIN t /\ t[n - 1] = s[n])
  BY <1>1
<1>4. 1 \in DOMAIN s /\ s[1] = Head(s)
  BY <1>1
<1>5. ElementsOf(t) \subseteq ElementsOf(s)
  BY <1>2 DEF ElementsOf
<1>6. ElementsOf(s) \subseteq ElementsOf(t) \cup {Head(s)}
  BY <1>3, <1>4 DEF ElementsOf
<1>7. Head(s) \in ElementsOf(s)
  BY <1>4 DEF ElementsOf
<1> QED
  BY <1>1, <1>5, <1>6, <1>7

\* A step of the loop that no sync takes part in leaves the worker of every
\* sync where it is.
LEMMA LoopKeepsSyncs ==
    ASSUME LoopTypeOK,
           \/ \E k \in Keys : Enqueue(k) \/ Fire(k)
           \/ \E w \in Workers : WorkerStep(w)
           \/ Receive,
           NEW v \in Workers
    PROVE  \/ pc'[v] = pc[v] /\ cur'[v] = cur[v]
           \/ pc[v] # "sync"
<1>1. ASSUME NEW k \in Keys, Enqueue(k) \/ Fire(k) PROVE UNCHANGED workerVars
  BY <1>1 DEF Enqueue, Fire
<1>2. ASSUME Receive PROVE UNCHANGED workerVars
  BY <1>2 DEF Receive
<1>3. ASSUME NEW w \in Workers, WorkerStep(w), pc[v] = "sync"
      PROVE  pc'[v] = pc[v] /\ cur'[v] = cur[v]
  <2>0. pc \in [Workers -> Labels] /\ cur \in [Workers -> Keys \cup {NoKey}]
    BY DEF LoopTypeOK
  <2>1. CASE Start(w)
    BY <1>3, <2>0, <2>1 DEF Start, Goto
  <2>2. CASE TakeKey(w)
    BY <1>3, <2>0, <2>2 DEF TakeKey, Goto
  <2>3. CASE Stop(w)
    BY <1>3, <2>0, <2>3 DEF Stop, Goto
  <2>4. CASE Forget(w)
    BY <1>3, <2>0, <2>4 DEF Forget, Goto
  <2>5. CASE Done(w)
    BY <1>3, <2>0, <2>5 DEF Done, Goto
  <2>6. CASE CheckRequeues(w)
    BY <1>3, <2>0, <2>6 DEF CheckRequeues, Goto
  <2>7. CASE When(w)
    BY <1>3, <2>0, <2>7 DEF When, Goto
  <2>8. CASE AddAfter(w)
    BY <1>3, <2>0, <2>8 DEF AddAfter, Goto
  <2> QED
    BY <1>3, <2>1, <2>2, <2>3, <2>4, <2>5, <2>6, <2>7, <2>8 DEF WorkerStep
<1> QED
  BY <1>1, <1>2, <1>3

\* A sync that ends leaves no task.
LEMMA SyncEnds ==
    ASSUME NEW w \in Workers, NEW ok \in BOOLEAN, LoopTypeOK,
           task \in [Workers -> Task], \A v \in Workers : SyncState(v),
           \A i \in Keys : cache[i] # None => cache'[i] # None,
           Return(w, ok)
    PROVE  /\ task' \in [Workers -> Task]
           /\ \A v \in Workers : SyncState(v)'
           /\ pc'[w] # "sync" /\ task'[w] = NoTask
           /\ \A v \in Workers \ {w} : pc'[v] = pc[v] /\ task'[v] = task[v]
           /\ cur' = cur
<1>1. pc \in [Workers -> Labels] /\ cur \in [Workers -> Keys \cup {NoKey}]
  BY DEF LoopTypeOK
<1>2. /\ task' = [task EXCEPT ![w] = NoTask] /\ cur' = cur
      /\ \/ pc' = [pc EXCEPT ![w] = "forget"]
         \/ pc' = [pc EXCEPT ![w] = "failed"]
  BY DEF Return, SyncOK, SyncErr, Goto
<1>3. pc'[w] # "sync" /\ task'[w] = NoTask
  BY <1>1, <1>2
<1>4. ASSUME NEW v \in Workers \ {w}
      PROVE  pc'[v] = pc[v] /\ cur'[v] = cur[v] /\ task'[v] = task[v]
  BY <1>1, <1>2
<1>5. ASSUME NEW v \in Workers \ {w} PROVE SyncState(v)'
  <2>1. SyncState(v) /\ task[v] \in Task
    OBVIOUS
  <2>2. task[v].shared => cur[v] \in Keys
    <3>1. task[v].shared => pc[v] \notin Keyless
      BY <2>1 DEF SyncState, Keyless
    <3> QED
      BY <3>1, HasKey
  <2>3. task[v].shared => cache'[cur[v]] # None
    BY <2>1, <2>2 DEF SyncState
  <2> QED
    BY <1>4, <2>1, <2>3 DEF SyncState
<1>6. SyncState(w)'
  BY <1>3 DEF SyncState, NoTask
<1>7. task' \in [Workers -> Task]
  BY <1>2, NoTaskType
<1> QED
  BY <1>2, <1>3, <1>4, <1>5, <1>6, <1>7

\* A sync that goes on has a task with an instance.
LEMMA SyncGoesOn ==
    ASSUME NEW w \in Workers, NEW t \in Task, UNCHANGED loopVars,
           task \in [Workers -> Task], \A v \in Workers : SyncState(v),
           pc[w] = "sync", t.held # None, cache' = cache,
           t.shared => cache[cur[w]] # None,
           task' = [task EXCEPT ![w] = t]
    PROVE  /\ task' \in [Workers -> Task]
           /\ \A v \in Workers : SyncState(v)'
<1>1. task' \in [Workers -> Task]
  OBVIOUS
<1>2. /\ task'[w] = t /\ pc' = pc /\ cur' = cur
      /\ \A v \in Workers \ {w} : task'[v] = task[v]
  BY DEF loopVars
<1>3. SyncState(w)'
  BY <1>2 DEF SyncState
<1>4. ASSUME NEW v \in Workers \ {w} PROVE SyncState(v)'
  BY <1>2 DEF SyncState
<1> QED
  BY <1>1, <1>3, <1>4

\* A step that leaves the loop, the syncs and the cache alone.
LEMMA SyncsKept ==
    ASSUME \A v \in Workers : SyncState(v),
           UNCHANGED <<loopVars, cache, task>>
    PROVE  \A v \in Workers : SyncState(v)'
<1> SUFFICES ASSUME NEW v \in Workers PROVE SyncState(v)'
  OBVIOUS
<1> QED
  BY DEF loopVars, SyncState

\* A step of the loop besides the syncs keeps what holds of the syncs.
LEMMA LoopKeepsState ==
    ASSUME LoopTypeOK, \A v \in Workers : SyncState(v),
           \/ \E k \in Keys : Enqueue(k) \/ Fire(k)
           \/ \E w \in Workers : WorkerStep(w)
           \/ Receive,
           UNCHANGED <<cache, task>>
    PROVE  \A v \in Workers : SyncState(v)'
<1> SUFFICES ASSUME NEW v \in Workers PROVE SyncState(v)'
  OBVIOUS
<1>1. \/ pc'[v] = pc[v] /\ cur'[v] = cur[v]
      \/ pc[v] # "sync"
  BY LoopKeepsSyncs
<1>2. CASE pc[v] # "sync"
  BY <1>2 DEF SyncState
<1>3. CASE pc'[v] = pc[v] /\ cur'[v] = cur[v]
  BY <1>3 DEF SyncState
<1> QED
  BY <1>1, <1>2, <1>3

\* A disturbance is paid for from the budget.
LEMMA SpendType ==
    ASSUME budget \in [Disturbances -> Nat],
           NEW d \in Disturbances \ {"any"}, Spend(d)
    PROVE  /\ budget' \in [Disturbances -> Nat]
           /\ \A e \in Disturbances : budget'[e] <= budget[e]
<1>1. "any" \in Disturbances
  BY DEF Disturbances
<1>2. /\ budget[d] \in Nat /\ budget["any"] \in Nat
      /\ budget[d] - 1 \in Nat /\ budget["any"] - 1 \in Nat
  BY <1>1 DEF Spend
<1> DEFINE b == [budget EXCEPT ![d] = budget[d] - 1]
<1>3. b \in [Disturbances -> Nat] /\ b["any"] = budget["any"]
  BY <1>1, <1>2
<1>4. budget' = [b EXCEPT !["any"] = budget["any"] - 1]
  BY <1>1, <1>3 DEF Spend
<1>5. budget' \in [Disturbances -> Nat]
  BY <1>2, <1>3, <1>4
<1>6. ASSUME NEW e \in Disturbances PROVE budget'[e] <= budget[e]
  <2>1. budget[e] \in Nat
    OBVIOUS
  <2>2. \/ budget'[e] = budget[e]
        \/ budget'[e] = budget[e] - 1
    BY <1>1, <1>3, <1>4
  <2> QED
    BY <2>1, <2>2
<1> QED
  BY <1>5, <1>6

\* Unshare takes the cache's object away from the syncs of I.
LEMMA UnshareType ==
    ASSUME task \in [Workers -> Task], \A v \in Workers : SyncState(v),
           UNCHANGED loopVars, NEW I \in SUBSET Keys, Unshare(I),
           \A i \in Keys \ I : cache'[i] = cache[i], LoopTypeOK
    PROVE  /\ task' \in [Workers -> Task]
           /\ \A v \in Workers :
                /\ SyncState(v)'
                /\ task'[v].step = task[v].step /\ task'[v].held = task[v].held
                /\ task'[v].todo = task[v].todo /\ task'[v].erred = task[v].erred
                /\ task'[v].shared => task[v].shared /\ cur[v] \notin I
<1> DEFINE T(v) == [task[v] EXCEPT !.shared = FALSE]
           U(v) == IF cur[v] \in I THEN T(v) ELSE task[v]
<1>1. ASSUME NEW v \in Workers
      PROVE  T(v) \in Task /\ task'[v] = U(v)
  <2>1. task[v] \in Task
    OBVIOUS
  <2>2. T(v) \in Task
    BY <2>1 DEF Task
  <2>3. task'[v] = U(v)
    BY DEF Unshare
  <2> QED
    BY <2>2, <2>3
<1>2. task' \in [Workers -> Task]
  <2>1. task' = [v \in Workers |-> U(v)]
    BY DEF Unshare
  <2> HIDE DEF U
  <2>2. \A v \in Workers : U(v) \in Task
    BY <1>1, <2>1 DEF U
  <2> QED
    BY <2>1, <2>2
<1>3. ASSUME NEW v \in Workers
      PROVE  /\ task'[v].step = task[v].step /\ task'[v].held = task[v].held
             /\ task'[v].todo = task[v].todo /\ task'[v].erred = task[v].erred
             /\ task'[v].shared => task[v].shared /\ cur[v] \notin I
  <2>1. task'[v] = U(v)
    BY <1>1
  <2>2. CASE cur[v] \in I
    <3>1. task'[v] = T(v)
      BY <2>1, <2>2
    <3>2. task[v] \in Task
      OBVIOUS
    <3>3. /\ T(v).step = task[v].step /\ T(v).held = task[v].held
          /\ T(v).todo = task[v].todo /\ T(v).erred = task[v].erred
          /\ T(v).shared = FALSE
      BY <3>2 DEF Task
    <3> QED
      BY <3>1, <3>3
  <2>3. CASE cur[v] \notin I
    BY <2>1, <2>3
  <2> QED
    BY <2>2, <2>3
<1>4. ASSUME NEW v \in Workers PROVE SyncState(v)'
  <2>1. pc'[v] = pc[v] /\ cur'[v] = cur[v]
    BY DEF loopVars
  <2>2. pc'[v] # "sync" => task'[v].held = None
    BY <1>3, <2>1 DEF SyncState
  <2>3. task'[v].step # "lookup" => task'[v].held # None
    BY <1>3 DEF SyncState
  <2>4. ASSUME task'[v].shared
        PROVE  task'[v].held # None /\ cache'[cur'[v]] # None
    <3>1. task[v].shared /\ cur[v] \notin I
      BY <1>3, <2>4
    <3>2. task[v].held # None /\ cache[cur[v]] # None
      BY <3>1 DEF SyncState
    <3>3. cur[v] \in Keys
      BY <3>2, HasKey DEF SyncState, Keyless
    <3> QED
      BY <1>3, <2>1, <3>1, <3>2, <3>3
  <2> QED
    BY <2>2, <2>3, <2>4 DEF SyncState
<1> QED
  BY <1>2, <1>3, <1>4

\* An instance with another resourceVersion.
LEMMA InstanceType ==
    ASSUME NEW i \in Keys, inst \in [Keys -> Instance \cup {None}], inst[i] # None,
           NEW n \in Nat
    PROVE  /\ [inst EXCEPT ![i].rv = n] \in [Keys -> Instance \cup {None}]
           /\ [inst EXCEPT ![i].deleting = TRUE, ![i].rv = n]
                \in [Keys -> Instance \cup {None}]
<1>1. inst[i] \in Instance
  OBVIOUS
<1>2. /\ [inst[i] EXCEPT !.rv = n] \in Instance
      /\ [inst[i] EXCEPT !.deleting = TRUE, !.rv = n] \in Instance
  BY <1>1 DEF Instance
<1>3. /\ [inst EXCEPT ![i].rv = n] = [inst EXCEPT ![i] = [inst[i] EXCEPT !.rv = n]]
      /\ [inst EXCEPT ![i].deleting = TRUE, ![i].rv = n]
           = [inst EXCEPT ![i] = [inst[i] EXCEPT !.deleting = TRUE, !.rv = n]]
  OBVIOUS
<1> QED
  BY <1>2, <1>3

\* A step of a sync of w.
LEMMA SyncStepType ==
    ASSUME InstanceIInv, NEW w \in Workers, SyncStep(w)
    PROVE  /\ task' \in [Workers -> Task]
           /\ \A v \in Workers : SyncState(v)'
           /\ inst' \in [Keys -> Instance \cup {None}]
           /\ cache' \in [Keys -> Instance \cup {None}]
           /\ present' \subseteq Objects
           /\ terminating' \subseteq present'
           /\ \A o \in terminating' : IsContainer(o)
           /\ budget' \in [Disturbances -> Nat]
           /\ UNCHANGED <<rv, notify, catalog>>
<1> DEFINE Syncs == /\ task' \in [Workers -> Task]
                    /\ \A v \in Workers : SyncState(v)'
<1> USE DEF InstanceIInv
<1>0. /\ LoopTypeOK /\ task \in [Workers -> Task] /\ task[w] \in Task
      /\ inst \in [Keys -> Instance \cup {None}]
      /\ cache \in [Keys -> Instance \cup {None}]
      /\ catalog \in [Keys -> Contents \cup {None}]
      /\ present \subseteq Objects /\ terminating \subseteq present
      /\ budget \in [Disturbances -> Nat]
      /\ \A v \in Workers : SyncState(v)
  BY DEF TypeOK
<1>1. ASSUME pc[w] = "sync" PROVE cur[w] \in Keys
  BY <1>0, <1>1, HasKey DEF Keyless
<1>2. ASSUME NEW ok \in BOOLEAN, Return(w, ok), cache' = cache PROVE Syncs
  BY <1>0, <1>2, SyncEnds
<1>3. ASSUME NEW d \in {"call", "reply", "update"}, Spend(d)
      PROVE  budget' \in [Disturbances -> Nat]
  BY <1>0, <1>3, SpendType DEF Disturbances
<1>4. CASE Lookup(w)
  <2>1. pc[w] = "sync" /\ cur[w] \in Keys
    BY <1>1, <1>4 DEF Lookup, At
  <2>2. CASE Return(w, TRUE)
    BY <1>0, <1>2, <1>4, <2>2 DEF Lookup, OnlyContainers
  <2>3. CASE /\ cache[cur[w]] # None
             /\ task' = [task EXCEPT ![w].step = "render",
                                     ![w].held = cache[cur[w]],
                                     ![w].shared = TRUE]
             /\ UNCHANGED loopVars
    <3> DEFINE t == [task[w] EXCEPT !.step = "render", !.held = cache[cur[w]],
                                    !.shared = TRUE]
    <3>1. t \in Task /\ t.held # None
      BY <1>0, <2>1, <2>3 DEF Task, Steps
    <3>2. task' = [task EXCEPT ![w] = t]
      BY <2>3
    <3>3. cache' = cache
      BY <1>4 DEF Lookup
    <3> HIDE DEF t
    <3>4. Syncs
      BY <1>0, <2>1, <2>3, <3>1, <3>2, <3>3, SyncGoesOn
    <3> QED
      BY <1>0, <1>4, <3>4 DEF Lookup, OnlyContainers
  <2> QED
    BY <1>4, <2>2, <2>3 DEF Lookup
<1>5. CASE Render(w)
  <2>1. pc[w] = "sync" /\ task[w].step = "render" /\ cur[w] \in Keys
    BY <1>1, <1>5 DEF Render, At
  <2>2. /\ UNCHANGED <<rv, notify, catalog, inst, cache, present, terminating>>
        /\ budget' \in [Disturbances -> Nat]
    BY <1>0, <1>3, <1>5 DEF Render
  <2>3. CASE Return(w, TRUE) \/ Return(w, FALSE)
    BY <1>0, <1>2, <2>2, <2>3 DEF OnlyContainers
  <2>4. ASSUME NEW c \in Contents, NEW todo \in {Install[c], Uninstall[c]},
               task' = [task EXCEPT ![w].step = "target", ![w].todo = todo],
               UNCHANGED loopVars
        PROVE  Syncs
    <3> DEFINE t == [task[w] EXCEPT !.step = "target", !.todo = todo]
    <3>1. todo \in Seq(Objects)
      BY InstanceAssumption
    <3>2. t \in Task /\ t.held = task[w].held /\ t.shared = task[w].shared
      BY <1>0, <3>1 DEF Task, Steps
    <3>3. t.held # None /\ (t.shared => cache[cur[w]] # None)
      BY <1>0, <2>1, <3>2 DEF SyncState
    <3>4. task' = [task EXCEPT ![w] = t]
      BY <1>0, <2>4
    <3> HIDE DEF t
    <3> QED
      BY <1>0, <2>1, <2>2, <2>4, <3>2, <3>3, <3>4, SyncGoesOn
  <2>5. \/ Return(w, TRUE) \/ Return(w, FALSE)
        \/ \E c \in Contents : \E todo \in {Install[c], Uninstall[c]} :
             /\ task' = [task EXCEPT ![w].step = "target", ![w].todo = todo]
             /\ UNCHANGED loopVars
    BY <1>0, <1>5, <2>1 DEF Render
  <2>6. Syncs
    BY <1>0, <1>2, <2>2, <2>4, <2>5
  <2> QED
    BY <1>0, <2>2, <2>6 DEF OnlyContainers
<1>6. CASE ResolveTarget(w)
  <2>1. pc[w] = "sync" /\ task[w].step = "target" /\ cur[w] \in Keys
    BY <1>1, <1>6 DEF ResolveTarget, At
  <2>2. /\ UNCHANGED <<rv, notify, catalog, inst, cache, present, terminating>>
        /\ budget' \in [Disturbances -> Nat]
    BY <1>0, <1>3, <1>6 DEF ResolveTarget
  <2>3. CASE Return(w, FALSE)
    BY <1>0, <1>2, <2>2, <2>3 DEF OnlyContainers
  <2>4. ASSUME NEW kinds \in SUBSET Known,
               task' = [task EXCEPT ![w].step = "objects", ![w].mapped = kinds],
               UNCHANGED loopVars
        PROVE  Syncs
    <3> DEFINE t == [task[w] EXCEPT !.step = "objects", !.mapped = kinds]
    <3>1. kinds \in SUBSET Objects
      BY DEF Known
    <3>2. t \in Task /\ t.held = task[w].held /\ t.shared = task[w].shared
      BY <1>0, <3>1 DEF Task, Steps
    <3>3. t.held # None /\ (t.shared => cache[cur[w]] # None)
      BY <1>0, <2>1, <3>2 DEF SyncState
    <3>4. task' = [task EXCEPT ![w] = t]
      BY <1>0, <2>4
    <3> HIDE DEF t
    <3> QED
      BY <1>0, <2>1, <2>2, <2>4, <3>2, <3>3, <3>4, SyncGoesOn
  <2>5. Syncs
    BY <1>2, <1>6, <2>2, <2>4 DEF ResolveTarget
  <2> QED
    BY <1>0, <2>2, <2>5 DEF OnlyContainers
<1>7. CASE NextObject(w)
  <2> DEFINE o == Head(task[w].todo)
  <2>1. /\ pc[w] = "sync" /\ task[w].step = "objects" /\ task[w].todo # <<>>
        /\ cur[w] \in Keys
    BY <1>1, <1>7 DEF NextObject, At
  <2>2. /\ UNCHANGED <<loopVars, rv, notify, catalog, inst, cache>>
        /\ budget' \in [Disturbances -> Nat]
    BY <1>0, <1>3, <1>7 DEF NextObject
  <2>3. /\ task[w].todo \in Seq(Objects) /\ o \in Objects
        /\ Tail(task[w].todo) \in Seq(Objects)
    BY <1>0, <2>1, HeadOfObjects DEF Task
  <2>4. \/ UNCHANGED targetVars \/ DeleteObject(o) \/ CreateObject(o)
    BY <1>7 DEF NextObject
  <2>5. /\ present' \subseteq Objects /\ terminating' \subseteq present'
        /\ \A x \in terminating' : IsContainer(x)
    BY <1>0, <2>3, <2>4 DEF DeleteObject, CreateObject, OnlyContainers
  <2>6. ASSUME NEW failed \in BOOLEAN,
               task' = [task EXCEPT ![w].todo = Tail(@), ![w].erred = @ \/ failed]
        PROVE  Syncs
    <3> DEFINE t == [task[w] EXCEPT !.todo = Tail(@), !.erred = @ \/ failed]
    <3>1. t \in Task /\ t.held = task[w].held /\ t.shared = task[w].shared
      BY <1>0, <2>3 DEF Task
    <3>2. t.held # None /\ (t.shared => cache[cur[w]] # None)
      BY <1>0, <2>1, <3>1 DEF SyncState
    <3>3. task' = [task EXCEPT ![w] = t]
      BY <1>0, <2>6
    <3> HIDE DEF t
    <3> QED
      BY <1>0, <2>1, <2>2, <3>1, <3>2, <3>3, SyncGoesOn
  <2>7. Syncs
    BY <1>7, <2>6 DEF NextObject
  <2> QED
    BY <1>0, <2>2, <2>5, <2>7
<1>8. CASE ObjectsDone(w)
  <2>1. pc[w] = "sync" /\ task[w].step = "objects" /\ cur[w] \in Keys
    BY <1>1, <1>8 DEF ObjectsDone, At
  <2>2. UNCHANGED <<rv, notify, catalog, inst, cache, present, terminating, budget>>
    BY <1>8 DEF ObjectsDone
  <2>3. ASSUME task' = [task EXCEPT ![w].step = "finalize"], UNCHANGED loopVars
        PROVE  Syncs
    <3> DEFINE t == [task[w] EXCEPT !.step = "finalize"]
    <3>1. t \in Task /\ t.held = task[w].held /\ t.shared = task[w].shared
      BY <1>0 DEF Task, Steps
    <3>2. t.held # None /\ (t.shared => cache[cur[w]] # None)
      BY <1>0, <2>1, <3>1 DEF SyncState
    <3>3. task' = [task EXCEPT ![w] = t]
      BY <1>0, <2>3
    <3> HIDE DEF t
    <3> QED
      BY <1>0, <2>1, <2>2, <2>3, <3>1, <3>2, <3>3, SyncGoesOn
  <2>4. Syncs
    BY <1>2, <1>8, <2>2, <2>3 DEF ObjectsDone
  <2> QED
    BY <1>0, <2>2, <2>4 DEF OnlyContainers
<1>9. CASE RemoveFinalizer(w)
  <2>1. pc[w] = "sync" /\ task[w].step = "finalize" /\ cur[w] \in Keys
    BY <1>1, <1>9 DEF RemoveFinalizer, At
  <2>2. /\ UNCHANGED <<rv, notify, catalog, present, terminating>>
        /\ budget' \in [Disturbances -> Nat]
        /\ inst' = inst \/ inst' = [inst EXCEPT ![cur[w]] = None]
        /\ \E ok \in BOOLEAN : Return(w, ok)
    BY <1>0, <1>3, <1>9 DEF RemoveFinalizer
  <2>3. inst' \in [Keys -> Instance \cup {None}]
    BY <1>0, <2>1, <2>2
  <2>4. /\ cache' \in [Keys -> Instance \cup {None}]
        /\ \A i \in Keys : cache[i] # None => cache'[i] # None
    <3>1. CASE ~task[w].shared
      BY <1>0, <1>9, <3>1 DEF RemoveFinalizer
    <3>2. CASE task[w].shared
      <4> DEFINE c == [cache[cur[w]] EXCEPT !.finalizer = FALSE]
      <4>1. cache[cur[w]] \in Instance
        BY <1>0, <2>1, <3>2 DEF SyncState
      <4>2. c \in Instance
        BY <4>1 DEF Instance
      <4>3. cache' = [cache EXCEPT ![cur[w]] = c]
        BY <1>0, <1>9, <3>2 DEF RemoveFinalizer
      <4>4. c # None
        BY <4>2, InstanceAssumption
      <4> HIDE DEF c
      <4> QED
        BY <1>0, <2>1, <4>2, <4>3, <4>4
    <3> QED
      BY <3>1, <3>2
  <2>5. Syncs
    BY <1>0, <2>2, <2>4, SyncEnds
  <2> QED
    BY <1>0, <2>2, <2>3, <2>4, <2>5 DEF OnlyContainers
<1> QED
  BY <1>4, <1>5, <1>6, <1>7, <1>8, <1>9 DEF SyncStep

\* One step per action of users, informer and loop; the syncs are above.
LEMMA InstanceStep ==
    ASSUME InstanceIInv, [Next]_vars
    PROVE  InstanceIInv'
<1> DEFINE Syncs == /\ task' \in [Workers -> Task]
                    /\ \A v \in Workers : SyncState(v)'
<1> USE DEF InstanceIInv
<1>0. /\ LoopTypeOK /\ task \in [Workers -> Task]
      /\ inst \in [Keys -> Instance \cup {None}]
      /\ rv \in [Keys -> Nat]
      /\ cache \in [Keys -> Instance \cup {None}]
      /\ notify \subseteq Keys
      /\ catalog \in [Keys -> Contents \cup {None}]
      /\ present \subseteq Objects /\ terminating \subseteq present
      /\ budget \in [Disturbances -> Nat]
      /\ \A v \in Workers : SyncState(v)
  BY DEF TypeOK
<1>1. LoopTypeOK'
  BY <1>0, StepIsLoopStep, LoopTypeStep
<1>2. ASSUME UNCHANGED <<loopVars, cache, task>> PROVE Syncs
  BY <1>0, <1>2, SyncsKept
<1>3. ASSUME NEW d \in Disturbances \ {"any"}, Spend(d)
      PROVE  budget' \in [Disturbances -> Nat]
  BY <1>0, <1>3, SpendType
<1>4. ASSUME NEW i \in Keys, CreateInstance(i) \/ DeleteInstance(i) \/ TouchInstance(i)
      PROVE  InstanceIInv'
  <2>1. Syncs
    BY <1>2, <1>4 DEF CreateInstance, DeleteInstance, TouchInstance
  <2>2. rv[i] + 1 \in Nat /\ rv' = [rv EXCEPT ![i] = rv[i] + 1]
    BY <1>0, <1>4 DEF CreateInstance, DeleteInstance, TouchInstance
  <2>3. rv' \in [Keys -> Nat]
    BY <1>0, <2>2
  <2>4. inst' \in [Keys -> Instance \cup {None}]
    <3>1. CASE CreateInstance(i)
      BY <1>0, <2>2, <3>1 DEF CreateInstance, Instance
    <3>2. CASE DeleteInstance(i)
      BY <1>0, <2>2, <3>2, InstanceType DEF DeleteInstance
    <3>3. CASE TouchInstance(i)
      BY <1>0, <2>2, <3>3, InstanceType DEF TouchInstance
    <3> QED
      BY <1>4, <3>1, <3>2, <3>3
  <2> QED
    BY <1>0, <1>1, <1>4, <2>1, <2>3, <2>4
    DEF CreateInstance, DeleteInstance, TouchInstance, TypeOK, OnlyContainers
<1>5. ASSUME NEW i \in Keys, EditCatalog(i) PROVE InstanceIInv'
  <2>1. Syncs
    BY <1>2, <1>5 DEF EditCatalog
  <2>2. /\ catalog' \in [Keys -> Contents \cup {None}]
        /\ budget' \in [Disturbances -> Nat]
    BY <1>0, <1>3, <1>5, InstanceAssumption DEF EditCatalog, Disturbances
  <2> QED
    BY <1>0, <1>1, <1>5, <2>1, <2>2 DEF EditCatalog, TypeOK, OnlyContainers
<1>6. ASSUME NEW o \in Objects, Purge(o) PROVE InstanceIInv'
  <2>1. Syncs
    BY <1>2, <1>6 DEF Purge
  <2> QED
    BY <1>0, <1>1, <1>6, <2>1 DEF Purge, TypeOK, OnlyContainers
<1>7. ASSUME NEW i \in Keys, Deliver(i) PROVE InstanceIInv'
  <2>1. /\ UNCHANGED loopVars /\ Unshare({i}) /\ {i} \in SUBSET Keys
        /\ \A j \in Keys \ {i} : cache'[j] = cache[j]
    BY <1>0, <1>7 DEF Deliver
  <2>2. Syncs
    BY <1>0, <2>1, UnshareType
  <2>3. cache' \in [Keys -> Instance \cup {None}] /\ notify' \subseteq Keys
    BY <1>0, <1>7 DEF Deliver
  <2> QED
    BY <1>0, <1>1, <1>7, <2>2, <2>3 DEF Deliver, TypeOK, OnlyContainers
<1>8. ASSUME NEW i \in Keys, Resync(i) PROVE InstanceIInv'
  <2>1. Syncs
    BY <1>2, <1>8 DEF Resync
  <2> QED
    BY <1>0, <1>1, <1>8, <2>1 DEF Resync, TypeOK, OnlyContainers
<1>9. ASSUME Relist PROVE InstanceIInv'
  <2>1. /\ UNCHANGED loopVars /\ Unshare(Keys) /\ Keys \in SUBSET Keys
        /\ \A j \in Keys \ Keys : cache'[j] = cache[j]
    BY <1>9 DEF Relist
  <2>2. Syncs
    BY <1>0, <2>1, UnshareType
  <2>3. /\ cache' \in [Keys -> Instance \cup {None}] /\ notify' \subseteq Keys
        /\ budget' \in [Disturbances -> Nat]
    BY <1>0, <1>3, <1>9 DEF Relist, Disturbances
  <2> QED
    BY <1>0, <1>1, <1>9, <2>2, <2>3 DEF Relist, TypeOK, OnlyContainers
<1>10. ASSUME \/ \E i \in Keys : Notify(i) \/ LoopStep(Fire(i))
              \/ \E w \in Workers : LoopStep(WorkerStep(w))
              \/ LoopStep(Receive)
       PROVE  InstanceIInv'
  <2>1. /\ \/ \E k \in Keys : Enqueue(k) \/ Fire(k)
           \/ \E w \in Workers : WorkerStep(w)
           \/ Receive
        /\ UNCHANGED <<apiVars, cache, catalog, targetVars, task, budget>>
        /\ notify' \subseteq notify
    BY <1>10 DEF Notify, LoopStep
  <2>2. \A v \in Workers : SyncState(v)'
    BY <1>0, <2>1, LoopKeepsState
  <2> QED
    BY <1>0, <1>1, <2>1, <2>2 DEF TypeOK, OnlyContainers
<1>11. ASSUME NEW w \in Workers, SyncStep(w) PROVE InstanceIInv'
  BY <1>0, <1>1, <1>11, SyncStepType DEF TypeOK, OnlyContainers
<1>12. ASSUME RestartController PROVE InstanceIInv'
  <2>1. task' = [w \in Workers |-> NoTask] /\ UNCHANGED <<apiVars, catalog, targetVars>>
    BY <1>12 DEF RestartController
  <2>2. NoTask.held = None /\ NoTask.step = "lookup" /\ ~NoTask.shared
    BY DEF NoTask
  <2>3. task' \in [Workers -> Task] /\ \A v \in Workers : task'[v] = NoTask
    BY <2>1, NoTaskType
  <2>4. \A v \in Workers : SyncState(v)'
    BY <2>2, <2>3 DEF SyncState
  <2>5. /\ cache' \in [Keys -> Instance \cup {None}] /\ notify' \subseteq Keys
        /\ budget' \in [Disturbances -> Nat]
    BY <1>0, <1>3, <1>12 DEF RestartController, Disturbances
  <2> QED
    BY <1>0, <1>1, <2>1, <2>3, <2>4, <2>5 DEF TypeOK, OnlyContainers
<1>13. ASSUME UNCHANGED vars PROVE InstanceIInv'
  <2>1. Syncs
    BY <1>2, <1>13
  <2> QED
    BY <1>0, <1>1, <1>13, <2>1 DEF TypeOK, OnlyContainers
<1> QED
  BY <1>4, <1>5, <1>6, <1>7, <1>8, <1>9, <1>10, <1>11, <1>12, <1>13 DEF Next

\* The state before anything has happened.
LEMMA InstanceInit == Init => InstanceIInv
<1> SUFFICES ASSUME Init PROVE InstanceIInv
  OBVIOUS
<1>1. LoopTypeOK
  BY LoopTypeInit DEF Init
<1>2. /\ inst \in [Keys -> Instance \cup {None}] /\ rv \in [Keys -> Nat]
      /\ cache \in [Keys -> Instance \cup {None}] /\ notify \subseteq Keys
      /\ catalog \in [Keys -> Contents \cup {None}]
      /\ present \subseteq Objects /\ terminating \subseteq present
      /\ budget \in [Disturbances -> Nat]
      /\ terminating = {}
  BY InstanceAssumption DEF Init
<1>3. task = [w \in Workers |-> NoTask]
  BY DEF Init
<1>4. NoTask.held = None /\ NoTask.step = "lookup" /\ ~NoTask.shared
  BY DEF NoTask
<1>5. task \in [Workers -> Task] /\ \A v \in Workers : task[v] = NoTask
  BY <1>3, NoTaskType
<1>6. \A v \in Workers : SyncState(v)
  BY <1>4, <1>5 DEF SyncState
<1> QED
  BY <1>1, <1>2, <1>5, <1>6 DEF InstanceIInv, TypeOK, OnlyContainers

\* The types, that only Namespaces and CRDs terminate, and what a sync has in hand
\* hold in every state.
THEOREM InstanceInvariant == Spec => []InstanceIInv
  BY InstanceInit, InstanceStep, PTL DEF Spec

\* Every variable stays in its type, and no sync goes on without an instance; above
\* all no write goes through the pointer that the lister returned to an object the cache no longer holds.
THEOREM InstanceTypeCorrect == Spec => []TypeOK
<1>1. InstanceIInv => TypeOK
  BY DEF InstanceIInv
<1> QED
  BY <1>1, InstanceInvariant, PTL

-----------------------------------------------------------------------------
(* Nothing is orphaned.                                                    *)

\* h is a version of instance i that is not ahead of the cache.  It may be
\* behind, but an instance that is gone was not last seen as one to install;
\* a resourceVersion identifies a version.
VersionOf(h, i) ==
    /\ h.rv <= rv[i]
    /\ cache[i] # None => h.rv <= cache[i].rv
    /\ ~h.deleting => inst[i] # None
    /\ inst[i] # None /\ h.rv = rv[i] => (h.deleting <=> inst[i].deleting)

Versions(i) ==
    /\ inst[i] # None => inst[i].rv = rv[i]
    /\ cache[i] # None => VersionOf(cache[i], i)

HeldVersion(w) == task[w].held # None => VersionOf(task[w].held, cur[w])

\* As long as nobody edits a manifest a sync works on what its instance owns,
\* and has all of it before it when it begins.
SyncContents(w) ==
    /\ task[w].step \in {"target", "objects"} => ElementsOf(task[w].todo) \subseteq Owned[cur[w]]
    /\ task[w].step = "target" => Owned[cur[w]] \subseteq ElementsOf(task[w].todo)
    /\ task[w].step = "finalize" =>
         task[w].held.deleting /\ ~task[w].erred /\ task[w].todo = <<>>

Unedited ==
    /\ budget["edit"] = 0
    /\ \A i \in Keys : catalog[i] \in {Manifest[i], None}

\* A worker has deleted o for an instance that it will finalize.
ClearedBy(w, i, o) ==
    /\ cur[w] = i /\ task[w].step \in {"objects", "finalize"}
    /\ task[w].held.deleting /\ task[w].held.rv = rv[i]
    /\ ~task[w].erred /\ o \notin ElementsOf(task[w].todo)

\* What is in the target cluster belongs to an instance that exists and for
\* which it has not already been deleted.
Needed(o) ==
    \E i \in Keys : /\ inst[i] # None /\ o \in Owned[i]
                    /\ \A w \in Workers : ~ClearedBy(w, i, o)

OrphanIInv ==
    /\ \A i \in Keys : Versions(i)
    /\ \A w \in Workers : HeldVersion(w) /\ SyncContents(w)
    /\ Unedited
    /\ \A o \in present \ terminating : Needed(o)

\* A write gives a version that nobody has seen.
LEMMA WriteVersions ==
    ASSUME InstanceIInv, \A j \in Keys : Versions(j), NEW i \in Keys,
           CreateInstance(i) \/ DeleteInstance(i) \/ TouchInstance(i),
           NEW j \in Keys
    PROVE  /\ Versions(j)'
           /\ \A h \in Instance : VersionOf(h, j) => VersionOf(h, j)'
           /\ inst[j] # None => inst'[j] # None
           /\ rv[j] <= rv'[j]
<1>1. /\ inst \in [Keys -> Instance \cup {None}] /\ rv \in [Keys -> Nat]
      /\ cache \in [Keys -> Instance \cup {None}]
  BY DEF InstanceIInv, TypeOK
<1>2. cache' = cache
  BY DEF CreateInstance, DeleteInstance, TouchInstance
<1>3. rv' = [rv EXCEPT ![i] = rv[i] + 1]
  BY DEF CreateInstance, DeleteInstance, TouchInstance
<1>4. CASE j # i
  <2>1. inst'[j] = inst[j]
    BY <1>1, <1>4 DEF CreateInstance, DeleteInstance, TouchInstance
  <2>2. rv'[j] = rv[j]
    BY <1>1, <1>3, <1>4
  <2>3. \A h \in Instance : VersionOf(h, j) => VersionOf(h, j)'
    BY <1>2, <2>1, <2>2 DEF VersionOf
  <2>4. Versions(j)'
    BY <1>1, <1>2, <2>1, <2>2, <2>3 DEF Versions
  <2> QED
    BY <1>1, <2>1, <2>2, <2>3, <2>4
<1>5. CASE j = i
  <2>1. rv'[i] = rv[i] + 1 /\ rv[i] \in Nat
    BY <1>1, <1>3
  <2>2. inst'[i] # None /\ inst'[i].rv = rv[i] + 1
    <3>1. CASE CreateInstance(i)
      <4> DEFINE n == [rv |-> rv[i] + 1, deleting |-> FALSE, finalizer |-> TRUE]
      <4>1. inst'[i] = n
        BY <1>1, <3>1 DEF CreateInstance
      <4>2. n \in Instance /\ n.rv = rv[i] + 1
        BY <2>1 DEF Instance
      <4> QED
        BY <4>1, <4>2, InstanceAssumption
    <3>2. CASE DeleteInstance(i) \/ TouchInstance(i)
      <4>1. inst[i] # None /\ inst[i] \in Instance
        BY <1>1, <3>2 DEF DeleteInstance, TouchInstance
      <4> DEFINE n == [inst[i] EXCEPT !.deleting = TRUE, !.rv = rv[i] + 1]
                 m == [inst[i] EXCEPT !.rv = rv[i] + 1]
      <4>2. inst'[i] = n \/ inst'[i] = m
        BY <1>1, <3>2 DEF DeleteInstance, TouchInstance
      <4>3. rv[i] + 1 \in Nat
        BY <2>1
      <4>4. n \in Instance /\ m \in Instance
        BY <4>1, <4>3 DEF Instance
      <4>5. m.rv = rv[i] + 1 /\ n.rv = rv[i] + 1
        BY <4>1, <4>3 DEF Instance
      <4> HIDE DEF n, m
      <4> QED
        BY <4>2, <4>3, <4>4, <4>5, InstanceAssumption
    <3> QED
      BY <3>1, <3>2
  <2>3. ASSUME NEW h \in Instance, VersionOf(h, i) PROVE VersionOf(h, i)'
    <3>1. h.rv \in Nat /\ h.rv <= rv[i]
      BY <2>3 DEF Instance, VersionOf
    <3>2. h.rv <= rv'[i] /\ h.rv # rv'[i]
      BY <2>1, <3>1
    <3> QED
      BY <1>2, <2>2, <2>3, <3>2 DEF VersionOf
  <2>4. Versions(i)'
    <3>1. cache[i] # None => cache[i] \in Instance /\ VersionOf(cache[i], i)
      BY <1>1 DEF Versions
    <3> QED
      BY <1>2, <2>1, <2>2, <2>3, <3>1 DEF Versions
  <2> QED
    BY <1>5, <2>1, <2>2, <2>3, <2>4
<1> QED
  BY <1>4, <1>5

\* The informer takes over what is in the API server.
LEMMA CacheVersions ==
    ASSUME InstanceIInv, NEW j \in Keys, Versions(j), UNCHANGED apiVars,
           cache'[j] \in {cache[j], inst[j]}
    PROVE  /\ Versions(j)'
           /\ \A h \in Instance : VersionOf(h, j) => VersionOf(h, j)'
           /\ inst[j] # None => inst'[j] # None
           /\ rv[j] <= rv'[j]
<1>1. /\ inst \in [Keys -> Instance \cup {None}] /\ rv \in [Keys -> Nat]
      /\ cache \in [Keys -> Instance \cup {None}]
      /\ inst' = inst /\ rv' = rv
  BY DEF InstanceIInv, TypeOK
<1>2. ASSUME NEW h \in Instance, VersionOf(h, j) PROVE VersionOf(h, j)'
  <2>1. cache'[j] # None => h.rv <= cache'[j].rv
    BY <1>1, <1>2 DEF VersionOf, Versions
  <2> QED
    BY <1>1, <1>2, <2>1 DEF VersionOf
<1>3. Versions(j)'
  <2>1. inst'[j] # None => inst'[j].rv = rv'[j]
    BY <1>1 DEF Versions
  <2>2. ASSUME cache'[j] # None PROVE VersionOf(cache[j], j)'
    <3>1. CASE cache'[j] = cache[j]
      BY <1>1, <1>2, <2>2, <3>1 DEF Versions
    <3>2. CASE cache'[j] = inst[j]
      <4>1. inst[j] \in Instance /\ inst[j].rv = rv[j] /\ rv[j] \in Nat
        BY <1>1, <2>2, <3>2 DEF Versions
      <4> QED
        BY <1>1, <2>2, <3>2, <4>1 DEF VersionOf
    <3> QED
      BY <3>1, <3>2
  <2> QED
    BY <2>1, <2>2 DEF Versions
<1> QED
  BY <1>1, <1>2, <1>3

\* A step that leaves every sync as it is, or ends it, that keeps instances, and
\* that adds nothing to the target cluster.
LEMMA OrphanKept ==
    ASSUME InstanceIInv, OrphanIInv, Unedited',
           \A v \in Workers :
             \/ task'[v].step = "lookup" /\ task'[v].held = None
             \/ /\ cur'[v] = cur[v] /\ task'[v].step = task[v].step
                /\ task'[v].held = task[v].held /\ task'[v].todo = task[v].todo
                /\ task'[v].erred = task[v].erred,
           \A j \in Keys :
             /\ Versions(j)'
             /\ \A h \in Instance : VersionOf(h, j) => VersionOf(h, j)'
             /\ inst[j] # None => inst'[j] # None
             /\ rv[j] <= rv'[j],
           rv' \in [Keys -> Nat],
           present' \ terminating' \subseteq present \ terminating
    PROVE  OrphanIInv'
<1>1. ASSUME NEW v \in Workers
      PROVE  /\ HeldVersion(v)' /\ SyncContents(v)'
             /\ \A i \in Keys, o \in Objects :
                  ClearedBy(v, i, o)' => ClearedBy(v, i, o)
  <2>1. CASE task'[v].step = "lookup" /\ task'[v].held = None
    BY <2>1 DEF HeldVersion, SyncContents, ClearedBy
  <2>2. CASE /\ cur'[v] = cur[v] /\ task'[v].step = task[v].step
             /\ task'[v].held = task[v].held /\ task'[v].todo = task[v].todo
             /\ task'[v].erred = task[v].erred
    <3>1. HeldVersion(v) /\ SyncContents(v) /\ SyncState(v)
      BY DEF OrphanIInv, InstanceIInv, TypeOK
    <3>2. LoopTypeOK /\ task[v] \in Task /\ rv \in [Keys -> Nat]
      BY DEF InstanceIInv, TypeOK
    <3>3. SyncContents(v)'
      BY <2>2, <3>1 DEF SyncContents
    <3>4. task[v].held # None => cur[v] \in Keys /\ task[v].held \in Instance
      BY <3>1, <3>2, HasKey DEF SyncState, Keyless, Task
    <3>5. HeldVersion(v)'
      BY <2>2, <3>1, <3>4 DEF HeldVersion
    <3>6. ASSUME NEW i \in Keys, NEW o \in Objects, ClearedBy(v, i, o)'
          PROVE  ClearedBy(v, i, o)
      <4>1. task[v].held # None /\ cur[v] = i
        BY <2>2, <3>1, <3>6 DEF ClearedBy, SyncState
      <4>2. task[v].held.rv <= rv[i] /\ task[v].held.rv \in Nat
        BY <3>1, <3>4, <4>1 DEF HeldVersion, VersionOf, Instance
      <4>3. task[v].held.rv = rv'[i] /\ rv[i] \in Nat /\ rv'[i] \in Nat
        BY <2>2, <3>2, <3>6 DEF ClearedBy
      <4>4. rv[i] <= rv'[i]
        OBVIOUS
      <4>5. task[v].held.rv = rv[i]
        BY <4>2, <4>3, <4>4
      <4> QED
        BY <2>2, <3>6, <4>5 DEF ClearedBy
    <3> QED
      BY <3>3, <3>5, <3>6
  <2> QED
    BY <2>1, <2>2
<1>2. ASSUME NEW o \in present' \ terminating' PROVE Needed(o)'
  <2>1. Needed(o) /\ o \in Objects
    BY DEF OrphanIInv, InstanceIInv, TypeOK
  <2> QED
    BY <1>1, <2>1 DEF Needed
<1> QED
  BY <1>1, <1>2 DEF OrphanIInv

\* Two syncs that have an instance in hand have different ones.
LEMMA OneSyncPerInstance ==
    ASSUME InstanceIInv, OneWorkerPerKey, NEW v \in Workers, NEW w \in Workers,
           task[v].held # None, task[w].held # None, cur[v] = cur[w]
    PROVE  v = w
  BY DEF InstanceIInv, TypeOK, SyncState, OneWorkerPerKey, Holding

\* Nobody edits a manifest if nobody may.
LEMMA StaysUnedited ==
    ASSUME InstanceIInv, Unedited,
           \/ budget' = budget
           \/ \E d \in Disturbances \ {"any"} : Spend(d),
           \A i \in Keys : catalog'[i] \in {catalog[i], Manifest[i], None}
    PROVE  Unedited'
<1>1. budget \in [Disturbances -> Nat] /\ "edit" \in Disturbances
  BY DEF InstanceIInv, TypeOK, Disturbances
<1>2. budget'["edit"] = 0
  <2>1. CASE budget' = budget
    BY <2>1 DEF Unedited
  <2>2. ASSUME NEW d \in Disturbances \ {"any"}, Spend(d)
        PROVE  budget'["edit"] = 0
    <3>1. budget'["edit"] \in Nat /\ budget'["edit"] <= budget["edit"]
      BY <1>1, <2>2, SpendType
    <3> QED
      BY <3>1 DEF Unedited
  <2> QED
    BY <2>1, <2>2
<1> QED
  BY <1>2 DEF Unedited

\* The end of a sync that has changed nothing.
LEMMA OrphanReturn ==
    ASSUME InstanceIInv, OrphanIInv, Unedited', NEW w \in Workers,
           NEW ok \in BOOLEAN, Return(w, ok),
           UNCHANGED <<inst, rv, cache, present, terminating>>
    PROVE  OrphanIInv'
<1>1. /\ LoopTypeOK /\ task \in [Workers -> Task] /\ rv \in [Keys -> Nat]
      /\ \A v \in Workers : SyncState(v)
  BY DEF InstanceIInv, TypeOK
<1>2. /\ task'[w] = NoTask /\ cur' = cur
      /\ \A v \in Workers \ {w} : task'[v] = task[v]
  BY <1>1, SyncEnds
<1>3. NoTask.step = "lookup" /\ NoTask.held = None
  BY DEF NoTask
<1>4. ASSUME NEW j \in Keys
      PROVE  /\ Versions(j)'
             /\ \A h \in Instance : VersionOf(h, j) => VersionOf(h, j)'
             /\ inst[j] # None => inst'[j] # None
             /\ rv[j] <= rv'[j]
  BY <1>1 DEF OrphanIInv, Versions, VersionOf
<1> QED
  BY <1>1, <1>2, <1>3, <1>4, OrphanKept

\* A step of a sync that goes on, on an instance it holds.
LEMMA OrphanGoesOn ==
    ASSUME InstanceIInv, OrphanIInv, Unedited',
           NEW w \in Workers, NEW t \in Task, cur[w] \in Keys,
           task' = [task EXCEPT ![w] = t],
           UNCHANGED <<loopVars, inst, rv, cache>>,
           VersionOf(t.held, cur[w]), SyncContents(w)',
           \A o \in Owned[cur[w]] \cap (present' \ terminating') :
             ClearedBy(w, cur[w], o)' => ClearedBy(w, cur[w], o),
           \A o \in present' \ terminating' :
             o \in present \ terminating \/ Needed(o)'
    PROVE  OrphanIInv'
<1>1. task \in [Workers -> Task]
  BY DEF InstanceIInv, TypeOK
<1>2. /\ cur' = cur /\ task'[w] = t
      /\ \A v \in Workers \ {w} : task'[v] = task[v]
  BY <1>1 DEF loopVars
<1>3. ASSUME NEW j \in Keys PROVE Versions(j)'
  BY DEF OrphanIInv, Versions, VersionOf
<1>4. HeldVersion(w)' /\ SyncContents(w)'
  BY <1>2 DEF HeldVersion, VersionOf
<1>5. ASSUME NEW v \in Workers \ {w} PROVE HeldVersion(v)' /\ SyncContents(v)'
  BY <1>2 DEF OrphanIInv, HeldVersion, VersionOf, SyncContents
<1>6. ASSUME NEW o \in present' \ terminating' PROVE Needed(o)'
  <2>1. CASE Needed(o)'
    BY <2>1
  <2>2. CASE o \in present \ terminating
    <3>1. PICK i \in Keys : /\ inst[i] # None /\ o \in Owned[i]
                            /\ \A v \in Workers : ~ClearedBy(v, i, o)
      BY <2>2 DEF OrphanIInv, Needed
    <3>2. ASSUME NEW v \in Workers PROVE ~ClearedBy(v, i, o)'
      <4>1. CASE v # w
        BY <1>2, <3>1, <4>1 DEF ClearedBy
      <4>2. CASE v = w /\ i = cur[w]
        BY <1>2, <1>6, <3>1, <4>2 DEF ClearedBy
      <4>3. CASE v = w /\ i # cur[w]
        BY <1>2, <4>3 DEF ClearedBy
      <4> QED
        BY <4>1, <4>2, <4>3
    <3> QED
      BY <3>1, <3>2 DEF Needed
  <2> QED
    BY <1>6, <2>1, <2>2
<1> QED
  BY <1>3, <1>4, <1>5, <1>6 DEF OrphanIInv

\* An instance owns what its manifest renders to, in either order.
LEMMA OwnedObjects ==
    ASSUME NEW i \in Keys
    PROVE  /\ ElementsOf(Install[Manifest[i]]) = Owned[i]
           /\ ElementsOf(Uninstall[Manifest[i]]) = Owned[i]
           /\ Install[Manifest[i]] \in Seq(Objects)
           /\ Uninstall[Manifest[i]] \in Seq(Objects)
  BY InstanceAssumption DEF Owned

\* A turn of the loop over the objects installs what its instance owns, or
\* takes an object off the list that is gone.
LEMMA OrphanNextObject ==
    ASSUME InstanceIInv, OneWorkerPerKey, OrphanIInv, Unedited',
           NEW w \in Workers, NextObject(w)
    PROVE  OrphanIInv'
<1> DEFINE i == cur[w]
           todo == task[w].todo
           o == Head(todo)
           held == task[w].held
<1>0. /\ LoopTypeOK /\ task \in [Workers -> Task] /\ task[w] \in Task
      /\ inst \in [Keys -> Instance \cup {None}]
      /\ present \subseteq Objects /\ terminating \subseteq present
      /\ SyncState(w) /\ HeldVersion(w) /\ SyncContents(w)
  BY DEF InstanceIInv, OrphanIInv, TypeOK
<1>1. /\ pc[w] = "sync" /\ task[w].step = "objects" /\ todo # <<>>
      /\ UNCHANGED <<loopVars, inst, rv, cache>>
  BY DEF NextObject, At
<1>2. i \in Keys /\ held # None /\ held \in Instance /\ VersionOf(held, i)
  BY <1>0, <1>1, HasKey DEF Keyless, SyncState, HeldVersion, Task
<1>3. /\ todo \in Seq(Objects) /\ o \in Objects /\ Tail(todo) \in Seq(Objects)
      /\ ElementsOf(todo) = ElementsOf(Tail(todo)) \cup {o}
      /\ ElementsOf(todo) \subseteq Owned[i]
  BY <1>0, <1>1, HeadOfObjects DEF Task, SyncContents
<1>4. PICK failed \in BOOLEAN :
        /\ task' = [task EXCEPT ![w].todo = Tail(@), ![w].erred = @ \/ failed]
        /\ \/ failed /\ UNCHANGED targetVars
           \/ IF held.deleting THEN DeleteObject(o) ELSE CreateObject(o)
  BY DEF NextObject
<1> DEFINE t == [task[w] EXCEPT !.todo = Tail(@), !.erred = @ \/ failed]
<1>5. /\ t \in Task /\ t.step = "objects" /\ t.held = held /\ t.todo = Tail(todo)
      /\ ~t.erred => ~task[w].erred /\ ~failed
  BY <1>0, <1>1, <1>3 DEF Task
<1>6. task' = [task EXCEPT ![w] = t]
  BY <1>0, <1>4
<1> HIDE DEF t
<1>7. task'[w] = t /\ cur' = cur
  BY <1>0, <1>1, <1>6 DEF loopVars
<1>8. SyncContents(w)'
  BY <1>3, <1>5, <1>7 DEF SyncContents
<1>9. ASSUME held.deleting
      PROVE  /\ present' \ terminating' \subseteq present \ terminating
             /\ failed \/ o \notin present' \ terminating'
  BY <1>0, <1>4, <1>9 DEF DeleteObject
<1>10. ASSUME NEW x \in Owned[i] \cap (present' \ terminating'),
              ClearedBy(w, i, x)'
       PROVE  ClearedBy(w, i, x)
  <2>1. /\ held.deleting /\ held.rv = rv[i] /\ ~t.erred
        /\ x \notin ElementsOf(Tail(todo))
    BY <1>1, <1>5, <1>7, <1>10 DEF ClearedBy
  <2>2. ~task[w].erred /\ x # o
    BY <1>5, <1>9, <2>1
  <2>3. x \notin ElementsOf(todo)
    BY <1>3, <2>1, <2>2
  <2> QED
    BY <1>1, <2>1, <2>2, <2>3 DEF ClearedBy
<1>11. ASSUME NEW x \in present' \ terminating', x \notin present \ terminating
       PROVE  Needed(x)'
  <2>1. ~held.deleting /\ x = o
    BY <1>4, <1>9, <1>11 DEF CreateObject
  <2>2. PICK k \in Keys : k = i
    BY <1>2
  <2>3. inst[k] # None /\ x \in Owned[k]
    BY <1>2, <1>3, <2>1, <2>2 DEF VersionOf
  <2>4. ASSUME NEW v \in Workers, ClearedBy(v, k, x)' PROVE FALSE
    <3>1. CASE v = w
      BY <1>5, <1>7, <2>1, <2>4, <3>1 DEF ClearedBy
    <3>2. CASE v # w
      <4>1. task'[v] = task[v] /\ cur[v] = i /\ task[v].step # "lookup"
        BY <1>0, <1>6, <1>7, <2>2, <2>4, <3>2 DEF ClearedBy
      <4>2. task[v].held # None
        BY <4>1 DEF InstanceIInv, TypeOK, SyncState
      <4> QED
        BY <1>2, <3>2, <4>1, <4>2, OneSyncPerInstance
    <3> QED
      BY <3>1, <3>2
  <2> QED
    BY <1>1, <2>3, <2>4 DEF Needed
<1>12. VersionOf(t.held, i)
  BY <1>2, <1>5
<1> QED
  BY <1>1, <1>2, <1>5, <1>6, <1>8, <1>10, <1>11, <1>12, OrphanGoesOn

\* An instance goes when everything it owns has been deleted for the version of
\* it that goes.
LEMMA OrphanFinalize ==
    ASSUME InstanceIInv, OneWorkerPerKey, OrphanIInv, Unedited',
           NEW w \in Workers, RemoveFinalizer(w)
    PROVE  OrphanIInv'
<1> DEFINE i == cur[w]
           held == task[w].held
<1>0. /\ LoopTypeOK /\ task \in [Workers -> Task] /\ task[w] \in Task
      /\ inst \in [Keys -> Instance \cup {None}] /\ rv \in [Keys -> Nat]
      /\ cache \in [Keys -> Instance \cup {None}]
      /\ \A v \in Workers : SyncState(v) /\ HeldVersion(v) /\ SyncContents(v)
      /\ \A j \in Keys : Versions(j)
  BY DEF InstanceIInv, OrphanIInv, TypeOK
<1>1. /\ pc[w] = "sync" /\ task[w].step = "finalize"
      /\ UNCHANGED <<rv, present, terminating>>
      /\ \E ok \in BOOLEAN : Return(w, ok)
  BY DEF RemoveFinalizer, At
<1>2. /\ i \in Keys /\ held # None /\ held \in Instance /\ VersionOf(held, i)
      /\ held.deleting /\ ~task[w].erred /\ task[w].todo = <<>>
  BY <1>0, <1>1, HasKey DEF Keyless, SyncState, HeldVersion, SyncContents, Task
<1>3. \/ inst' = inst
      \/ /\ inst' = [inst EXCEPT ![i] = None]
         /\ inst[i] # None /\ inst[i].rv = held.rv
  BY DEF RemoveFinalizer
<1>4. ASSUME NEW j \in Keys
      PROVE  /\ cache'[j] # None => /\ cache[j] # None
                                    /\ cache'[j].rv = cache[j].rv
                                    /\ cache'[j].deleting <=> cache[j].deleting
             /\ cache[j] # None => cache[j] \in Instance /\ cache'[j] # None
  <2>1. CASE cache'[j] = cache[j]
    BY <1>0, <2>1
  <2>2. CASE cache'[j] # cache[j]
    <3>1. j = i /\ task[w].shared
      BY <1>0, <2>2 DEF RemoveFinalizer
    <3>2. cache[i] \in Instance /\ cache[i] # None
      BY <1>0, <1>2, <3>1 DEF SyncState
    <3>3. cache'[i] = [cache[i] EXCEPT !.finalizer = FALSE]
      BY <1>0, <1>2, <3>1 DEF RemoveFinalizer
    <3>4. cache'[i] \in Instance /\ cache'[i] # None
      BY <3>2, <3>3, InstanceAssumption DEF Instance
    <3> QED
      BY <3>1, <3>2, <3>3, <3>4 DEF Instance
  <2> QED
    BY <2>1, <2>2
<1>5. ASSUME NEW j \in Keys PROVE Versions(j)'
  <2>1. inst'[j] # None => inst'[j] = inst[j] /\ inst[j].rv = rv[j]
    BY <1>0, <1>2, <1>3 DEF Versions
  <2>2. ASSUME cache'[j] # None PROVE VersionOf(cache[j], j)'
    <3>1. /\ cache[j] # None /\ cache[j] \in Instance
          /\ cache'[j].rv = cache[j].rv
          /\ cache'[j].deleting <=> cache[j].deleting
      BY <1>4, <2>2
    <3>2. VersionOf(cache[j], j)
      BY <1>0, <3>1 DEF Versions
    <3>3. ASSUME ~cache'[j].deleting PROVE inst'[j] # None
      <4>1. ~cache[j].deleting /\ inst[j] # None
        BY <3>1, <3>2, <3>3 DEF VersionOf
      <4>2. CASE j # i \/ inst' = inst
        BY <1>0, <1>3, <4>1, <4>2
      <4>3. CASE j = i /\ inst' # inst
        <5>1. inst[i] # None /\ inst[i].rv = held.rv /\ inst[i].rv = rv[i]
          BY <1>0, <1>2, <1>3, <4>3 DEF Versions
        <5>2. /\ held.rv <= cache[i].rv /\ cache[i].rv <= rv[i]
              /\ held.rv \in Nat /\ cache[i].rv \in Nat /\ rv[i] \in Nat
          BY <1>0, <1>2, <3>1, <3>2, <4>3 DEF VersionOf, Instance
        <5>3. cache[i].rv = rv[i] /\ held.rv = rv[i]
          BY <5>1, <5>2
        <5>4. cache[i].deleting <=> held.deleting
          BY <1>2, <3>2, <4>3, <5>1, <5>3 DEF VersionOf
        <5> QED
          BY <1>2, <4>1, <4>3, <5>4
      <4> QED
        BY <4>2, <4>3
    <3>4. cache'[j].rv <= cache'[j].rv
      BY <3>1 DEF Instance
    <3> QED
      BY <1>1, <2>1, <3>1, <3>2, <3>3, <3>4 DEF VersionOf
  <2> QED
    BY <1>1, <2>1, <2>2 DEF Versions
<1>6. /\ task'[w] = NoTask /\ cur' = cur
      /\ \A v \in Workers \ {w} : task'[v] = task[v]
  BY <1>0, <1>1, <1>4, SyncEnds
<1>7. NoTask.step = "lookup" /\ NoTask.held = None
  BY DEF NoTask
<1>8. HeldVersion(w)' /\ SyncContents(w)' /\ \A j, o : ~ClearedBy(w, j, o)'
  BY <1>6, <1>7 DEF HeldVersion, SyncContents, ClearedBy
<1>9. ASSUME NEW v \in Workers \ {w} PROVE HeldVersion(v)' /\ SyncContents(v)'
  <2>1. SyncContents(v)'
    BY <1>0, <1>6 DEF SyncContents
  <2>2. ASSUME task[v].held # None PROVE VersionOf(task[v].held, cur[v])'
    <3>1. cur[v] \in Keys /\ cur[v] # i
      BY <1>0, <1>2, <2>2, HasKey, OneSyncPerInstance DEF SyncState, Keyless
    <3>2. inst'[cur[v]] = inst[cur[v]]
      BY <1>0, <1>3, <3>1
    <3> QED
      BY <1>0, <1>1, <1>4, <1>6, <2>2, <3>1, <3>2 DEF HeldVersion, VersionOf
  <2> QED
    BY <1>6, <2>1, <2>2 DEF HeldVersion
<1>10. ASSUME NEW o \in present' \ terminating' PROVE Needed(o)'
  <2>1. PICK j \in Keys : /\ inst[j] # None /\ o \in Owned[j]
                          /\ \A v \in Workers : ~ClearedBy(v, j, o)
    BY <1>1 DEF OrphanIInv, Needed
  <2>2. inst'[j] # None
    <3>1. CASE inst' = inst
      BY <2>1, <3>1
    <3>2. CASE inst' # inst
      <4>1. held.rv = rv[i]
        BY <1>0, <1>2, <1>3, <3>2 DEF Versions
      <4>2. o \notin ElementsOf(task[w].todo)
        BY <1>2 DEF ElementsOf
      <4>3. ClearedBy(w, i, o)
        BY <1>1, <1>2, <4>1, <4>2 DEF ClearedBy
      <4>4. j # i
        BY <2>1, <4>3
      <4> QED
        BY <1>0, <1>3, <2>1, <4>4
    <3> QED
      BY <3>1, <3>2
  <2>3. ASSUME NEW v \in Workers PROVE ~ClearedBy(v, j, o)'
    <3>1. CASE v = w
      BY <1>8, <3>1
    <3>2. CASE v # w
      BY <1>1, <1>6, <2>1, <3>2 DEF ClearedBy
    <3> QED
      BY <3>1, <3>2
  <2> QED
    BY <2>1, <2>2, <2>3 DEF Needed
<1> QED
  BY <1>5, <1>8, <1>9, <1>10 DEF OrphanIInv

\* A step of a sync: the installed objects stay needed.
LEMMA OrphanSync ==
    ASSUME InstanceIInv, OneWorkerPerKey, OrphanIInv,
           NEW w \in Workers, SyncStep(w)
    PROVE  OrphanIInv'
<1> DEFINE i == cur[w]
           held == task[w].held
<1>0. /\ LoopTypeOK /\ task \in [Workers -> Task] /\ task[w] \in Task
      /\ cache \in [Keys -> Instance \cup {None}]
      /\ SyncState(w) /\ HeldVersion(w) /\ SyncContents(w)
  BY DEF InstanceIInv, OrphanIInv, TypeOK
<1>1. Unedited'
  <2>1. UNCHANGED catalog
    BY SyncStepType
  <2>2. \/ budget' = budget
        \/ \E d \in {"call", "reply", "update"} : Spend(d)
    BY DEF SyncStep, Lookup, Render, ResolveTarget, NextObject, ObjectsDone,
           RemoveFinalizer
  <2>3. {"call", "reply", "update"} \subseteq Disturbances \ {"any"}
    BY DEF Disturbances
  <2> QED
    BY <2>1, <2>2, <2>3, StaysUnedited DEF OrphanIInv
<1>2. ASSUME pc[w] = "sync" PROVE i \in Keys
  BY <1>0, <1>2, HasKey DEF Keyless
<1>3. CASE Lookup(w)
  <2>1. i \in Keys /\ UNCHANGED <<inst, rv, cache, present, terminating>>
    BY <1>2, <1>3 DEF Lookup, At
  <2>2. CASE Return(w, TRUE)
    BY <1>1, <2>1, <2>2, OrphanReturn
  <2>3. CASE /\ cache[i] # None
             /\ task' = [task EXCEPT ![w].step = "render", ![w].held = cache[i],
                                     ![w].shared = TRUE]
             /\ UNCHANGED loopVars
    <3> DEFINE t == [task[w] EXCEPT !.step = "render", !.held = cache[i],
                                    !.shared = TRUE]
    <3>1. t \in Task /\ t.step = "render" /\ t.held = cache[i]
      BY <1>0, <2>1 DEF Task, Steps
    <3>2. task' = [task EXCEPT ![w] = t]
      BY <2>3
    <3> HIDE DEF t
    <3>3. task'[w] = t
      BY <1>0, <3>2
    <3>4. SyncContents(w)' /\ \A o : ~ClearedBy(w, i, o)'
      BY <3>1, <3>3 DEF SyncContents, ClearedBy
    <3>5. VersionOf(t.held, i)
      BY <2>1, <2>3, <3>1 DEF OrphanIInv, Versions
    <3> QED
      BY <1>1, <2>1, <2>3, <3>1, <3>2, <3>4, <3>5, OrphanGoesOn
  <2> QED
    BY <1>3, <2>2, <2>3 DEF Lookup
<1>4. CASE Render(w)
  <2>1. /\ i \in Keys /\ UNCHANGED <<inst, rv, cache, present, terminating>>
        /\ task[w].step = "render"
    BY <1>2, <1>4 DEF Render, At
  <2>2. CASE Return(w, TRUE) \/ Return(w, FALSE)
    BY <1>1, <2>1, <2>2, OrphanReturn
  <2>3. ASSUME NEW todo \in {Install[Manifest[i]], Uninstall[Manifest[i]]},
               task' = [task EXCEPT ![w].step = "target", ![w].todo = todo],
               UNCHANGED loopVars
        PROVE  OrphanIInv'
    <3> DEFINE t == [task[w] EXCEPT !.step = "target", !.todo = todo]
    <3>1. todo \in Seq(Objects) /\ ElementsOf(todo) = Owned[i]
      BY <2>1, OwnedObjects
    <3>2. t \in Task /\ t.step = "target" /\ t.held = held /\ t.todo = todo
      BY <1>0, <3>1 DEF Task, Steps
    <3>3. task' = [task EXCEPT ![w] = t]
      BY <1>0, <2>3
    <3> HIDE DEF t
    <3>4. task'[w] = t /\ cur' = cur
      BY <1>0, <2>3, <3>3 DEF loopVars
    <3>5. SyncContents(w)' /\ \A o : ~ClearedBy(w, i, o)'
      BY <3>1, <3>2, <3>4 DEF SyncContents, ClearedBy
    <3>6. VersionOf(t.held, i)
      BY <1>0, <2>1, <3>2 DEF SyncState, HeldVersion
    <3> QED
      BY <1>1, <2>1, <2>3, <3>2, <3>3, <3>5, <3>6, OrphanGoesOn
  <2>4. catalog[i] # None => catalog[i] = Manifest[i]
    BY <2>1 DEF OrphanIInv, Unedited
  <2>5. \/ Return(w, TRUE) \/ Return(w, FALSE)
        \/ \E todo \in {Install[Manifest[i]], Uninstall[Manifest[i]]} :
             /\ task' = [task EXCEPT ![w].step = "target", ![w].todo = todo]
             /\ UNCHANGED loopVars
    BY <1>4, <2>4 DEF Render
  <2> QED
    BY <2>2, <2>3, <2>5
<1>5. CASE ResolveTarget(w)
  <2>1. /\ i \in Keys /\ UNCHANGED <<inst, rv, cache, present, terminating>>
        /\ task[w].step = "target"
    BY <1>2, <1>5 DEF ResolveTarget, At
  <2>2. CASE Return(w, FALSE)
    BY <1>1, <2>1, <2>2, OrphanReturn
  <2>3. ASSUME NEW kinds \in SUBSET Known,
               task' = [task EXCEPT ![w].step = "objects", ![w].mapped = kinds],
               UNCHANGED loopVars
        PROVE  OrphanIInv'
    <3> DEFINE t == [task[w] EXCEPT !.step = "objects", !.mapped = kinds]
    <3>1. kinds \in SUBSET Objects
      BY DEF Known
    <3>2. t \in Task /\ t.step = "objects" /\ t.held = held /\ t.todo = task[w].todo
      BY <1>0, <3>1 DEF Task, Steps
    <3>3. task' = [task EXCEPT ![w] = t]
      BY <1>0, <2>3
    <3> HIDE DEF t
    <3>4. task'[w] = t /\ cur' = cur
      BY <1>0, <2>3, <3>3 DEF loopVars
    <3>5. ElementsOf(task[w].todo) = Owned[i]
      BY <1>0, <2>1 DEF SyncContents
    <3>6. SyncContents(w)'
      BY <3>2, <3>4, <3>5 DEF SyncContents
    <3>7. \A o \in Owned[i] : ~ClearedBy(w, i, o)'
      BY <3>2, <3>4, <3>5 DEF ClearedBy
    <3>8. VersionOf(t.held, i)
      BY <1>0, <2>1, <3>2 DEF SyncState, HeldVersion
    <3> QED
      BY <1>1, <2>1, <2>3, <3>2, <3>3, <3>6, <3>7, <3>8, OrphanGoesOn
  <2> QED
    BY <1>5, <2>2, <2>3 DEF ResolveTarget
<1>6. CASE NextObject(w)
  BY <1>1, <1>6, OrphanNextObject
<1>7. CASE ObjectsDone(w)
  <2>1. /\ i \in Keys /\ UNCHANGED <<inst, rv, cache, present, terminating>>
        /\ task[w].step = "objects" /\ task[w].todo = <<>>
    BY <1>2, <1>7 DEF ObjectsDone, At
  <2>2. CASE Return(w, TRUE) \/ Return(w, FALSE)
    BY <1>1, <2>1, <2>2, OrphanReturn
  <2>3. CASE /\ ~task[w].erred /\ held.deleting
             /\ task' = [task EXCEPT ![w].step = "finalize"]
             /\ UNCHANGED loopVars
    <3> DEFINE t == [task[w] EXCEPT !.step = "finalize"]
    <3>1. /\ t \in Task /\ t.step = "finalize" /\ t.held = held
          /\ t.todo = task[w].todo /\ t.erred = task[w].erred
      BY <1>0 DEF Task, Steps
    <3>2. task' = [task EXCEPT ![w] = t]
      BY <1>0, <2>3
    <3> HIDE DEF t
    <3>3. task'[w] = t /\ cur' = cur
      BY <1>0, <2>3, <3>2 DEF loopVars
    <3>4. SyncContents(w)'
      BY <2>1, <2>3, <3>1, <3>3 DEF SyncContents
    <3>5. \A o : ClearedBy(w, i, o)' => ClearedBy(w, i, o)
      BY <2>1, <3>1, <3>3 DEF ClearedBy
    <3>6. VersionOf(t.held, i)
      BY <1>0, <2>1, <3>1 DEF SyncState, HeldVersion
    <3> QED
      BY <1>1, <2>1, <2>3, <3>1, <3>2, <3>4, <3>5, <3>6, OrphanGoesOn
  <2> QED
    BY <1>7, <2>2, <2>3 DEF ObjectsDone
<1>8. CASE RemoveFinalizer(w)
  BY <1>1, <1>8, OrphanFinalize
<1> QED
  BY <1>3, <1>4, <1>5, <1>6, <1>7, <1>8 DEF SyncStep

\* Users, the informer, the loop and a restart leave what is installed needed.
LEMMA OrphanStep ==
    ASSUME InstanceIInv, InstanceIInv', OneWorkerPerKey, OrphanIInv, [Next]_vars
    PROVE  OrphanIInv'
<1> DEFINE Quiet(v) == /\ cur'[v] = cur[v] /\ task'[v].step = task[v].step
                       /\ task'[v].held = task[v].held
                       /\ task'[v].todo = task[v].todo
                       /\ task'[v].erred = task[v].erred
           Ended(v) == task'[v].step = "lookup" /\ task'[v].held = None
           Later(j) == /\ Versions(j)'
                       /\ \A h \in Instance : VersionOf(h, j) => VersionOf(h, j)'
                       /\ inst[j] # None => inst'[j] # None
                       /\ rv[j] <= rv'[j]
<1>0. /\ LoopTypeOK /\ task \in [Workers -> Task]
      /\ \A v \in Workers : SyncState(v)
      /\ rv' \in [Keys -> Nat] /\ Unedited
      /\ \A j \in Keys : Versions(j)
      /\ inst \in [Keys -> Instance \cup {None}]
      /\ cache \in [Keys -> Instance \cup {None}]
  BY DEF InstanceIInv, OrphanIInv, TypeOK
<1>1. ASSUME UNCHANGED apiVars, \A j \in Keys : cache'[j] \in {cache[j], inst[j]}
      PROVE  \A j \in Keys : Later(j)
  BY <1>0, <1>1, CacheVersions
<1>2. ASSUME NEW i \in Keys, CreateInstance(i) \/ DeleteInstance(i) \/ TouchInstance(i)
      PROVE  OrphanIInv'
  <2>1. /\ UNCHANGED <<cur, task, catalog, budget, present, terminating>>
        /\ Unedited'
    BY <1>0, <1>2
    DEF CreateInstance, DeleteInstance, TouchInstance, loopVars, Unedited
  <2>2. \A j \in Keys : Later(j)
    BY <1>0, <1>2, WriteVersions
  <2> QED
    BY <1>0, <2>1, <2>2, OrphanKept
<1>3. ASSUME NEW i \in Keys, EditCatalog(i) PROVE OrphanIInv'
  <2>1. UNCHANGED <<cur, task, apiVars, cache, present, terminating>>
    BY <1>3 DEF EditCatalog, loopVars
  <2>2. ~Spend("edit")
    BY <1>0 DEF Spend, Unedited
  <2>3. Spend("vanish") /\ \A j \in Keys : catalog'[j] \in {catalog[j], Manifest[j], None}
    <3>1. catalog \in [Keys -> Contents \cup {None}]
      BY DEF InstanceIInv, TypeOK
    <3> QED
      BY <1>3, <2>2, <3>1 DEF EditCatalog
  <2>4. Unedited'
    BY <1>0, <2>3, StaysUnedited DEF Disturbances
  <2>5. \A j \in Keys : Later(j)
    BY <1>1, <2>1
  <2> QED
    BY <1>0, <2>1, <2>4, <2>5, OrphanKept
<1>4. ASSUME NEW o \in Objects, Purge(o) PROVE OrphanIInv'
  <2>1. /\ UNCHANGED <<cur, task, apiVars, cache, catalog, budget>>
        /\ present' \ terminating' \subseteq present \ terminating
    BY <1>4 DEF Purge, loopVars
  <2>2. Unedited' /\ \A j \in Keys : Later(j)
    BY <1>0, <1>1, <2>1 DEF Unedited
  <2> QED
    BY <1>0, <2>1, <2>2, OrphanKept
<1>5. ASSUME NEW i \in Keys, Deliver(i) PROVE OrphanIInv'
  <2>1. /\ UNCHANGED <<loopVars, apiVars, catalog, targetVars, budget>>
        /\ Unshare({i}) /\ cache' = [cache EXCEPT ![i] = inst[i]]
    BY <1>5 DEF Deliver
  <2>2. /\ \A j \in Keys \ {i} : cache'[j] = cache[j]
        /\ \A j \in Keys : cache'[j] \in {cache[j], inst[j]}
    BY <1>0, <2>1
  <2>3. \A v \in Workers : Quiet(v)
    BY <1>0, <2>1, <2>2, UnshareType DEF loopVars
  <2>4. Unedited' /\ \A j \in Keys : Later(j)
    BY <1>0, <1>1, <2>1, <2>2 DEF Unedited
  <2> QED
    BY <1>0, <2>1, <2>3, <2>4, OrphanKept
<1>6. ASSUME NEW i \in Keys, Resync(i) PROVE OrphanIInv'
  <2>1. UNCHANGED <<cur, task, apiVars, cache, catalog, budget, present, terminating>>
    BY <1>6 DEF Resync, loopVars
  <2>2. Unedited' /\ \A j \in Keys : Later(j)
    BY <1>0, <1>1, <2>1 DEF Unedited
  <2> QED
    BY <1>0, <2>1, <2>2, OrphanKept
<1>7. ASSUME Relist PROVE OrphanIInv'
  <2>1. /\ UNCHANGED <<loopVars, apiVars, catalog, targetVars>>
        /\ Unshare(Keys) /\ cache' = inst /\ Spend("relist")
    BY <1>7 DEF Relist
  <2>2. \A v \in Workers : Quiet(v)
    BY <1>0, <2>1, UnshareType DEF loopVars
  <2>3. Unedited'
    BY <1>0, <2>1, StaysUnedited DEF Disturbances
  <2>4. \A j \in Keys : Later(j)
    BY <1>1, <2>1
  <2> QED
    BY <1>0, <2>1, <2>2, <2>3, <2>4, OrphanKept
<1>8. ASSUME \/ \E i \in Keys : Notify(i) \/ LoopStep(Fire(i))
             \/ \E w \in Workers : LoopStep(WorkerStep(w))
             \/ LoopStep(Receive)
      PROVE  OrphanIInv'
  <2>1. /\ \/ \E k \in Keys : Enqueue(k) \/ Fire(k)
           \/ \E w \in Workers : WorkerStep(w)
           \/ Receive
        /\ UNCHANGED <<apiVars, cache, catalog, targetVars, task, budget>>
    BY <1>8 DEF Notify, LoopStep
  <2>2. ASSUME NEW v \in Workers PROVE Quiet(v) \/ Ended(v)
    BY <1>0, <2>1, LoopKeepsSyncs DEF SyncState
  <2>3. Unedited' /\ \A j \in Keys : Later(j)
    BY <1>0, <1>1, <2>1 DEF Unedited
  <2> QED
    BY <1>0, <2>1, <2>2, <2>3, OrphanKept
<1>9. ASSUME NEW w \in Workers, SyncStep(w) PROVE OrphanIInv'
  BY <1>9, OrphanSync
<1>10. ASSUME RestartController PROVE OrphanIInv'
  <2>1. /\ task' = [w \in Workers |-> NoTask] /\ cache' = inst
        /\ UNCHANGED <<apiVars, catalog, targetVars>> /\ Spend("restart")
    BY <1>10 DEF RestartController
  <2>2. \A v \in Workers : Ended(v)
    <3>1. NoTask.step = "lookup" /\ NoTask.held = None
      BY DEF NoTask
    <3> QED
      BY <2>1, <3>1
  <2>3. Unedited'
    BY <1>0, <2>1, StaysUnedited DEF Disturbances
  <2>4. \A j \in Keys : Later(j)
    BY <1>1, <2>1
  <2> QED
    BY <1>0, <2>1, <2>2, <2>3, <2>4, OrphanKept
<1>11. ASSUME UNCHANGED vars PROVE OrphanIInv'
  <2>1. UNCHANGED <<cur, task, apiVars, cache, catalog, budget, present, terminating>>
    BY <1>11 DEF loopVars
  <2>2. Unedited' /\ \A j \in Keys : Later(j)
    BY <1>0, <1>1, <2>1 DEF Unedited
  <2> QED
    BY <1>0, <2>1, <2>2, OrphanKept
<1> QED
  BY <1>2, <1>3, <1>4, <1>5, <1>6, <1>7, <1>8, <1>9, <1>10, <1>11 DEF Next

\* OrphanIInv is inductive while nobody may edit a manifest.
LEMMA OrphanInvariant ==
    ASSUME \A b \in Budgets : b["edit"] = 0
    PROVE  Spec => []OrphanIInv
<1>1. Init => OrphanIInv
  <2> SUFFICES ASSUME Init PROVE OrphanIInv
    OBVIOUS
  <2>1. Unedited
    BY InstanceAssumption DEF Init, Unedited
  <2>2. \A j \in Keys : Versions(j)
    BY DEF Init, Versions
  <2>3. \A v \in Workers : HeldVersion(v) /\ SyncContents(v)
    <3>1. NoTask.step = "lookup" /\ NoTask.held = None
      BY DEF NoTask
    <3> QED
      BY <3>1 DEF Init, HeldVersion, SyncContents
  <2> QED
    BY <2>1, <2>2, <2>3 DEF Init, OrphanIInv
<1>2. InstanceIInv /\ InstanceIInv' /\ OneWorkerPerKey /\ OrphanIInv /\ [Next]_vars
        => OrphanIInv'
  BY OrphanStep
<1>3. Spec => []OneWorkerPerKey
  BY InstanceQueueCorrect, PTL
<1> QED
  BY <1>1, <1>2, <1>3, InstanceInvariant, PTL DEF Spec

\* While no manifest is edited everything Bouquet has installed belongs to an
\* instance that exists: whatever instances are created, changed, deleted and
\* created again, however old the cache and the copy in a sync are, and
\* whatever requests, replies, watches and processes are lost.
THEOREM NothingOrphaned ==
    ASSUME \A b \in Budgets : b["edit"] = 0
    PROVE  Spec => []NoOrphans
<1>1. OrphanIInv => NoOrphans
  BY DEF OrphanIInv, Needed, NoOrphans
<1> QED
  BY <1>1, OrphanInvariant, PTL

-----------------------------------------------------------------------------
(* The life of an instance.                                                *)

\* What one instance alone owns lies in a Namespace or CRD that is its own as
\* well, or that no instance owns.
ContainersApart ==
    \A i, j \in Keys : \A x \in Lifecycle!OwnedAlone(i) :
      Container[x] \in Owned[j] => i = j

Installed == present \ terminating
Alone(i) == Installed \cap Lifecycle!OwnedAlone(i)
Live(i) == inst[i] # None /\ ~inst[i].deleting

\* An instance that has been created again has nothing installed of its own as
\* long as what is known of it, in the cache or in a sync, is the deletion of
\* the one before.
Recreated(i) ==
    Live(i) =>
      /\ cache[i] # None /\ cache[i].deleting =>
           /\ Alone(i) = {}
           /\ \A w \in Workers : cur[w] = i /\ task[w].held # None
                                   => task[w].held.deleting
      /\ \A w \in Workers :
           cur[w] = i /\ task[w].held # None /\ task[w].held.deleting
             => Alone(i) = {}

\* What is in a container that is going belongs to an instance that goes too.
Sinking(i) ==
    \A x \in Alone(i) :
      Container[x] \in terminating => inst[i] # None /\ inst[i].deleting

LifeIInv == \A i \in Keys : Recreated(i) /\ Sinking(i)

\* What an instance alone owns is only installed while it exists.
AloneExist == \A i \in Keys : Alone(i) # {} => inst[i] # None

LEMMA AloneNeeded == OrphanIInv => AloneExist
<1> SUFFICES ASSUME OrphanIInv, NEW i \in Keys, NEW x \in Alone(i)
             PROVE  inst[i] # None
  BY DEF AloneExist
<1>1. x \in present \ terminating /\ x \in Lifecycle!OwnedAlone(i)
  BY DEF Alone, Installed
<1>2. PICK j \in Keys : inst[j] # None /\ x \in Owned[j]
  BY <1>1 DEF OrphanIInv, Needed
<1>3. j = i
  BY <1>1, <1>2 DEF Lifecycle!OwnedAlone
<1> QED
  BY <1>2, <1>3

\* What it alone owns is not what a worker of another instance works on.
LEMMA AloneOwner ==
    ASSUME NEW i \in Keys, NEW j \in Keys, NEW x \in Owned[i], x \in Alone(j)
    PROVE  j = i
  BY DEF Alone, Lifecycle!OwnedAlone

\* A step that adds nothing to the target cluster, that leaves every sync the
\* copy it has or ends it, and that takes no instance back from its deletion.
LEMMA LifeKept ==
    ASSUME InstanceIInv, OrphanIInv, OrphanIInv', LifeIInv,
           \A v \in Workers :
             \/ task'[v].held = None
             \/ cur'[v] = cur[v] /\ task'[v].held = task[v].held,
           Installed' \subseteq Installed, terminating' \subseteq terminating,
           \A j \in Keys :
             /\ Live(j)' => Live(j) \/ inst[j] = None
             /\ inst[j] # None /\ inst[j].deleting
                  => inst'[j] = None \/ inst'[j].deleting
             /\ Live(j)' /\ cache'[j] # None /\ cache'[j].deleting
                  => cache[j] # None /\ cache[j].deleting
    PROVE  LifeIInv'
<1>1. ASSUME NEW j \in Keys PROVE Alone(j)' \subseteq Alone(j)
  BY DEF Alone
<1>2. ASSUME NEW j \in Keys PROVE Sinking(j)'
  <2>1. SUFFICES ASSUME NEW x \in Alone(j)', Container[x] \in terminating'
                 PROVE  inst'[j] # None /\ inst'[j].deleting
    BY DEF Sinking
  <2>2. x \in Alone(j) /\ Container[x] \in terminating
    BY <1>1, <2>1
  <2>3. inst[j] # None /\ inst[j].deleting
    BY <2>2 DEF LifeIInv, Sinking
  <2>4. inst'[j] # None
    <3>1. AloneExist'
      BY AloneNeeded, PTL
    <3> QED
      BY <2>1, <3>1 DEF AloneExist
  <2> QED
    BY <2>3, <2>4
<1>3. ASSUME NEW j \in Keys PROVE Recreated(j)'
  <2>1. SUFFICES ASSUME Live(j)'
                 PROVE  Recreated(j)'
    BY DEF Recreated
  <2>2. CASE Live(j)
    BY <1>1, <2>1, <2>2 DEF LifeIInv, Recreated
  <2>3. CASE inst[j] = None
    <3>1. Alone(j)' = {}
      BY <1>1, <2>3, AloneNeeded DEF AloneExist
    <3>2. \A v \in Workers : cur'[v] = j /\ task'[v].held # None
                               => task'[v].held.deleting
      BY <2>3 DEF OrphanIInv, HeldVersion, VersionOf
    <3> QED
      BY <3>1, <3>2 DEF Recreated
  <2> QED
    BY <2>1, <2>2, <2>3
<1> QED
  BY <1>2, <1>3 DEF LifeIInv

\* The lister's Get: what a worker learns of an instance is what the cache has.
LEMMA LifeLookup ==
    ASSUME InstanceIInv, LifeIInv, NEW w \in Workers, At(w, "lookup"),
           cache[cur[w]] # None,
           task' = [task EXCEPT ![w].step = "render", ![w].held = cache[cur[w]],
                                ![w].shared = TRUE],
           UNCHANGED <<loopVars, apiVars, cache, targetVars>>
    PROVE  LifeIInv'
<1>1. task \in [Workers -> Task] /\ task[w] \in Task
  BY DEF InstanceIInv, TypeOK
<1>2. task'[w].held = cache[cur[w]]
  BY <1>1 DEF Task
<1>3. \A v \in Workers \ {w} : task'[v] = task[v]
  BY <1>1
<1>4. /\ UNCHANGED <<cur, inst, cache, present, terminating>>
      /\ \A j \in Keys : /\ Live(j)' <=> Live(j)
                         /\ Alone(j)' = Alone(j)
                         /\ Sinking(j)' <=> Sinking(j)
  BY DEF loopVars, Live, Alone, Installed, Sinking
<1>5. ASSUME NEW j \in Keys PROVE Recreated(j)'
  <2>1. Recreated(j)
    BY DEF LifeIInv
  <2>2. ASSUME Live(j), cache[j] # None, cache[j].deleting, NEW v \in Workers,
               cur[v] = j, task'[v].held # None
        PROVE  task'[v].held.deleting
    BY <1>2, <1>3, <2>1, <2>2 DEF Recreated
  <2>3. ASSUME Live(j), NEW v \in Workers, cur[v] = j,
               task'[v].held # None, task'[v].held.deleting
        PROVE  Alone(j) = {}
    BY <1>2, <1>3, <2>1, <2>3 DEF Recreated
  <2> QED
    BY <1>4, <2>1, <2>2, <2>3 DEF Recreated
<1> QED
  BY <1>4, <1>5 DEF LifeIInv

\* What a turn of the loop over the objects does: it leaves the target cluster
\* alone, or deletes or creates an object its instance owns.
LEMMA NextObjectDoes ==
    ASSUME InstanceIInv, OrphanIInv, NEW w \in Workers, NextObject(w)
    PROVE  \E i \in Keys, o \in Objects, failed \in BOOLEAN :
             /\ i = cur[w] /\ task[w].held # None /\ o \in Owned[i]
             /\ VersionOf(task[w].held, i)
             /\ \/ failed /\ UNCHANGED targetVars
                \/ IF task[w].held.deleting
                     THEN DeleteObject(o)
                     ELSE CreateObject(o) /\ (o \in present \/ Creatable(o))
             /\ UNCHANGED <<cur, inst, cache>>
             /\ \A v \in Workers : task'[v].held = task[v].held
<1> DEFINE i == cur[w]
           o == Head(task[w].todo)
<1>0. /\ LoopTypeOK /\ task \in [Workers -> Task] /\ task[w] \in Task
      /\ SyncState(w) /\ HeldVersion(w) /\ SyncContents(w)
  BY DEF InstanceIInv, OrphanIInv, TypeOK
<1>1. /\ pc[w] = "sync" /\ task[w].step = "objects" /\ task[w].todo # <<>>
      /\ UNCHANGED <<loopVars, cur, inst, cache>>
  BY DEF NextObject, At, loopVars
<1>2. i \in Keys /\ task[w].held # None /\ VersionOf(task[w].held, i)
  BY <1>0, <1>1, HasKey DEF Keyless, SyncState, HeldVersion
<1>3. o \in Objects /\ o \in Owned[i]
  BY <1>0, <1>1, HeadOfObjects DEF Task, SyncContents
<1>4. PICK failed \in BOOLEAN :
        /\ task' = [task EXCEPT ![w].todo = Tail(@), ![w].erred = @ \/ failed]
        /\ \/ failed /\ UNCHANGED targetVars
           \/ IF task[w].held.deleting
                THEN DeleteObject(o)
                ELSE CreateObject(o) /\ (o \in present \/ Creatable(o))
  BY DEF NextObject
<1>5. \A v \in Workers : task'[v].held = task[v].held
  <2>1. task'[w] = [task[w] EXCEPT !.todo = Tail(@), !.erred = @ \/ failed]
    BY <1>0, <1>4
  <2>2. task'[w].held = task[w].held
    BY <1>0, <2>1 DEF Task
  <2>3. \A v \in Workers \ {w} : task'[v] = task[v]
    BY <1>0, <1>4
  <2> QED
    BY <2>2, <2>3
<1> QED
  BY <1>1, <1>2, <1>3, <1>4, <1>5

\* A turn of the loop over the objects: what it installs is of an instance that
\* lives and that it knows to live, and what it deletes is of one that goes, or
\* was not there.
LEMMA LifeNextObject ==
    ASSUME InstanceIInv, OneWorkerPerKey, OrphanIInv, LifeIInv, ContainersApart,
           NEW w \in Workers, NextObject(w)
    PROVE  LifeIInv'
<1>1. PICK i \in Keys, o \in Objects, failed \in BOOLEAN :
        /\ i = cur[w] /\ task[w].held # None /\ o \in Owned[i]
        /\ VersionOf(task[w].held, i)
        /\ \/ failed /\ UNCHANGED targetVars
           \/ IF task[w].held.deleting
                THEN DeleteObject(o)
                ELSE CreateObject(o) /\ (o \in present \/ Creatable(o))
        /\ UNCHANGED <<cur, inst, cache>>
        /\ \A v \in Workers : task'[v].held = task[v].held
  BY NextObjectDoes
<1>2. present \subseteq Objects /\ terminating \subseteq present
  BY DEF InstanceIInv, TypeOK
<1>3. ASSUME task[w].held.deleting
      PROVE  /\ Installed' \subseteq Installed
             /\ terminating' \subseteq terminating \cup {o}
  BY <1>1, <1>3 DEF Installed, DeleteObject
<1>4. ASSUME ~task[w].held.deleting
      PROVE  /\ terminating' = terminating
             /\ \/ Installed' \subseteq Installed
                \/ Installed' = Installed \cup {o} /\ Creatable(o)
  BY <1>1, <1>2, <1>4 DEF Installed, CreateObject
<1>5. ASSUME NEW j \in Keys, NEW v \in Workers, cur[v] = j,
             task[v].held # None, task[v].held.deleting
      PROVE  Alone(j)' \subseteq Alone(j)
  <2>1. CASE task[w].held.deleting
    BY <1>3, <2>1 DEF Alone
  <2>2. CASE ~task[w].held.deleting
    <3>1. v # w /\ j # i
      BY <1>1, <1>5, <2>2, OneSyncPerInstance
    <3>2. o \notin Lifecycle!OwnedAlone(j)
      BY <1>1, <3>1 DEF Lifecycle!OwnedAlone
    <3> QED
      BY <1>4, <2>2, <3>2 DEF Alone
  <2> QED
    BY <2>1, <2>2
<1>6. ASSUME NEW j \in Keys, Live(j), cache[j] # None, cache[j].deleting
      PROVE  Alone(j)' \subseteq Alone(j)
  <2>1. CASE task[w].held.deleting
    BY <1>3, <2>1 DEF Alone
  <2>2. CASE ~task[w].held.deleting
    <3>1. j # i
      BY <1>1, <1>6, <2>2 DEF LifeIInv, Recreated
    <3>2. o \notin Lifecycle!OwnedAlone(j)
      BY <1>1, <3>1 DEF Lifecycle!OwnedAlone
    <3> QED
      BY <1>4, <2>2, <3>2 DEF Alone
  <2> QED
    BY <2>1, <2>2
<1>7. ASSUME NEW j \in Keys PROVE Recreated(j)'
  <2>1. Live(j)' <=> Live(j)
    BY <1>1 DEF Live
  <2>2. Recreated(j)
    BY DEF LifeIInv
  <2>3. ASSUME Live(j), cache[j] # None, cache[j].deleting
        PROVE  /\ Alone(j)' = {}
               /\ \A v \in Workers : cur'[v] = j /\ task'[v].held # None
                                       => task'[v].held.deleting
    BY <1>1, <1>6, <2>2, <2>3 DEF Recreated
  <2>4. ASSUME Live(j), NEW v \in Workers, cur[v] = j,
               task[v].held # None, task[v].held.deleting
        PROVE  Alone(j)' = {}
    BY <1>5, <2>2, <2>4 DEF Recreated
  <2> QED
    BY <1>1, <2>1, <2>3, <2>4 DEF Recreated
<1>8. ASSUME NEW j \in Keys, NEW x \in Alone(j)', Container[x] \in terminating'
      PROVE  inst[j] # None /\ inst[j].deleting
  <2>0. x \in Installed' /\ x \in Lifecycle!OwnedAlone(j)
    BY <1>8 DEF Alone
  <2>1. CASE x \in Alone(j) /\ Container[x] \in terminating
    BY <2>1 DEF LifeIInv, Sinking
  <2>2. CASE task[w].held.deleting /\ Container[x] \notin terminating
    <3>1. x \in Alone(j) /\ Container[x] = o
      BY <1>3, <1>8, <2>0, <2>2 DEF Alone
    <3>2. j = i
      BY <1>1, <2>0, <3>1 DEF ContainersApart
    <3>3. inst[i] # None
      BY <3>1, <3>2, AloneNeeded DEF AloneExist
    <3>4. ~Live(i)
      BY <1>1, <2>2, <3>1, <3>2 DEF LifeIInv, Recreated
    <3> QED
      BY <3>2, <3>3, <3>4 DEF Live
  <2>3. CASE ~task[w].held.deleting /\ x \notin Alone(j)
    <3>1. x = o /\ Creatable(o) /\ Container[x] \in terminating
      BY <1>4, <1>8, <2>0, <2>3 DEF Alone
    <3>2. None \notin Objects
      BY InstanceAssumption
    <3> QED
      BY <1>2, <3>1, <3>2 DEF Creatable
  <2>4. task[w].held.deleting => x \in Alone(j)
    BY <1>3, <2>0 DEF Alone
  <2>5. ~task[w].held.deleting => Container[x] \in terminating
    BY <1>4, <1>8
  <2> QED
    BY <2>1, <2>2, <2>3, <2>4, <2>5
<1>9. ASSUME NEW j \in Keys PROVE Sinking(j)'
  BY <1>1, <1>8 DEF Sinking
<1> QED
  BY <1>7, <1>9 DEF LifeIInv

\* A step that leaves instances and the target cluster alone.
LEMMA LifeQuiet ==
    ASSUME InstanceIInv, OrphanIInv, OrphanIInv', LifeIInv,
           \A v \in Workers :
             \/ task'[v].held = None
             \/ cur'[v] = cur[v] /\ task'[v].held = task[v].held,
           \A j \in Keys : cache'[j] \in {cache[j], inst[j]},
           UNCHANGED <<inst, present, terminating>>
    PROVE  LifeIInv'
<1>1. Installed' \subseteq Installed /\ terminating' \subseteq terminating
  BY DEF Installed
<1>2. ASSUME NEW j \in Keys
      PROVE  /\ Live(j)' => Live(j)
             /\ inst'[j] = inst[j]
             /\ Live(j)' /\ cache'[j] # None /\ cache'[j].deleting
                  => cache[j] # None /\ cache[j].deleting
  BY DEF Live
<1> QED
  BY <1>1, <1>2, LifeKept

\* A sync that ends leaves no copy behind.
LEMMA LifeReturn ==
    ASSUME InstanceIInv, NEW w \in Workers, NEW ok \in BOOLEAN, Return(w, ok),
           NEW v \in Workers
    PROVE  \/ task'[v].held = None
           \/ cur'[v] = cur[v] /\ task'[v].held = task[v].held
<1>1. task \in [Workers -> Task]
  BY DEF InstanceIInv, TypeOK
<1>2. task' = [task EXCEPT ![w] = NoTask] /\ cur' = cur
  BY DEF Return, SyncOK, SyncErr
<1>3. NoTask.held = None
  BY DEF NoTask
<1> QED
  BY <1>1, <1>2, <1>3

\* A sync takes off the finalizer, or tries to.
LEMMA LifeFinalize ==
    ASSUME InstanceIInv, OrphanIInv, OrphanIInv', LifeIInv,
           NEW w \in Workers, RemoveFinalizer(w)
    PROVE  LifeIInv'
<1> DEFINE i == cur[w]
<1>0. /\ LoopTypeOK /\ inst \in [Keys -> Instance \cup {None}]
      /\ cache \in [Keys -> Instance \cup {None}]
      /\ SyncState(w)
  BY DEF InstanceIInv, TypeOK
<1>1. /\ pc[w] = "sync" /\ task[w].step = "finalize"
      /\ UNCHANGED <<present, terminating>>
      /\ \E ok \in BOOLEAN : Return(w, ok)
      /\ inst' = inst \/ inst' = [inst EXCEPT ![i] = None]
      /\ \/ cache' = cache
         \/ task[w].shared /\ cache' = [cache EXCEPT ![i].finalizer = FALSE]
  BY DEF RemoveFinalizer, At
<1>2. i \in Keys
  BY <1>0, <1>1, HasKey DEF Keyless
<1>3. ASSUME NEW j \in Keys
      PROVE  cache'[j] # None /\ cache'[j].deleting
               => cache[j] # None /\ cache[j].deleting
  <2>1. CASE cache'[j] = cache[j]
    BY <2>1
  <2>2. CASE cache'[j] # cache[j]
    <3>1. j = i /\ task[w].shared
      BY <1>0, <1>1, <2>2
    <3>2. cache[i] \in Instance /\ cache[i] # None
      BY <1>0, <1>2, <3>1 DEF SyncState
    <3>3. cache'[i] = [cache[i] EXCEPT !.finalizer = FALSE]
      BY <1>0, <1>1, <1>2, <2>2, <3>1
    <3>4. cache'[i].deleting = cache[i].deleting
      BY <3>2, <3>3 DEF Instance
    <3> QED
      BY <3>1, <3>2, <3>4
  <2> QED
    BY <2>1, <2>2
<1>4. ASSUME NEW j \in Keys PROVE inst'[j] = inst[j] \/ inst'[j] = None
  BY <1>0, <1>1, <1>2
<1>5. ASSUME NEW v \in Workers
      PROVE  \/ task'[v].held = None
             \/ cur'[v] = cur[v] /\ task'[v].held = task[v].held
  BY <1>1, LifeReturn
<1>6. Installed' \subseteq Installed /\ terminating' \subseteq terminating
  BY <1>1 DEF Installed
<1>7. ASSUME NEW j \in Keys
      PROVE  /\ Live(j)' => Live(j)
             /\ inst[j] # None /\ inst[j].deleting
                  => inst'[j] = None \/ inst'[j].deleting
  BY <1>4 DEF Live
<1> QED
  BY <1>3, <1>5, <1>6, <1>7, LifeKept

\* A step of a sync.
LEMMA LifeSync ==
    ASSUME InstanceIInv, OneWorkerPerKey, OrphanIInv, OrphanIInv', LifeIInv,
           ContainersApart, NEW w \in Workers, SyncStep(w)
    PROVE  LifeIInv'
<1>0. task \in [Workers -> Task] /\ task[w] \in Task
  BY DEF InstanceIInv, TypeOK
<1>1. ASSUME NEW ok \in BOOLEAN, Return(w, ok), UNCHANGED <<inst, cache, targetVars>>
      PROVE  LifeIInv'
  BY <1>1, LifeReturn, LifeQuiet
<1>2. ASSUME UNCHANGED <<loopVars, inst, cache, targetVars>>,
             NEW t \in Task, t.held = task[w].held, task' = [task EXCEPT ![w] = t]
      PROVE  LifeIInv'
  <2>1. \A v \in Workers : cur'[v] = cur[v] /\ task'[v].held = task[v].held
    BY <1>0, <1>2 DEF loopVars
  <2> QED
    BY <1>2, <2>1, LifeQuiet
<1>3. CASE Lookup(w)
  BY <1>1, <1>3, LifeLookup DEF Lookup
<1>4. CASE Render(w)
  <2>1. CASE Return(w, TRUE) \/ Return(w, FALSE)
    BY <1>1, <1>4, <2>1 DEF Render
  <2>2. CASE UNCHANGED loopVars
             /\ \E todo \in Seq(Objects) :
                  task' = [task EXCEPT ![w].step = "target", ![w].todo = todo]
    <3>1. PICK todo \in Seq(Objects) :
                 task' = [task EXCEPT ![w].step = "target", ![w].todo = todo]
      BY <2>2
    <3> DEFINE t == [task[w] EXCEPT !.step = "target", !.todo = todo]
    <3>2. t \in Task /\ t.held = task[w].held
      BY <1>0 DEF Task, Steps
    <3>3. task' = [task EXCEPT ![w] = t]
      BY <1>0, <3>1
    <3> HIDE DEF t
    <3> QED
      BY <1>2, <1>4, <2>2, <3>2, <3>3 DEF Render
  <2>3. catalog[cur[w]] # None =>
          /\ Install[catalog[cur[w]]] \in Seq(Objects)
          /\ Uninstall[catalog[cur[w]]] \in Seq(Objects)
    <3>1. pc[w] = "sync" /\ LoopTypeOK /\ catalog \in [Keys -> Contents \cup {None}]
      BY <1>4 DEF Render, At, InstanceIInv, TypeOK
    <3>2. cur[w] \in Keys
      BY <3>1, HasKey DEF Keyless
    <3> QED
      BY <3>1, <3>2, InstanceAssumption
  <2> QED
    BY <1>4, <2>1, <2>2, <2>3 DEF Render
<1>5. CASE ResolveTarget(w)
  <2>1. CASE Return(w, FALSE)
    BY <1>1, <1>5, <2>1 DEF ResolveTarget
  <2>2. CASE UNCHANGED loopVars
             /\ \E kinds \in SUBSET Objects :
                  task' = [task EXCEPT ![w].step = "objects", ![w].mapped = kinds]
    <3>1. PICK kinds \in SUBSET Objects :
                 task' = [task EXCEPT ![w].step = "objects", ![w].mapped = kinds]
      BY <2>2
    <3> DEFINE t == [task[w] EXCEPT !.step = "objects", !.mapped = kinds]
    <3>2. t \in Task /\ t.held = task[w].held
      BY <1>0 DEF Task, Steps
    <3>3. task' = [task EXCEPT ![w] = t]
      BY <1>0, <3>1
    <3> HIDE DEF t
    <3> QED
      BY <1>2, <1>5, <2>2, <3>2, <3>3 DEF ResolveTarget
  <2>3. \A kinds \in SUBSET Known : kinds \in SUBSET Objects
    BY DEF Known
  <2> QED
    BY <1>5, <2>1, <2>2, <2>3 DEF ResolveTarget
<1>6. CASE NextObject(w)
  BY <1>6, LifeNextObject
<1>7. CASE ObjectsDone(w)
  <2>1. CASE Return(w, TRUE) \/ Return(w, FALSE)
    BY <1>1, <1>7, <2>1 DEF ObjectsDone
  <2>2. CASE task' = [task EXCEPT ![w].step = "finalize"] /\ UNCHANGED loopVars
    <3> DEFINE t == [task[w] EXCEPT !.step = "finalize"]
    <3>1. t \in Task /\ t.held = task[w].held
      BY <1>0 DEF Task, Steps
    <3>2. task' = [task EXCEPT ![w] = t]
      BY <1>0, <2>2
    <3> HIDE DEF t
    <3> QED
      BY <1>2, <1>7, <2>2, <3>1, <3>2 DEF ObjectsDone
  <2> QED
    BY <1>7, <2>1, <2>2 DEF ObjectsDone
<1>8. CASE RemoveFinalizer(w)
  BY <1>8, LifeFinalize
<1> QED
  BY <1>3, <1>4, <1>5, <1>6, <1>7, <1>8 DEF SyncStep

\* A user writes an instance: an instance that was gone is live, a live one may
\* go on living or be deleted, and a deleted one stays so.
LEMMA UserWrites ==
    ASSUME InstanceIInv, NEW i \in Keys,
           CreateInstance(i) \/ DeleteInstance(i) \/ TouchInstance(i)
    PROVE  /\ \A j \in Keys \ {i} : inst'[j] = inst[j]
           /\ inst'[i] # None
           /\ CreateInstance(i) => inst[i] = None /\ ~inst'[i].deleting
           /\ DeleteInstance(i) => Live(i) /\ inst'[i].deleting
           /\ TouchInstance(i) =>
                inst[i] # None /\ (inst'[i].deleting <=> inst[i].deleting)
<1>1. inst \in [Keys -> Instance \cup {None}] /\ rv[i] + 1 \in Nat
  BY DEF InstanceIInv, TypeOK
<1>2. \A j \in Keys \ {i} : inst'[j] = inst[j]
  BY <1>1 DEF CreateInstance, DeleteInstance, TouchInstance
<1>3. CASE CreateInstance(i)
  <2> DEFINE n == [rv |-> rv[i] + 1, deleting |-> FALSE, finalizer |-> TRUE]
  <2>1. inst'[i] = n /\ inst[i] = None
    BY <1>1, <1>3 DEF CreateInstance
  <2>2. n \in Instance /\ ~n.deleting
    BY <1>1 DEF Instance
  <2> HIDE DEF n
  <2>3. ~DeleteInstance(i) /\ ~TouchInstance(i)
    BY <2>1 DEF DeleteInstance, TouchInstance
  <2> QED
    BY <1>2, <2>1, <2>2, <2>3, InstanceAssumption
<1>4. CASE DeleteInstance(i)
  <2> DEFINE n == [inst[i] EXCEPT !.deleting = TRUE, !.rv = rv[i] + 1]
  <2>1. inst[i] \in Instance /\ inst[i] # None /\ ~inst[i].deleting
    BY <1>1, <1>4 DEF DeleteInstance
  <2>2. inst'[i] = n
    BY <1>1, <1>4 DEF DeleteInstance
  <2>3. n \in Instance /\ n.deleting
    BY <1>1, <2>1 DEF Instance
  <2> HIDE DEF n
  <2>4. ~CreateInstance(i)
    BY <2>1 DEF CreateInstance
  <2>5. ~TouchInstance(i)
    <3>1. SUFFICES ASSUME TouchInstance(i) PROVE FALSE
      OBVIOUS
    <3> DEFINE m == [inst[i] EXCEPT !.rv = rv[i] + 1]
    <3>2. inst'[i] = m
      BY <1>1, <3>1 DEF TouchInstance
    <3>3. m.deleting = inst[i].deleting
      BY <1>1, <2>1 DEF Instance
    <3> QED
      BY <2>1, <2>2, <2>3, <3>2, <3>3
  <2> QED
    BY <1>2, <2>1, <2>2, <2>3, <2>4, <2>5, InstanceAssumption DEF Live
<1>5. CASE TouchInstance(i)
  <2> DEFINE n == [inst[i] EXCEPT !.rv = rv[i] + 1]
  <2>1. inst[i] \in Instance /\ inst[i] # None
    BY <1>1, <1>5 DEF TouchInstance
  <2>2. inst'[i] = n
    BY <1>1, <1>5 DEF TouchInstance
  <2>3. n \in Instance /\ n.deleting = inst[i].deleting
    BY <1>1, <2>1 DEF Instance
  <2> HIDE DEF n
  <2>4. ~CreateInstance(i)
    BY <2>1 DEF CreateInstance
  <2>5. ~DeleteInstance(i)
    <3>1. SUFFICES ASSUME DeleteInstance(i) PROVE FALSE
      OBVIOUS
    <3> DEFINE m == [inst[i] EXCEPT !.deleting = TRUE, !.rv = rv[i] + 1]
    <3>2. inst'[i] = m /\ ~inst[i].deleting
      BY <1>1, <3>1 DEF DeleteInstance
    <3>3. m.deleting
      BY <1>1, <2>1 DEF Instance
    <3> QED
      BY <2>2, <2>3, <3>2, <3>3
  <2> QED
    BY <1>2, <2>1, <2>2, <2>3, <2>4, <2>5, InstanceAssumption
<1> QED
  BY <1>3, <1>4, <1>5

\* What is known of an instance that was created again stays known, whatever
\* users, the informer, the loop and the target cluster do.
LEMMA LifeStep ==
    ASSUME InstanceIInv, OneWorkerPerKey, OrphanIInv, OrphanIInv', LifeIInv,
           ContainersApart, [Next]_vars
    PROVE  LifeIInv'
<1> DEFINE Kept(v) == \/ task'[v].held = None
                      \/ cur'[v] = cur[v] /\ task'[v].held = task[v].held
<1>0. /\ LoopTypeOK /\ task \in [Workers -> Task]
      /\ \A v \in Workers : SyncState(v)
      /\ inst \in [Keys -> Instance \cup {None}]
      /\ cache \in [Keys -> Instance \cup {None}]
  BY DEF InstanceIInv, TypeOK
<1>1. ASSUME NEW i \in Keys,
             CreateInstance(i) \/ DeleteInstance(i) \/ TouchInstance(i)
      PROVE  LifeIInv'
  <2>1. UNCHANGED <<cur, task, cache, present, terminating>>
    BY <1>1 DEF CreateInstance, DeleteInstance, TouchInstance, loopVars
  <2>2. Installed' \subseteq Installed /\ terminating' \subseteq terminating
    BY <2>1 DEF Installed
  <2>3. ASSUME NEW j \in Keys
        PROVE  /\ Live(j)' => Live(j) \/ inst[j] = None
               /\ inst[j] # None /\ inst[j].deleting
                    => inst'[j] = None \/ inst'[j].deleting
               /\ cache'[j] = cache[j]
    BY <1>1, <2>1, UserWrites DEF Live
  <2> QED
    BY <2>1, <2>2, <2>3, LifeKept
<1>2. ASSUME \/ \E i \in Keys : EditCatalog(i) \/ Resync(i)
             \/ UNCHANGED vars
      PROVE  LifeIInv'
  <2>1. UNCHANGED <<cur, task, inst, cache, present, terminating>>
    BY <1>2 DEF EditCatalog, Resync, loopVars
  <2> QED
    BY <2>1, LifeQuiet
<1>3. ASSUME NEW i \in Keys, Deliver(i) PROVE LifeIInv'
  <2>1. /\ UNCHANGED <<loopVars, inst, present, terminating>>
        /\ Unshare({i}) /\ cache' = [cache EXCEPT ![i] = inst[i]]
    BY <1>3 DEF Deliver
  <2>2. /\ \A j \in Keys \ {i} : cache'[j] = cache[j]
        /\ \A j \in Keys : cache'[j] \in {cache[j], inst[j]}
    BY <1>0, <2>1
  <2>3. \A v \in Workers : Kept(v)
    BY <1>0, <2>1, <2>2, UnshareType DEF loopVars
  <2> QED
    BY <2>1, <2>2, <2>3, LifeQuiet
<1>4. ASSUME Relist PROVE LifeIInv'
  <2>1. /\ UNCHANGED <<loopVars, inst, present, terminating>>
        /\ Unshare(Keys) /\ cache' = inst
    BY <1>4 DEF Relist
  <2>2. \A v \in Workers : Kept(v)
    BY <1>0, <2>1, UnshareType DEF loopVars
  <2> QED
    BY <2>1, <2>2, LifeQuiet
<1>5. ASSUME NEW o \in Objects, Purge(o) PROVE LifeIInv'
  <2>1. /\ UNCHANGED <<cur, task, inst, cache>>
        /\ Installed' \subseteq Installed /\ terminating' \subseteq terminating
    BY <1>5 DEF Purge, loopVars, Installed
  <2>2. \A j \in Keys : inst'[j] = inst[j] /\ cache'[j] = cache[j]
                          /\ (Live(j)' => Live(j))
    BY <2>1 DEF Live
  <2> QED
    BY <2>1, <2>2, LifeKept
<1>6. ASSUME \/ \E i \in Keys : Notify(i) \/ LoopStep(Fire(i))
             \/ \E w \in Workers : LoopStep(WorkerStep(w))
             \/ LoopStep(Receive)
      PROVE  LifeIInv'
  <2>1. /\ \/ \E k \in Keys : Enqueue(k) \/ Fire(k)
           \/ \E w \in Workers : WorkerStep(w)
           \/ Receive
        /\ UNCHANGED <<inst, cache, present, terminating, task>>
    BY <1>6 DEF Notify, LoopStep
  <2>2. ASSUME NEW v \in Workers PROVE Kept(v)
    BY <1>0, <2>1, LoopKeepsSyncs DEF SyncState
  <2> QED
    BY <2>1, <2>2, LifeQuiet
<1>7. ASSUME RestartController PROVE LifeIInv'
  <2>1. /\ task' = [w \in Workers |-> NoTask] /\ cache' = inst
        /\ UNCHANGED <<inst, present, terminating>>
    BY <1>7 DEF RestartController
  <2>2. NoTask.held = None
    BY DEF NoTask
  <2>3. \A v \in Workers : Kept(v)
    BY <2>1, <2>2
  <2> QED
    BY <2>1, <2>3, LifeQuiet
<1>8. ASSUME NEW w \in Workers, SyncStep(w) PROVE LifeIInv'
  BY <1>8, LifeSync
<1> QED
  BY <1>1, <1>2, <1>3, <1>4, <1>5, <1>6, <1>7, <1>8 DEF Next

\* The phase AddonLifecycle gives an instance.
Phase == [i \in Keys |-> IF inst[i] = None THEN "absent"
                         ELSE IF inst[i].deleting THEN "deleting"
                         ELSE "live"]

LEMMA PhaseSame ==
    ASSUME \A i \in Keys : /\ inst'[i] = None <=> inst[i] = None
                           /\ inst[i] # None =>
                                (inst'[i].deleting <=> inst[i].deleting)
    PROVE  Phase' = Phase
  BY DEF Phase

\* What users do.
LEMMA UserIsLife ==
    ASSUME InstanceIInv, NEW i \in Keys,
           CreateInstance(i) \/ DeleteInstance(i) \/ TouchInstance(i)
    PROVE  \/ Lifecycle!Create(i) \/ Lifecycle!Delete(i)
           \/ UNCHANGED Lifecycle!vars
<1>1. UNCHANGED <<present, terminating>>
  BY DEF CreateInstance, DeleteInstance, TouchInstance
<1>2. CASE CreateInstance(i)
  <2>1. Phase[i] = "absent" /\ Phase' = [Phase EXCEPT ![i] = "live"]
    BY <1>2, UserWrites DEF Phase
  <2> QED
    BY <1>1, <2>1 DEF Lifecycle!Create, Phase
<1>3. CASE DeleteInstance(i)
  <2>1. Phase[i] = "live" /\ Phase' = [Phase EXCEPT ![i] = "deleting"]
    BY <1>3, UserWrites DEF Phase, Live
  <2> QED
    BY <1>1, <2>1 DEF Lifecycle!Delete, Phase
<1>4. CASE TouchInstance(i)
  <2>1. Phase' = Phase
    BY <1>4, UserWrites, PhaseSame
  <2> QED
    BY <1>1, <2>1 DEF Lifecycle!vars, Phase
<1> QED
  BY <1>2, <1>3, <1>4

\* A container that goes takes along objects of instances that go.
LEMMA PurgeIsLife ==
    ASSUME InstanceIInv, OrphanIInv, LifeIInv, NEW o \in Objects, Purge(o)
    PROVE  \E S \in SUBSET Installed : Lifecycle!Remove(S)
<1> DEFINE S == Installed \cap {x \in Objects : Container[x] = o}
<1>1. o \in terminating /\ UNCHANGED inst /\ present \subseteq Objects
  BY DEF Purge, InstanceIInv, TypeOK
<1>2. Installed' = Installed \ S
  BY <1>1 DEF Purge, Installed
<1>3. ASSUME NEW i \in Keys, S \cap Lifecycle!OwnedAlone(i) # {}
      PROVE  Phase[i] = "deleting"
  <2>1. PICK x \in Alone(i) : Container[x] = o
    BY <1>3 DEF Alone
  <2>2. inst[i] # None /\ inst[i].deleting
    BY <1>1, <2>1 DEF LifeIInv, Sinking
  <2> QED
    BY <2>2 DEF Phase
<1>4. Phase' = Phase
  BY <1>1, PhaseSame
<1> HIDE DEF S
<1>5. S \subseteq Installed
  BY DEF S
<1> QED
  BY <1>2, <1>3, <1>4, <1>5 DEF Lifecycle!Remove, Phase, Installed

\* A turn of the loop over the objects of an instance.
LEMMA NextObjectIsLife ==
    ASSUME InstanceIInv, OrphanIInv, LifeIInv, NEW w \in Workers, NextObject(w)
    PROVE  \/ \E i \in Keys : \E o \in Owned[i] : Lifecycle!Put(i, o)
           \/ \E S \in SUBSET Installed : Lifecycle!Remove(S)
           \/ UNCHANGED Lifecycle!vars
<1>1. PICK i \in Keys, o \in Objects, failed \in BOOLEAN :
        /\ i = cur[w] /\ task[w].held # None /\ o \in Owned[i]
        /\ VersionOf(task[w].held, i)
        /\ \/ failed /\ UNCHANGED targetVars
           \/ IF task[w].held.deleting
                THEN DeleteObject(o)
                ELSE CreateObject(o) /\ (o \in present \/ Creatable(o))
        /\ UNCHANGED <<cur, inst, cache>>
        /\ \A v \in Workers : task'[v].held = task[v].held
  BY NextObjectDoes
<1>2. Phase' = Phase
  BY <1>1, PhaseSame
<1>3. CASE UNCHANGED targetVars
  BY <1>2, <1>3 DEF Lifecycle!vars, Phase
<1>4. CASE task[w].held.deleting /\ DeleteObject(o)
  <2> DEFINE S == Installed \cap {o}
  <2>1. Installed' = Installed \ S
    BY <1>4 DEF DeleteObject, Installed, InstanceIInv, TypeOK
  <2>2. ASSUME NEW j \in Keys, S \cap Lifecycle!OwnedAlone(j) # {}
        PROVE  Phase[j] = "deleting"
    <3>1. o \in Alone(j)
      BY <2>2 DEF Alone
    <3>2. j = i
      BY <1>1, <3>1, AloneOwner
    <3>3. inst[i] # None
      BY <3>1, <3>2, AloneNeeded DEF AloneExist
    <3>4. ~Live(i)
      BY <1>1, <1>4, <3>1, <3>2 DEF LifeIInv, Recreated
    <3> QED
      BY <3>2, <3>3, <3>4 DEF Live, Phase
  <2> HIDE DEF S
  <2>3. S \subseteq Installed
    BY DEF S
  <2> QED
    BY <1>2, <2>1, <2>2, <2>3 DEF Lifecycle!Remove, Phase, Installed
<1>5. CASE ~task[w].held.deleting /\ CreateObject(o)
  <2>1. Phase[i] # "absent"
    BY <1>1, <1>5 DEF VersionOf, Phase
  <2>2. Installed' = Installed \/ Installed' = Installed \cup {o}
    BY <1>5 DEF CreateObject, Installed
  <2> QED
    BY <1>1, <1>2, <2>1, <2>2
    DEF Lifecycle!Put, Lifecycle!Existing, Lifecycle!vars, Phase, Installed
<1> QED
  BY <1>1, <1>3, <1>4, <1>5

\* An instance goes when it is to go, and when nothing is left of it that is not
\* another's as well.
LEMMA FinalizeIsLife ==
    ASSUME InstanceIInv, OrphanIInv, OrphanIInv', NEW w \in Workers,
           RemoveFinalizer(w)
    PROVE  \/ \E i \in Keys : Lifecycle!Finish(i)
           \/ UNCHANGED Lifecycle!vars
<1> DEFINE i == cur[w]
           held == task[w].held
<1>0. /\ LoopTypeOK /\ inst \in [Keys -> Instance \cup {None}]
      /\ SyncState(w) /\ HeldVersion(w) /\ SyncContents(w)
      /\ \A j \in Keys : Versions(j)
  BY DEF InstanceIInv, OrphanIInv, TypeOK
<1>1. /\ pc[w] = "sync" /\ task[w].step = "finalize"
      /\ UNCHANGED <<present, terminating>>
      /\ \/ inst' = inst
         \/ inst[i] # None /\ inst[i].rv = held.rv /\ inst' = [inst EXCEPT ![i] = None]
  BY DEF RemoveFinalizer, At
<1>2. PICK k \in Keys : k = i
  BY <1>0, <1>1, HasKey DEF Keyless
<1>3. CASE inst' = inst
  BY <1>1, <1>3, PhaseSame DEF Lifecycle!vars, Phase
<1>4. CASE inst[k] # None /\ inst[k].rv = held.rv /\ inst' = [inst EXCEPT ![k] = None]
  <2>1. inst[k].deleting
    <3>1. held # None /\ held.deleting /\ VersionOf(held, k)
      BY <1>0, <1>1, <1>2 DEF SyncState, SyncContents, HeldVersion
    <3>2. held.rv = rv[k]
      BY <1>0, <1>4 DEF Versions
    <3> QED
      BY <1>4, <3>1, <3>2 DEF VersionOf
  <2>2. Phase[k] = "deleting" /\ Phase' = [Phase EXCEPT ![k] = "absent"]
    BY <1>0, <1>4, <2>1 DEF Phase
  <2>3. ASSUME NEW x \in Installed
        PROVE  \E j \in Keys : Phase[j] # "absent" /\ j # k /\ x \in Owned[j]
    <3>1. PICK j \in Keys : inst'[j] # None /\ x \in Owned[j]
      BY <1>1, <2>3 DEF OrphanIInv, Needed, Installed
    <3>2. j # k /\ inst[j] # None
      BY <1>0, <1>4, <3>1
    <3> QED
      BY <3>1, <3>2 DEF Phase
  <2>4. Lifecycle!Finish(k)
    BY <1>1, <2>2, <2>3 DEF Lifecycle!Finish, Lifecycle!Existing, Phase, Installed
  <2> QED
    BY <2>4
<1> QED
  BY <1>1, <1>2, <1>3, <1>4

\* Every other step leaves the instances and what is installed alone.
LEMMA StepIsLife ==
    ASSUME InstanceIInv, OrphanIInv, OrphanIInv', LifeIInv, [Next]_vars
    PROVE  [Lifecycle!Next]_(Lifecycle!vars)
<1>1. ASSUME UNCHANGED <<inst, present, terminating>>
      PROVE  UNCHANGED Lifecycle!vars
  BY <1>1, PhaseSame DEF Lifecycle!vars, Phase
<1>2. ASSUME NEW i \in Keys,
             CreateInstance(i) \/ DeleteInstance(i) \/ TouchInstance(i)
      PROVE  [Lifecycle!Next]_(Lifecycle!vars)
  BY <1>2, UserIsLife DEF Lifecycle!Next
<1>3. ASSUME NEW o \in Objects, Purge(o) PROVE [Lifecycle!Next]_(Lifecycle!vars)
  BY <1>3, PurgeIsLife DEF Lifecycle!Next, Installed
<1>4. ASSUME NEW w \in Workers, SyncStep(w) PROVE [Lifecycle!Next]_(Lifecycle!vars)
  <2>1. CASE Lookup(w) \/ Render(w) \/ ResolveTarget(w) \/ ObjectsDone(w)
    BY <1>1, <2>1 DEF Lookup, Render, ResolveTarget, ObjectsDone
  <2>2. CASE NextObject(w)
    BY <2>2, NextObjectIsLife DEF Lifecycle!Next, Installed
  <2>3. CASE RemoveFinalizer(w)
    BY <2>3, FinalizeIsLife DEF Lifecycle!Next
  <2> QED
    BY <1>4, <2>1, <2>2, <2>3 DEF SyncStep
<1>5. ASSUME \/ \E i \in Keys : \/ EditCatalog(i) \/ Deliver(i) \/ Resync(i)
                                \/ Notify(i) \/ LoopStep(Fire(i))
             \/ \E w \in Workers : LoopStep(WorkerStep(w))
             \/ LoopStep(Receive) \/ Relist \/ RestartController \/ UNCHANGED vars
      PROVE  UNCHANGED <<inst, present, terminating>>
  BY <1>5 DEF EditCatalog, Deliver, Resync, Notify, LoopStep, Relist, RestartController
<1> QED
  BY <1>1, <1>2, <1>3, <1>4, <1>5 DEF Next

\* The controller implements AddonLifecycle while no manifest is edited: an
\* instance goes only when it is to be deleted and when nothing of its own is
\* installed any more, and what it alone owns is installed only while it exists
\* and removed only while it is being deleted: not by a worker that still works
\* on the deletion of an instance of that name before it, and not with a
\* Namespace or a CRD.
THEOREM InstanceLives ==
    ASSUME \A b \in Budgets : b["edit"] = 0, ContainersApart
    PROVE  Spec => ImplementsLifecycle
<1>1. Init => Lifecycle!Init /\ LifeIInv
  <2> SUFFICES ASSUME Init PROVE Lifecycle!Init /\ LifeIInv
    OBVIOUS
  <2>1. \A i \in Keys : inst[i] = None /\ Alone(i) = {}
    BY DEF Init, Alone, Installed
  <2> QED
    BY <2>1 DEF Init, Lifecycle!Init, LifeIInv, Recreated, Sinking, Live
<1>2. InstanceIInv /\ OneWorkerPerKey /\ OrphanIInv /\ OrphanIInv' /\ LifeIInv
        /\ [Next]_vars => LifeIInv'
  BY LifeStep
<1>3. InstanceIInv /\ OrphanIInv /\ OrphanIInv' /\ LifeIInv /\ [Next]_vars
        => [Lifecycle!Next]_(Lifecycle!vars)
  BY StepIsLife
<1>4. Spec => []OneWorkerPerKey
  BY InstanceQueueCorrect, PTL
<1>5. Spec => []OrphanIInv
  BY OrphanInvariant
<1> QED
  BY <1>1, <1>2, <1>3, <1>4, <1>5, InstanceInvariant, PTL
  DEF Spec, ImplementsLifecycle, Lifecycle!Spec
=============================================================================
