------------------------ MODULE ShootControllerProofs ------------------------
(***************************************************************************)
(* Proofs about ShootController, for every set of Shoots, workers, addons, *)
(* annotations and manifests, and every budget of disturbances.            *)
(***************************************************************************)
EXTENDS ShootController, ControllerLoopProofs

USE DEF queueVars, delayVars, stopVars, workerVars,
        shootVars, manifestVars, instanceVars, vars

-----------------------------------------------------------------------------
(* What holds of the loop holds of the controller.                         *)

\* A step of a sync that does not end it leaves the loop alone; one that ends
\* it is the end of a sync.
LEMMA SyncIsLoopStep ==
    ASSUME NEW w \in Workers, SyncStep(w)
    PROVE  UNCHANGED loopVars \/ SyncOK(w) \/ SyncErr(w)
<1>1. ASSUME NEW ok \in BOOLEAN, Return(w, ok) PROVE SyncOK(w) \/ SyncErr(w)
  BY <1>1 DEF Return
<1>2. ASSUME Lookup(w) PROVE UNCHANGED loopVars \/ SyncOK(w) \/ SyncErr(w)
  BY <1>1, <1>2 DEF Lookup
<1>3. ASSUME ExtractManifest(w)
      PROVE  UNCHANGED loopVars \/ SyncOK(w) \/ SyncErr(w)
  BY <1>1, <1>3 DEF ExtractManifest
<1>4. ASSUME EnsureDone(w) PROVE UNCHANGED loopVars \/ SyncOK(w) \/ SyncErr(w)
  BY <1>4 DEF EnsureDone, Return
<1>5. ASSUME ExtractDone(w) \/ EnsureAddon(w) PROVE UNCHANGED loopVars
  BY <1>5 DEF ExtractDone, EnsureAddon
<1> QED
  BY <1>2, <1>3, <1>4, <1>5 DEF SyncStep

\* Every step of the controller is one of the loop it extends, or leaves the
\* loop alone.
LEMMA StepIsLoopStep == [Next]_vars => [LoopNext]_loopVars
<1> SUFFICES ASSUME [Next]_vars PROVE [LoopNext]_loopVars
  OBVIOUS
<1>1. ASSUME NEW k \in Keys,
             CreateShoot(k) \/ Annotate(k) \/ DeleteShoot(k) \/ RemoveShoot(k)
               \/ Resync(k)
      PROVE  UNCHANGED loopVars
  BY <1>1 DEF CreateShoot, Annotate, DeleteShoot, RemoveShoot, Resync
<1>2. ASSUME NEW k \in Keys, Notify(k) \/ LoopStep(Fire(k)) PROVE LoopNext
  BY <1>2 DEF Notify, LoopStep, LoopNext
<1>3. ASSUME NEW m \in Manifests, PublishManifest(m) \/ WithdrawManifest(m)
      PROVE  UNCHANGED loopVars
  BY <1>3 DEF PublishManifest, WithdrawManifest
<1>4. ASSUME NEW n \in Names, DeleteInstance(n) \/ FinalizeInstance(n)
      PROVE  UNCHANGED loopVars
  BY <1>4 DEF DeleteInstance, FinalizeInstance
<1>5. ASSUME NEW w \in Workers, SyncStep(w) \/ LoopStep(WorkerStep(w))
      PROVE  LoopNext \/ UNCHANGED loopVars
  BY <1>5, SyncIsLoopStep DEF LoopStep, LoopNext
<1>6. ASSUME LoopStep(Receive) \/ RestartController PROVE LoopNext
  BY <1>6 DEF LoopStep, RestartController, LoopNext
<1>7. ASSUME UNCHANGED vars PROVE UNCHANGED loopVars
  BY <1>7
<1> QED
  BY <1>1, <1>2, <1>3, <1>4, <1>5, <1>6, <1>7 DEF Next

\* The controller implements the loop: its real sync handler is one of those
\* ControllerLoop leaves open.
THEOREM ShootIsLoop == Spec => LoopSpec
<1>1. Init => LoopInit
  BY DEF Init
<1> QED
  BY <1>1, StepIsLoopStep, PTL DEF Spec, LoopSpec

\* So no Shoot is synced by two workers, and no retry of one is lost.
COROLLARY ShootQueueCorrect ==
    Spec => [](QueueInv /\ OneWorkerPerKey /\ RetryBound /\ NoRetryLost)
  BY ShootIsLoop, QueueCorrect, RetryBounded, RetriesKept, PTL

-----------------------------------------------------------------------------
(* Types, and what a sync knows of its annotation.                         *)

HasManifest(a) == \E m \in published : m.addon = a

\* A sync that is past its checks works on an annotation without duplicates,
\* and each addon of it is still to be looked up or had a manifest.
Checked(t) ==
    t.step # "lookup" =>
      /\ t.held # None /\ t.held.annotation \in Seq(Addons)
      /\ NoDuplicates(t.held.annotation)
      /\ \A a \in ElementsOf(t.held.annotation) :
           a \in ElementsOf(t.names) \/ HasManifest(a)
      /\ t.step = "ensure" => t.names = <<>>

ShootIInv == \A w \in Workers : Checked(task[w])

\* An idle worker's task has its type and nothing to be checked.
LEMMA NoTaskOK == NoTask \in Task /\ Checked(NoTask) /\ Checked(NoTask)'
<1>1. <<>> \in Seq(Addons) /\ <<>> \in Seq(Manifest)
  OBVIOUS
<1> QED
  BY <1>1 DEF NoTask, Task, Checked

\* The head of a sequence of addons is one of its elements, and the others are
\* in its tail.
LEMMA HeadOfNames ==
    ASSUME NEW s \in Seq(Addons), s # <<>>
    PROVE  /\ Head(s) \in Addons /\ Tail(s) \in Seq(Addons)
           /\ ElementsOf(s) = ElementsOf(Tail(s)) \cup {Head(s)}
<1>1. /\ Head(s) \in Addons /\ Tail(s) \in Seq(Addons)
      /\ Len(s) \in Nat \ {0} /\ DOMAIN s = 1 .. Len(s)
      /\ DOMAIN Tail(s) = 1 .. Len(s) - 1
      /\ \A n \in 1 .. Len(s) - 1 : Tail(s)[n] = s[n + 1]
      /\ Head(s) = s[1]
  OBVIOUS
<1> DEFINE t == Tail(s)
<1>2. \A n \in DOMAIN t : t[n] = s[n + 1] /\ n + 1 \in DOMAIN s
  BY <1>1
<1>3. ElementsOf(t) \subseteq ElementsOf(s) /\ Head(s) \in ElementsOf(s)
  BY <1>1, <1>2 DEF ElementsOf
<1>4. \A n \in DOMAIN s : s[n] \in ElementsOf(t) \cup {Head(s)}
  <2> TAKE n \in DOMAIN s
  <2>1. CASE n = 1
    BY <1>1, <2>1
  <2>2. CASE n # 1
    <3>1. n - 1 \in DOMAIN t /\ t[n - 1] = s[n]
      BY <1>1, <2>2
    <3> QED
      BY <3>1 DEF ElementsOf
  <2> QED
    BY <2>1, <2>2
<1> QED
  BY <1>1, <1>3, <1>4 DEF ElementsOf

\* A step that leaves tasks alone leaves idle workers without one.
LEMMA IdleKept ==
    ASSUME TypeOK, ShootIInv, task' = task, published \subseteq published',
           \A w \in Workers : pc[w] = "sync" => pc'[w] = "sync"
    PROVE  /\ task' \in [Workers -> Task] /\ ShootIInv'
           /\ \A w \in Workers : pc'[w] # "sync" => task'[w] = NoTask
<1>1. task' \in [Workers -> Task]
  BY DEF TypeOK
<1>2. \A w \in Workers : pc'[w] # "sync" => task'[w] = NoTask
  BY DEF TypeOK
<1>3. \A w \in Workers : Checked(task[w])'
  BY DEF ShootIInv, Checked, HasManifest
<1> QED
  BY <1>1, <1>2, <1>3 DEF ShootIInv

\* A step of a sync changes the task of its worker only.
LEMMA TaskChanged ==
    ASSUME TypeOK, ShootIInv, NEW w \in Workers, NEW t \in Task, Checked(t),
           task' = [task EXCEPT ![w] = t], published' = published,
           \A v \in Workers \ {w} : pc'[v] = pc[v],
           pc'[w] # "sync" => t = NoTask
    PROVE  /\ task' \in [Workers -> Task] /\ ShootIInv'
           /\ \A v \in Workers : pc'[v] # "sync" => task'[v] = NoTask
<1>1. task \in [Workers -> Task]
  BY DEF TypeOK
<1>2. task'[w] = t /\ \A v \in Workers \ {w} : task'[v] = task[v]
  BY <1>1
<1>3. task' \in [Workers -> Task]
  BY <1>1
<1>4. \A v \in Workers : pc'[v] # "sync" => task'[v] = NoTask
  BY <1>2 DEF TypeOK
<1>5. \A v \in Workers : Checked(task'[v])
  BY <1>2 DEF ShootIInv
<1>6. \A v \in Workers : Checked(task[v])'
  BY <1>5 DEF Checked, HasManifest
<1> QED
  BY <1>3, <1>4, <1>6 DEF ShootIInv

\* The end of a sync.
LEMMA ReturnChanges ==
    ASSUME TypeOK, ShootIInv, NEW w \in Workers, NEW ok \in BOOLEAN,
           Return(w, ok), published' = published
    PROVE  /\ task' \in [Workers -> Task] /\ ShootIInv'
           /\ \A v \in Workers : pc'[v] # "sync" => task'[v] = NoTask
<1>1. task' = [task EXCEPT ![w] = NoTask]
  BY DEF Return
<1>2. \A v \in Workers \ {w} : pc'[v] = pc[v]
  BY DEF Return, SyncOK, SyncErr, Goto, TypeOK, LoopTypeOK
<1> QED
  BY <1>1, <1>2, NoTaskOK, TaskChanged

\* Every step keeps the tasks typed and checked.
LEMMA TasksKept ==
    ASSUME TypeOK, ShootIInv, [Next]_vars
    PROVE  /\ task' \in [Workers -> Task] /\ ShootIInv'
           /\ \A w \in Workers : pc'[w] # "sync" => task'[w] = NoTask
<1> DEFINE Kept == /\ task' \in [Workers -> Task] /\ ShootIInv'
                   /\ \A w \in Workers : pc'[w] # "sync" => task'[w] = NoTask
<1> SUFFICES Kept
  OBVIOUS
<1>1. ASSUME \/ \E k \in Keys : CreateShoot(k) \/ Annotate(k) \/ DeleteShoot(k)
                                  \/ RemoveShoot(k) \/ Resync(k) \/ Notify(k)
             \/ \E m \in Manifests : PublishManifest(m) \/ WithdrawManifest(m)
             \/ \E n \in Names : DeleteInstance(n) \/ FinalizeInstance(n)
             \/ UNCHANGED vars
      PROVE  Kept
  <2>1. task' = task /\ pc' = pc /\ published \subseteq published'
    BY <1>1
    DEF CreateShoot, Annotate, DeleteShoot, RemoveShoot, Resync, Notify, Enqueue,
        PublishManifest, WithdrawManifest, DeleteInstance, FinalizeInstance,
        loopVars
  <2> QED
    BY <2>1, IdleKept
<1>2. ASSUME NEW k \in Keys, LoopStep(Fire(k)) PROVE Kept
  <2>1. task' = task /\ pc' = pc /\ published \subseteq published'
    BY <1>2 DEF LoopStep, Fire
  <2> QED
    BY <2>1, IdleKept
<1>3. ASSUME LoopStep(Receive) PROVE Kept
  <2>1. task' = task /\ pc' = pc /\ published \subseteq published'
    BY <1>3 DEF LoopStep, Receive
  <2> QED
    BY <2>1, IdleKept
<1>4. ASSUME NEW w \in Workers, LoopStep(WorkerStep(w)) PROVE Kept
  <2>1. task' = task /\ published \subseteq published'
    BY <1>4 DEF LoopStep
  <2>2. WorkerStep(w)
    BY <1>4 DEF LoopStep
  <2>3. /\ pc[w] # "sync"
        /\ \A v \in Workers \ {w} : pc'[v] = pc[v]
    BY <2>2
    DEF WorkerStep, Start, TakeKey, Stop, Forget, Done, CheckRequeues, When,
        AddAfter, Goto, TypeOK, LoopTypeOK
  <2> QED
    BY <2>1, <2>3, IdleKept
<1>5. ASSUME NEW w \in Workers, Lookup(w) PROVE Kept
  <2> DEFINE shoot == shoots[cur[w]]
  <2>1. published' = published /\ pc[w] = "sync"
    BY <1>5 DEF Lookup, At
  <2>2. cur[w] \in Keys
    BY <2>1, HasKey DEF TypeOK, Keyless
  <2>3. CASE Return(w, TRUE) \/ Return(w, FALSE)
    BY <2>1, <2>3, ReturnChanges
  <2>4. CASE /\ shoot # None /\ Usable(shoot.annotation)
             /\ task' = [task EXCEPT ![w].step = "extract", ![w].held = shoot,
                                     ![w].names = shoot.annotation]
             /\ UNCHANGED loopVars
    <3> DEFINE t == [task[w] EXCEPT !.step = "extract", !.held = shoot,
                                    !.names = shoot.annotation]
    <3>1. task[w] \in Task /\ shoot \in Shoot
      BY <2>2, <2>4 DEF TypeOK
    <3>2. shoot.annotation \in Seq(Addons) /\ NoDuplicates(shoot.annotation)
      BY <2>4, <3>1 DEF Usable, Shoot
    <3>3. t \in Task
      BY <3>1, <3>2 DEF Task
    <3>4. t.step = "extract" /\ t.held = shoot /\ t.names = shoot.annotation
      BY <3>1 DEF Task
    <3>5. Checked(t)
      BY <2>4, <3>2, <3>4 DEF Checked
    <3>6. task' = [task EXCEPT ![w] = t]
      BY <2>4 DEF TypeOK
    <3>7. pc' = pc
      BY <2>4 DEF loopVars
    <3> QED
      BY <2>1, <3>3, <3>5, <3>6, <3>7, TaskChanged
  <2> QED
    BY <1>5, <2>3, <2>4 DEF Lookup
<1>6. ASSUME NEW w \in Workers, ExtractManifest(w) PROVE Kept
  <2> DEFINE a == Head(task[w].names)
  <2>1. /\ published' = published /\ pc[w] = "sync"
        /\ task[w].step = "extract" /\ task[w].names # <<>>
    BY <1>6 DEF ExtractManifest, At
  <2>2. CASE Return(w, FALSE)
    BY <2>1, <2>2, ReturnChanges
  <2>3. ASSUME NEW m \in Latest(a),
               task' = [task EXCEPT ![w].names = Tail(@),
                                    ![w].found = Append(@, m)],
               UNCHANGED loopVars
        PROVE  Kept
    <3> DEFINE t == [task[w] EXCEPT !.names = Tail(@), !.found = Append(@, m)]
    <3>1. task[w] \in Task /\ Checked(task[w])
      BY DEF TypeOK, ShootIInv
    <3>2. m \in manifests /\ m.addon = a
      BY DEF Latest, Named
    <3>3. m \in Manifest /\ m \in published
      BY <3>2, ShootAssumption DEF TypeOK
    <3>4. task[w].names \in Seq(Addons) /\ task[w].found \in Seq(Manifest)
      BY <3>1 DEF Task
    <3>5. /\ Tail(task[w].names) \in Seq(Addons)
          /\ ElementsOf(task[w].names)
               = ElementsOf(Tail(task[w].names)) \cup {a}
      BY <2>1, <3>4, HeadOfNames
    <3>6. Append(task[w].found, m) \in Seq(Manifest)
      BY <3>3, <3>4
    <3>7. t \in Task
      BY <3>1, <3>5, <3>6 DEF Task
    <3>8. /\ t.step = "extract" /\ t.held = task[w].held
          /\ t.names = Tail(task[w].names)
      BY <2>1, <3>1 DEF Task
    <3>9. HasManifest(a)
      BY <3>2, <3>3 DEF HasManifest
    <3>10. Checked(t)
      BY <2>1, <3>1, <3>5, <3>8, <3>9 DEF Checked
    <3>11. task' = [task EXCEPT ![w] = t]
      BY <2>3 DEF TypeOK
    <3>12. pc' = pc
      BY <2>3 DEF loopVars
    <3> QED
      BY <2>1, <3>7, <3>10, <3>11, <3>12, TaskChanged
  <2> QED
    BY <1>6, <2>2, <2>3 DEF ExtractManifest
<1>7. ASSUME NEW w \in Workers, ExtractDone(w) PROVE Kept
  <2> DEFINE t == [task[w] EXCEPT !.step = "ensure"]
  <2>1. /\ published' = published /\ pc' = pc /\ pc[w] = "sync"
        /\ task[w].step = "extract" /\ task[w].names = <<>>
        /\ task' = [task EXCEPT ![w].step = "ensure"]
    BY <1>7 DEF ExtractDone, At, loopVars
  <2>2. task[w] \in Task /\ Checked(task[w])
    BY DEF TypeOK, ShootIInv
  <2>3. t \in Task
    BY <2>2 DEF Task
  <2>4. t.step = "ensure" /\ t.held = task[w].held /\ t.names = task[w].names
    BY <2>2 DEF Task
  <2>5. Checked(t)
    BY <2>1, <2>2, <2>4 DEF Checked
  <2>6. task' = [task EXCEPT ![w] = t]
    BY <2>1 DEF TypeOK
  <2> QED
    BY <2>1, <2>3, <2>5, <2>6, TaskChanged
<1>8. ASSUME NEW w \in Workers, EnsureAddon(w) PROVE Kept
  <2>1. /\ published' = published /\ pc' = pc /\ pc[w] = "sync"
        /\ task[w].step = "ensure" /\ task[w].found # <<>>
    BY <1>8 DEF EnsureAddon, At, loopVars
  <2>2. \E failed \in BOOLEAN :
          task' = [task EXCEPT ![w].found = Tail(@), ![w].erred = @ \/ failed]
    BY <1>8 DEF EnsureAddon
  <2>3. PICK failed \in BOOLEAN :
          task' = [task EXCEPT ![w].found = Tail(@), ![w].erred = @ \/ failed]
    BY <2>2
  <2> DEFINE t == [task[w] EXCEPT !.found = Tail(@), !.erred = @ \/ failed]
  <2>4. task[w] \in Task /\ Checked(task[w])
    BY DEF TypeOK, ShootIInv
  <2>5. Tail(task[w].found) \in Seq(Manifest)
    <3>1. task[w].found \in Seq(Manifest)
      BY <2>4 DEF Task
    <3> QED
      BY <2>1, <3>1
  <2>6. t \in Task
    BY <2>4, <2>5 DEF Task
  <2>7. /\ t.step = task[w].step /\ t.held = task[w].held
        /\ t.names = task[w].names
    BY <2>4 DEF Task
  <2>8. Checked(t)
    BY <2>4, <2>7 DEF Checked
  <2>9. task' = [task EXCEPT ![w] = t]
    BY <2>3 DEF TypeOK
  <2> QED
    BY <2>1, <2>6, <2>8, <2>9, TaskChanged
<1>9. ASSUME NEW w \in Workers, EnsureDone(w) PROVE Kept
  <2>1. published' = published /\ Return(w, ~task[w].erred)
    BY <1>9 DEF EnsureDone
  <2> QED
    BY <2>1, ReturnChanges
<1>10. ASSUME RestartController PROVE Kept
  <2>1. /\ published' = published /\ task' = [w \in Workers |-> NoTask]
    BY <1>10 DEF RestartController
  <2>2. \A w \in Workers : Checked(task[w])'
    BY <2>1, NoTaskOK
  <2> QED
    BY <2>1, <2>2, NoTaskOK DEF ShootIInv
<1> QED
  BY <1>1, <1>2, <1>3, <1>4, <1>5, <1>6, <1>7, <1>8, <1>9, <1>10
  DEF Next, SyncStep

\* Spending a disturbance leaves a budget of numbers.
LEMMA SpendType ==
    ASSUME TypeOK, NEW d \in Disturbances, Spend(d)
    PROVE  budget' \in [Disturbances -> Nat]
<1>1. budget \in [Disturbances -> Nat] /\ "any" \in Disturbances
  BY DEF TypeOK, Disturbances
<1>2. /\ budget[d] \in Nat \ {0} /\ budget["any"] \in Nat \ {0}
      /\ budget' = [budget EXCEPT ![d] = @ - 1, !["any"] = @ - 1]
  BY <1>1 DEF Spend
<1>3. CASE d = "any"
  BY <1>1, <1>2, <1>3 DEF Spend
<1>4. CASE d # "any"
  BY <1>1, <1>2, <1>4
<1> QED
  BY <1>3, <1>4

\* What the step of a user or of the informer makes of the Shoots.
LEMMA ShootsTyped ==
    ASSUME TypeOK, NEW k \in Keys,
           \/ CreateShoot(k) \/ Annotate(k) \/ DeleteShoot(k) \/ RemoveShoot(k)
           \/ Resync(k) \/ Notify(k)
    PROVE  /\ shoots' \in [Keys -> Shoot \cup {None}] /\ notify' \subseteq Keys
           /\ budget' \in [Disturbances -> Nat]
<1>1. /\ shoots \in [Keys -> Shoot \cup {None}] /\ notify \subseteq Keys
      /\ budget \in [Disturbances -> Nat]
      /\ Annotations \cup {None} \subseteq Seq(Addons) \cup {Broken, None}
  BY ShootAssumption DEF TypeOK
<1>2. ASSUME NEW shoot \in Shoot, SeeShoot(k, shoot)
      PROVE  shoots' \in [Keys -> Shoot \cup {None}] /\ notify' \subseteq Keys
  BY <1>1, <1>2 DEF SeeShoot
<1>3. CASE CreateShoot(k)
  <2>1. \A a \in Annotations \cup {None} :
          [deleting |-> FALSE, annotation |-> a] \in Shoot
    BY <1>1 DEF Shoot
  <2> QED
    BY <1>1, <1>2, <1>3, <2>1 DEF CreateShoot
<1>4. CASE Annotate(k)
  <2>1. \A a \in Annotations \cup {None} :
          [shoots[k] EXCEPT !.annotation = a] \in Shoot
    BY <1>1, <1>4 DEF Shoot, Annotate
  <2>2. budget' \in [Disturbances -> Nat]
    BY <1>4, SpendType DEF Annotate, Disturbances
  <2> QED
    BY <1>2, <1>4, <2>1, <2>2 DEF Annotate
<1>5. CASE DeleteShoot(k)
  <2>1. [shoots[k] EXCEPT !.deleting = TRUE] \in Shoot
    BY <1>1, <1>5 DEF Shoot, DeleteShoot
  <2>2. budget' \in [Disturbances -> Nat]
    BY <1>5, SpendType DEF DeleteShoot, Disturbances
  <2> QED
    BY <1>2, <1>5, <2>1, <2>2 DEF DeleteShoot
<1>6. CASE RemoveShoot(k)
  BY <1>1, <1>6 DEF RemoveShoot
<1>7. CASE Resync(k) \/ Notify(k)
  BY <1>1, <1>7 DEF Resync, Notify
<1> QED
  BY <1>3, <1>4, <1>5, <1>6, <1>7

\* When a sync comes to create instances, all addons of its annotation have been
\* found.
LEMMA CheckedAtEnsure ==
    ASSUME TypeOK, ShootIInv, NEW w \in Workers, At(w, "ensure")
    PROVE  /\ cur[w] \in Keys /\ task[w].found \in Seq(Manifest)
           /\ task[w].held.annotation \in Seq(Addons)
           /\ NoDuplicates(task[w].held.annotation)
           /\ \A a \in ElementsOf(task[w].held.annotation) : HasManifest(a)
<1>1. /\ pc[w] = "sync" /\ task[w].step = "ensure"
      /\ task[w] \in Task /\ Checked(task[w])
  BY DEF At, TypeOK, ShootIInv
<1>2. cur[w] \in Keys
  BY <1>1, HasKey DEF TypeOK, Keyless
<1>3. task[w].found \in Seq(Manifest)
  BY <1>1 DEF Task
<1>4. /\ task[w].held.annotation \in Seq(Addons)
      /\ NoDuplicates(task[w].held.annotation) /\ task[w].names = <<>>
      /\ \A a \in ElementsOf(task[w].held.annotation) :
           a \in ElementsOf(task[w].names) \/ HasManifest(a)
  BY <1>1 DEF Checked
<1>5. ElementsOf(<<>>) = {}
  BY DEF ElementsOf
<1> QED
  BY <1>2, <1>3, <1>4, <1>5

\* What the creation of an instance makes of the instances.
LEMMA MakeTyped ==
    ASSUME TypeOK, ShootIInv, NEW w \in Workers, At(w, "ensure"),
           NEW m \in Manifest, NEW n \in Names, Make(n, w, m)
    PROVE  /\ instances' \in [Names -> Instance \cup {None}]
           /\ made' \in [Names -> [manifest : Manifest, annotation : Seq(Addons)]
                                    \cup {None}]
           /\ AllOrNothing /\ published' = published => AllOrNothing'
<1>1. PICK s \in Seq(Addons) :
        /\ s = task[w].held.annotation /\ NoDuplicates(s)
        /\ \A a \in ElementsOf(s) : HasManifest(a)
  BY CheckedAtEnsure
<1>2. /\ instances' = [instances EXCEPT ![n] = [manifest |-> m, deleting |-> FALSE]]
      /\ made' = [made EXCEPT ![n] = [manifest |-> m, annotation |-> s]]
  BY <1>1 DEF Make
<1>3. instances' \in [Names -> Instance \cup {None}]
  BY <1>2 DEF TypeOK, Instance
<1>4. made' \in [Names -> [manifest : Manifest, annotation : Seq(Addons)]
                            \cup {None}]
  BY <1>1, <1>2 DEF TypeOK
<1>5. ASSUME AllOrNothing, published' = published PROVE AllOrNothing'
  <2> SUFFICES ASSUME NEW o \in Names, made'[o] # None
               PROVE  /\ NoDuplicates(made'[o].annotation)
                      /\ \A a \in ElementsOf(made'[o].annotation) :
                           \E x \in published : x.addon = a
    BY <1>5 DEF AllOrNothing
  <2>1. CASE o = n
    <3>1. made'[o].annotation = s
      BY <1>2, <2>1 DEF TypeOK
    <3> QED
      BY <3>1, <1>1 DEF HasManifest
  <2>2. CASE o # n
    <3>1. made'[o] = made[o]
      BY <1>2, <2>2 DEF TypeOK
    <3> QED
      BY <3>1, <1>5 DEF AllOrNothing
  <2> QED
    BY <2>1, <2>2
<1> QED
  BY <1>3, <1>4, <1>5

\* One turn of the loop in ensureAddons.
LEMMA EnsureKept ==
    ASSUME TypeOK, ShootIInv, NEW w \in Workers, EnsureAddon(w)
    PROVE  /\ instances' \in [Names -> Instance \cup {None}]
           /\ made' \in [Names -> [manifest : Manifest, annotation : Seq(Addons)]
                                    \cup {None}]
           /\ budget' \in [Disturbances -> Nat]
           /\ AllOrNothing => AllOrNothing'
<1>1. At(w, "ensure") /\ task[w].found # <<>> /\ UNCHANGED <<shootVars, manifestVars>>
  BY DEF EnsureAddon
<1>2. cur[w] \in Keys /\ task[w].found \in Seq(Manifest)
  BY <1>1, CheckedAtEnsure
<1>3. PICK m \in Manifest : m = Head(task[w].found)
  BY <1>1, <1>2
<1>4. PICK n \in Names : n = InstanceName[cur[w], m.addon]
  BY <1>2, ShootAssumption DEF Manifest
<1>5. /\ Make(n, w, m) \/ UNCHANGED instanceVars
      /\ UNCHANGED budget \/ Spend("reply") \/ Spend("call")
  BY <1>3, <1>4 DEF EnsureAddon
<1>6. budget' \in [Disturbances -> Nat]
  <2>1. "reply" \in Disturbances /\ "call" \in Disturbances
    BY DEF Disturbances
  <2> QED
    BY <1>5, <2>1, SpendType DEF TypeOK
<1>7. CASE Make(n, w, m)
  BY <1>1, <1>6, <1>7, MakeTyped
<1>8. CASE UNCHANGED instanceVars
  BY <1>1, <1>6, <1>8 DEF TypeOK, AllOrNothing
<1> QED
  BY <1>5, <1>7, <1>8

\* The part of TypeOK that neither the loop nor the tasks are in, and what an
\* instance was made from.
WorldType ==
    /\ shoots \in [Keys -> Shoot \cup {None}] /\ notify \subseteq Keys
    /\ manifests \subseteq published /\ published \subseteq Manifests
    /\ instances \in [Names -> Instance \cup {None}]
    /\ made \in [Names -> [manifest : Manifest, annotation : Seq(Addons)]
                            \cup {None}]
    /\ budget \in [Disturbances -> Nat]

\* Every step keeps the world typed, and nothing is made of half an annotation.
LEMMA WorldKept ==
    ASSUME TypeOK, ShootIInv, [Next]_vars
    PROVE  WorldType' /\ (AllOrNothing => AllOrNothing')
<1> DEFINE Kept == WorldType' /\ (AllOrNothing => AllOrNothing')
<1> USE DEF WorldType
<1> SUFFICES Kept
  OBVIOUS
<1>1. WorldType
  BY DEF TypeOK
<1>2. ASSUME UNCHANGED <<shootVars, manifestVars, instanceVars, budget>>
      PROVE  Kept
  BY <1>1, <1>2 DEF AllOrNothing
<1>3. ASSUME NEW k \in Keys,
             \/ CreateShoot(k) \/ Annotate(k) \/ DeleteShoot(k) \/ RemoveShoot(k)
             \/ Resync(k) \/ Notify(k)
      PROVE  Kept
  <2>1. UNCHANGED <<manifestVars, instanceVars>>
    BY <1>3
    DEF CreateShoot, Annotate, DeleteShoot, RemoveShoot, Resync, Notify
  <2> QED
    BY <1>1, <1>3, <2>1, ShootsTyped DEF AllOrNothing
<1>4. ASSUME NEW m \in Manifests, PublishManifest(m) \/ WithdrawManifest(m)
      PROVE  Kept
  <2>1. /\ UNCHANGED <<shootVars, instanceVars>>
        /\ published \subseteq published' /\ published' \subseteq Manifests
        /\ manifests' \subseteq published'
    BY <1>1, <1>4 DEF PublishManifest, WithdrawManifest
  <2>2. budget' \in [Disturbances -> Nat]
    BY <1>4, SpendType DEF PublishManifest, WithdrawManifest, Disturbances
  <2> QED
    BY <1>1, <2>1, <2>2 DEF AllOrNothing
<1>5. ASSUME NEW n \in Names, DeleteInstance(n) \/ FinalizeInstance(n)
      PROVE  Kept
  <2>1. UNCHANGED <<shootVars, manifestVars, made>>
    BY <1>5 DEF DeleteInstance, FinalizeInstance
  <2>2. budget' \in [Disturbances -> Nat]
    BY <1>1, <1>5, SpendType DEF DeleteInstance, FinalizeInstance, Disturbances
  <2>3. instances' \in [Names -> Instance \cup {None}]
    <3>1. CASE DeleteInstance(n)
      <4>1. [instances[n] EXCEPT !.deleting = TRUE] \in Instance
        BY <1>1, <3>1 DEF DeleteInstance, Instance
      <4>2. instances' = [instances EXCEPT
                            ![n] = [instances[n] EXCEPT !.deleting = TRUE]]
        BY <1>1, <3>1 DEF DeleteInstance
      <4> QED
        BY <1>1, <4>1, <4>2
    <3>2. CASE FinalizeInstance(n)
      BY <1>1, <3>2 DEF FinalizeInstance
    <3> QED
      BY <1>5, <3>1, <3>2
  <2> QED
    BY <1>1, <2>1, <2>2, <2>3 DEF AllOrNothing
<1>6. ASSUME NEW w \in Workers, SyncStep(w) PROVE Kept
  <2>1. CASE EnsureAddon(w)
    <3>1. UNCHANGED <<shootVars, manifestVars>>
      BY <2>1 DEF EnsureAddon
    <3> QED
      BY <1>1, <2>1, <3>1, EnsureKept
  <2>2. CASE ~EnsureAddon(w)
    BY <1>2, <1>6, <2>2
    DEF SyncStep, Lookup, ExtractManifest, ExtractDone, EnsureDone
  <2> QED
    BY <2>1, <2>2
<1>7. ASSUME RestartController PROVE Kept
  <2>1. budget' \in [Disturbances -> Nat]
    BY <1>7, SpendType DEF RestartController, Disturbances
  <2> QED
    BY <1>1, <1>7, <2>1 DEF RestartController, AllOrNothing
<1>8. ASSUME \/ \E k \in Keys : LoopStep(Fire(k))
             \/ \E w \in Workers : LoopStep(WorkerStep(w))
             \/ LoopStep(Receive)
             \/ UNCHANGED vars
      PROVE  Kept
  BY <1>2, <1>8 DEF LoopStep
<1> QED
  BY <1>3, <1>4, <1>5, <1>6, <1>7, <1>8 DEF Next

\* Every state of the controller has its types, and a sync that creates
\* instances has found all addons of its annotation.
THEOREM ShootInvariant == Spec => [](TypeOK /\ ShootIInv /\ AllOrNothing)
<1> DEFINE Inv == TypeOK /\ ShootIInv /\ AllOrNothing
<1>1. Init => Inv
  <2> SUFFICES ASSUME Init PROVE Inv
    OBVIOUS
  <2>1. LoopTypeOK
    BY LoopTypeInit DEF Init
  <2>2. \A w \in Workers : task[w] = NoTask
    BY DEF Init
  <2>3. task \in [Workers -> Task] /\ ShootIInv
    BY <2>2, NoTaskOK DEF Init, ShootIInv
  <2>4. WorldType
    BY ShootAssumption DEF Init, WorldType
  <2>5. AllOrNothing
    BY DEF Init, AllOrNothing
  <2> QED
    BY <2>1, <2>2, <2>3, <2>4, <2>5 DEF TypeOK, WorldType
<1>2. Inv /\ [Next]_vars => Inv'
  <2> SUFFICES ASSUME Inv, [Next]_vars PROVE Inv'
    OBVIOUS
  <2>1. LoopTypeOK'
    BY StepIsLoopStep, LoopTypeStep DEF TypeOK
  <2>2. /\ task' \in [Workers -> Task] /\ ShootIInv'
        /\ \A w \in Workers : pc'[w] # "sync" => task'[w] = NoTask
    BY TasksKept
  <2>3. WorldType' /\ AllOrNothing'
    BY WorldKept
  <2> QED
    BY <2>1, <2>2, <2>3 DEF TypeOK, WorldType
<1> QED
  BY <1>1, <1>2, PTL DEF Spec

\* The variables have their types, and a worker that is not in a sync holds
\* nothing of one.
THEOREM TypeCorrect == Spec => []TypeOK
  BY ShootInvariant, PTL

\* Nothing is ever made of an annotation that names an addon twice, or one that
\* never had a manifest.
THEOREM AllOrNothingHolds == Spec => []AllOrNothing
  BY ShootInvariant, PTL

-----------------------------------------------------------------------------
(* Versions.                                                               *)

NoneWithdrawn == budget["withdraw"] = Budget["withdraw"]

\* What was made and what is to be made is from manifests that there were.
MadeOfPublished ==
    /\ \A n \in Names : made[n] # None => made[n].manifest \in published
    /\ \A w \in Workers : ElementsOf(task[w].found) \subseteq published

\* What a sync has found is in the order of its versions, and its instances were
\* not made from later ones.
InOrder(found) ==
    \A i, j \in DOMAIN found :
       i < j /\ found[i].addon = found[j].addon => found[i].version <= found[j].version
NotOlder(k, m) ==
    LET n == InstanceName[k, m.addon] IN
    made[n] # None /\ made[n].manifest.addon = m.addon => made[n].manifest.version <= m.version

VersionIInv ==
    /\ budget["withdraw"] <= Budget["withdraw"]
    /\ MadeOfPublished
    /\ NoneWithdrawn =>
         /\ manifests = published
         /\ \A w \in Workers :
              InOrder(task[w].found) /\ \A m \in ElementsOf(task[w].found) : NotOlder(cur[w], m)

\* The action of NoDowngrade.
NoneOlder ==
    \A n \in Names :
       (/\ instances[n] = None /\ instances'[n] # None
        /\ made[n] # None /\ made[n].manifest.addon = made'[n].manifest.addon
        /\ NoneWithdrawn)
       => made'[n].manifest.version >= made[n].manifest.version

\* What was made has a version.
LEMMA MadeTyped ==
    ASSUME TypeOK, NEW n \in Names, made[n] # None
    PROVE  made[n].manifest \in Manifest /\ made[n].manifest.version \in Nat
BY DEF TypeOK, Manifest

\* Of what is found one element has the place of another.
LEMMA FoundTyped ==
    ASSUME TypeOK, NEW w \in Workers
    PROVE  /\ task[w].found \in Seq(Manifest)
           /\ ElementsOf(task[w].found) \subseteq Manifest
           /\ \A i \in DOMAIN task[w].found : task[w].found[i] \in Manifest
<1>1. task[w].found \in Seq(Manifest)
  BY DEF TypeOK, Task
<1>2. \A i \in DOMAIN task[w].found : task[w].found[i] \in Manifest
  BY <1>1
<1> QED BY <1>1, <1>2 DEF ElementsOf

\* Disturbances are only spent.
LEMMA SpendLess ==
    ASSUME TypeOK, NEW d \in Disturbances \ {"any"}, Spend(d)
    PROVE  /\ budget'["withdraw"] <= budget["withdraw"]
           /\ d = "withdraw" => budget'["withdraw"] < budget["withdraw"]
<1>1. budget \in [Disturbances -> Nat] /\ {"any", "withdraw"} \subseteq Disturbances
  BY DEF TypeOK, Disturbances
<1>2. budget' = [budget EXCEPT ![d] = @ - 1, !["any"] = @ - 1]
  BY DEF Spend
<1>3. budget'["withdraw"] = IF d = "withdraw" THEN budget["withdraw"] - 1 ELSE budget["withdraw"]
  BY <1>1, <1>2
<1>4. budget["withdraw"] \in Nat
  BY <1>1
<1> QED BY <1>3, <1>4

\* A step that makes nothing and finds nothing, and after which every worker has
\* what it had found, for the same Shoot, or nothing.
LEMMA VersionsStill ==
    ASSUME TypeOK, VersionIInv, made' = made, published \subseteq published',
           budget'["withdraw"] <= budget["withdraw"], budget'["withdraw"] \in Nat,
           NoneWithdrawn' /\ manifests = published => manifests' = published',
           \A w \in Workers : \/ task'[w].found = <<>>
                              \/ task'[w].found = task[w].found /\ cur'[w] = cur[w]
    PROVE  VersionIInv' /\ NoneOlder
<1>1. ElementsOf(<<>>) = {} /\ InOrder(<<>>)
  BY DEF ElementsOf, InOrder
<1>2. Budget["withdraw"] \in Nat /\ budget["withdraw"] \in Nat
  BY ShootAssumption DEF TypeOK, Disturbances
<1>3. budget'["withdraw"] <= Budget["withdraw"] /\ (NoneWithdrawn' => NoneWithdrawn)
  BY <1>2 DEF VersionIInv, NoneWithdrawn
<1>4. MadeOfPublished'
  BY <1>1 DEF VersionIInv, MadeOfPublished
<1>5. ASSUME NoneWithdrawn', NEW w \in Workers
      PROVE  InOrder(task'[w].found)
             /\ \A m \in ElementsOf(task'[w].found) : NotOlder(cur[w], m)'
  <2>1. CASE task'[w].found = <<>>
    BY <1>1, <2>1
  <2>2. CASE task'[w].found = task[w].found /\ cur'[w] = cur[w]
    BY <1>3, <1>5, <2>2 DEF VersionIInv, NotOlder
  <2> QED BY <2>1, <2>2
<1>6. NoneOlder
  BY MadeTyped DEF NoneOlder
<1> QED BY <1>3, <1>4, <1>5, <1>6 DEF VersionIInv, InOrder

\* What a sync finds next is not older than anything of its addon.
LEMMA VersionsFound ==
    ASSUME TypeOK, VersionIInv, NEW w \in Workers, NEW m \in Manifest,
           m \in Latest(m.addon), UNCHANGED <<loopVars, manifestVars, instanceVars, budget>>,
           cur[w] \in Keys, task'[w].found = Append(task[w].found, m),
           \A v \in Workers \ {w} : task'[v] = task[v]
    PROVE  VersionIInv' /\ NoneOlder
<1> DEFINE f == task[w].found
           g == Append(f, m)
<1>1. f \in Seq(Manifest) /\ \A i \in DOMAIN f : f[i] \in ElementsOf(f)
  BY FoundTyped DEF ElementsOf
<1>2. /\ Len(f) \in Nat /\ DOMAIN f = 1..Len(f) /\ DOMAIN g = 1..(Len(f) + 1)
      /\ g[Len(f) + 1] = m /\ \A i \in DOMAIN f : g[i] = f[i]
  BY <1>1
<1>3. ElementsOf(g) = ElementsOf(f) \cup {m}
  BY <1>2 DEF ElementsOf
<1>4. m \in manifests /\ m \in published
  BY DEF Latest, Named, TypeOK
<1>5. ASSUME NEW o \in manifests, o.addon = m.addon PROVE o.version <= m.version
  BY <1>5 DEF Latest, Named
<1>6. MadeOfPublished'
  BY <1>3, <1>4 DEF VersionIInv, MadeOfPublished
<1>7. ASSUME NoneWithdrawn PROVE InOrder(g)
  <2>1. \A i \in DOMAIN f : f[i] \in manifests
    BY <1>1, <1>7 DEF VersionIInv, MadeOfPublished
  <2>2. InOrder(f)
    BY <1>7 DEF VersionIInv
  <2> SUFFICES ASSUME NEW i \in DOMAIN g, NEW j \in DOMAIN g, i < j, g[i].addon = g[j].addon
               PROVE  g[i].version <= g[j].version
    BY DEF InOrder
  <2>3. i \in DOMAIN f
    BY <1>2
  <2>4. CASE j = Len(f) + 1
    BY <2>1, <2>3, <2>4, <1>2, <1>5
  <2>5. CASE j # Len(f) + 1
    <3>1. j \in DOMAIN f
      BY <2>5, <1>2
    <3> QED BY <2>2, <2>3, <3>1, <1>2 DEF InOrder
  <2> QED BY <2>4, <2>5
<1>8. ASSUME NoneWithdrawn PROVE NotOlder(cur[w], m)
  <2> DEFINE n == InstanceName[cur[w], m.addon]
  <2> SUFFICES ASSUME made[n] # None, made[n].manifest.addon = m.addon
               PROVE  made[n].manifest.version <= m.version
    BY DEF NotOlder
  <2>1. n \in Names
    BY ShootAssumption DEF Manifest
  <2>2. made[n].manifest \in manifests
    BY <1>8, <2>1 DEF VersionIInv, MadeOfPublished
  <2> QED BY <2>2, <1>5
<1>9. ASSUME NoneWithdrawn', NEW v \in Workers
      PROVE  /\ InOrder(task'[v].found)
             /\ \A x \in ElementsOf(task'[v].found) : NotOlder(cur[v], x)'
  <2>1. NoneWithdrawn /\ UNCHANGED <<cur, made>>
    BY <1>9 DEF NoneWithdrawn, loopVars
  <2>2. CASE v = w
    <3>1. task'[v].found = g /\ cur'[v] = cur[w]
      BY <2>1, <2>2
    <3>2. InOrder(task'[v].found)
      BY <2>1, <3>1, <1>7
    <3>3. \A x \in ElementsOf(g) : NotOlder(cur[w], x)
      BY <2>1, <1>3, <1>8 DEF VersionIInv
    <3> QED BY <2>1, <3>1, <3>2, <3>3 DEF NotOlder
  <2>3. CASE v # w
    BY <2>1, <2>3 DEF VersionIInv, NotOlder
  <2> QED BY <2>2, <2>3
<1>10. budget' = budget /\ manifests' = manifests /\ published' = published
  OBVIOUS
<1>11. NoneOlder
  BY MadeTyped DEF NoneOlder
<1> QED BY <1>6, <1>9, <1>10, <1>11 DEF VersionIInv, NoneWithdrawn, InOrder

\* The first of what a sync has found, and the others.
LEMMA HeadOfFound ==
    ASSUME NEW f \in Seq(Manifest), f # <<>>
    PROVE  /\ Head(f) \in ElementsOf(f) /\ Head(f) \in Manifest
           /\ ElementsOf(Tail(f)) \subseteq ElementsOf(f)
           /\ InOrder(f) =>
                /\ InOrder(Tail(f))
                /\ \A x \in ElementsOf(Tail(f)) :
                     x.addon = Head(f).addon => Head(f).version <= x.version
<1> DEFINE t == Tail(f)
<1>1. /\ Len(f) \in Nat \ {0} /\ DOMAIN f = 1..Len(f) /\ DOMAIN t = 1..(Len(f) - 1)
      /\ \A i \in 1..(Len(f) - 1) : t[i] = f[i + 1]
      /\ Head(f) = f[1] /\ \A i \in DOMAIN f : f[i] \in Manifest
  OBVIOUS
<1>2. \A i \in DOMAIN t : t[i] = f[i + 1] /\ i + 1 \in DOMAIN f /\ 1 < i + 1 /\ 1 \in DOMAIN f
  BY <1>1
<1>3. Head(f) \in ElementsOf(f) /\ Head(f) \in Manifest
  BY <1>1 DEF ElementsOf
<1>4. ElementsOf(t) \subseteq ElementsOf(f)
  BY <1>2 DEF ElementsOf
<1>5. ASSUME InOrder(f) PROVE InOrder(t)
  <2>1. \A i, j \in DOMAIN t : i < j => i + 1 < j + 1
    BY <1>1
  <2> QED BY <2>1, <1>2, <1>5 DEF InOrder
<1>6. ASSUME InOrder(f), NEW x \in ElementsOf(t), x.addon = Head(f).addon
      PROVE  Head(f).version <= x.version
  BY <1>1, <1>2, <1>6 DEF InOrder, ElementsOf
<1> QED BY <1>3, <1>4, <1>5, <1>6

\* A creation, or one that fails or finds that there is an instance.
LEMMA VersionsEnsured ==
    ASSUME TypeOK, ShootIInv, OneWorkerPerKey, VersionIInv, NEW w \in Workers, EnsureAddon(w)
    PROVE  VersionIInv' /\ NoneOlder
<1> DEFINE f == task[w].found
<1>1. /\ At(w, "ensure") /\ f # <<>> /\ UNCHANGED <<loopVars, manifestVars>>
      /\ \E failed \in BOOLEAN :
           task' = [task EXCEPT ![w].found = Tail(@), ![w].erred = @ \/ failed]
  BY DEF EnsureAddon
<1>2. cur[w] \in Keys /\ f \in Seq(Manifest)
  BY <1>1, CheckedAtEnsure
<1>3. task'[w].found = Tail(f) /\ \A v \in Workers \ {w} : task'[v] = task[v]
  BY <1>1 DEF TypeOK, Task
<1>4. PICK m \in Manifest : m = Head(f)
  BY <1>1, <1>2
<1>5. PICK n \in Names : n = InstanceName[cur[w], m.addon]
  BY <1>2, ShootAssumption DEF Manifest
<1>6. /\ m \in ElementsOf(f) /\ ElementsOf(Tail(f)) \subseteq ElementsOf(f)
      /\ InOrder(f) =>
           /\ InOrder(Tail(f))
           /\ \A x \in ElementsOf(Tail(f)) : x.addon = m.addon => m.version <= x.version
  BY <1>1, <1>2, <1>4, HeadOfFound
<1>7. Make(n, w, m) \/ UNCHANGED instanceVars
  BY <1>4, <1>5 DEF EnsureAddon
<1>8. budget'["withdraw"] <= budget["withdraw"] /\ budget'["withdraw"] \in Nat
  <2>1. budget' = budget \/ Spend("reply") \/ Spend("call")
    BY DEF EnsureAddon
  <2>2. budget' \in [Disturbances -> Nat] /\ budget["withdraw"] \in Nat
    BY EnsureKept DEF TypeOK, Disturbances
  <2>3. budget'["withdraw"] <= budget["withdraw"]
    BY <2>1, <2>2, SpendLess DEF Disturbances
  <2> QED BY <2>2, <2>3 DEF Disturbances
<1>9. budget'["withdraw"] <= Budget["withdraw"] /\ (NoneWithdrawn' => NoneWithdrawn)
  <2>1. Budget["withdraw"] \in Nat /\ budget["withdraw"] \in Nat
    BY ShootAssumption DEF TypeOK, Disturbances
  <2> QED BY <2>1, <1>8 DEF VersionIInv, NoneWithdrawn
<1>10. \A v \in Workers : ElementsOf(task'[v].found) \subseteq ElementsOf(task[v].found)
  BY <1>3, <1>6
<1>11. ASSUME NoneWithdrawn, NEW v \in Workers
       PROVE  InOrder(task'[v].found)
  BY <1>3, <1>6, <1>11 DEF VersionIInv
<1>12. MadeOfPublished'
  <2>1. \A o \in Names : made'[o] # None => made'[o].manifest \in published
    <3>1. CASE Make(n, w, m)
      <4>1. \A o \in Names : made'[o] = made[o] \/ made'[o].manifest = m
        BY <3>1 DEF Make, TypeOK
      <4> QED BY <4>1, <1>6 DEF VersionIInv, MadeOfPublished
    <3>2. CASE UNCHANGED instanceVars
      BY <3>2 DEF VersionIInv, MadeOfPublished
    <3> QED BY <3>1, <3>2, <1>7
  <2> QED BY <2>1, <1>1, <1>10 DEF VersionIInv, MadeOfPublished
<1>13. ASSUME NoneWithdrawn, NEW v \in Workers, NEW x \in ElementsOf(task'[v].found)
       PROVE  NotOlder(cur[v], x)'
  <2>1. x \in ElementsOf(task[v].found) /\ NotOlder(cur[v], x) /\ x \in Manifest
    BY <1>10, <1>13, FoundTyped DEF VersionIInv
  <2>2. cur'[v] = cur[v]
    BY <1>1 DEF loopVars
  <2>3. CASE UNCHANGED instanceVars
    BY <2>1, <2>2, <2>3 DEF NotOlder
  <2>4. CASE Make(n, w, m)
    <3>1. PICK o : o = InstanceName[cur[v], x.addon]
      OBVIOUS
    <3>2. pc[v] = "sync" /\ cur[v] \in Keys
      <4>1. pc[v] = "sync"
        BY <2>1 DEF TypeOK, NoTask, ElementsOf
      <4> QED BY <4>1, HasKey DEF TypeOK, Keyless
    <3>3. o \in Names
      BY <3>1, <3>2, <2>1, ShootAssumption DEF Manifest
    <3>4. CASE o # n
      <4>1. made'[o] = made[o]
        BY <2>4, <3>3, <3>4 DEF Make, TypeOK
      <4> QED BY <4>1, <2>1, <2>2, <3>1 DEF NotOlder
    <3>5. CASE o = n /\ x.addon = m.addon
      <4>1. cur[v] = cur[w]
        BY <3>1, <3>2, <3>5, <1>2, <1>5, <2>1, InstanceNameAssumption DEF Manifest
      <4>2. v = w
        BY <4>1, <3>2, <1>1 DEF OneWorkerPerKey, Holding, At
      <4>3. m.version <= x.version
        BY <4>2, <3>5, <1>3, <1>6, <1>13 DEF VersionIInv
      <4>4. made'[n].manifest = m
        BY <2>4 DEF Make, TypeOK
      <4> QED BY <4>3, <4>4, <2>2, <3>1, <3>5 DEF NotOlder
    <3>6. CASE o = n /\ x.addon # m.addon
      <4>1. made'[n].manifest = m
        BY <2>4 DEF Make, TypeOK
      <4> QED BY <4>1, <2>2, <3>1, <3>6 DEF NotOlder
    <3> QED BY <3>4, <3>5, <3>6
  <2> QED BY <2>3, <2>4, <1>7
<1>14. NoneOlder
  <2> SUFFICES ASSUME NEW o \in Names, made[o] # None, NoneWithdrawn,
                      made[o].manifest.addon = made'[o].manifest.addon
               PROVE  made'[o].manifest.version >= made[o].manifest.version
    BY DEF NoneOlder
  <2>1. CASE made'[o] = made[o]
    BY <2>1, MadeTyped
  <2>2. CASE made'[o] # made[o]
    <3>1. o = n /\ made'[o].manifest = m
      BY <2>2, <1>7 DEF Make, TypeOK
    <3>2. NotOlder(cur[w], m)
      BY <1>6 DEF VersionIInv
    <3>3. made[o].manifest.version \in Nat /\ m.version \in Nat
      BY MadeTyped DEF Manifest
    <3> QED BY <3>1, <3>2, <3>3, <1>5 DEF NotOlder
  <2> QED BY <2>1, <2>2
<1>15. manifests' = manifests /\ published' = published
  BY <1>1
<1> QED BY <1>9, <1>11, <1>12, <1>13, <1>14, <1>15 DEF VersionIInv, InOrder

\* Every step keeps the order of the versions.
LEMMA VersionsStep ==
    ASSUME TypeOK, TypeOK', ShootIInv, OneWorkerPerKey, VersionIInv, [Next]_vars
    PROVE  VersionIInv' /\ NoneOlder
<1> DEFINE Kept == VersionIInv' /\ NoneOlder
<1> SUFFICES Kept
  OBVIOUS
<1>1. /\ budget["withdraw"] \in Nat /\ budget'["withdraw"] \in Nat
      /\ \A w \in Workers : pc[w] # "sync" => task[w].found = <<>>
      /\ NoTask.found = <<>>
  BY DEF TypeOK, Disturbances, NoTask
<1>2. ASSUME UNCHANGED <<loopVars, made, task, budget>>,
             UNCHANGED manifestVars
      PROVE  Kept
  <2>1. \A w \in Workers : task'[w].found = task[w].found /\ cur'[w] = cur[w]
    BY <1>2 DEF loopVars
  <2> QED BY <1>1, <1>2, <2>1, VersionsStill
<1>3. ASSUME UNCHANGED <<cur, made, task>>, budget'["withdraw"] <= budget["withdraw"],
             published \subseteq published',
             NoneWithdrawn' /\ manifests = published => manifests' = published'
      PROVE  Kept
  BY <1>1, <1>3, VersionsStill
<1>4. ASSUME NEW k \in Keys,
             \/ CreateShoot(k) \/ Annotate(k) \/ DeleteShoot(k) \/ RemoveShoot(k)
             \/ Resync(k) \/ Notify(k) \/ LoopStep(Fire(k))
      PROVE  Kept
  <2>1. UNCHANGED <<cur, made, task, manifests, published>>
    BY <1>4 DEF CreateShoot, Annotate, DeleteShoot, RemoveShoot, Resync, Notify, Enqueue,
       LoopStep, Fire, loopVars
  <2>2. budget' = budget \/ Spend("annotate") \/ Spend("shoot")
    BY <1>4 DEF CreateShoot, Annotate, DeleteShoot, RemoveShoot, Resync, Notify, LoopStep
  <2>3. budget'["withdraw"] <= budget["withdraw"]
    BY <1>1, <2>2, SpendLess DEF Disturbances
  <2> QED BY <2>1, <2>3, <1>3
<1>5. ASSUME NEW m \in Manifests, PublishManifest(m)
      PROVE  Kept
  <2>1. /\ UNCHANGED <<cur, made, task>> /\ Spend("publish")
        /\ manifests' = manifests \cup {m} /\ published' = published \cup {m}
    BY <1>5 DEF PublishManifest, loopVars
  <2>2. budget'["withdraw"] <= budget["withdraw"]
    BY <2>1, SpendLess DEF Disturbances
  <2> QED BY <2>1, <2>2, <1>3
<1>6. ASSUME NEW m \in Manifests, WithdrawManifest(m)
      PROVE  Kept
  <2>1. UNCHANGED <<cur, made, task, published>> /\ Spend("withdraw")
    BY <1>6 DEF WithdrawManifest, loopVars
  <2>2. budget'["withdraw"] < budget["withdraw"]
    BY <2>1, SpendLess DEF Disturbances
  <2>3. ~NoneWithdrawn' /\ budget'["withdraw"] <= budget["withdraw"]
    <3>1. Budget["withdraw"] \in Nat /\ budget["withdraw"] <= Budget["withdraw"]
      BY ShootAssumption DEF VersionIInv, Disturbances
    <3> QED BY <3>1, <1>1, <2>2 DEF NoneWithdrawn
  <2> QED BY <2>1, <2>3, <1>3
<1>7. ASSUME NEW n \in Names, DeleteInstance(n) \/ FinalizeInstance(n)
      PROVE  Kept
  <2>1. UNCHANGED <<cur, made, task, manifests, published>>
    BY <1>7 DEF DeleteInstance, FinalizeInstance, loopVars
  <2>2. budget' = budget \/ Spend("delete")
    BY <1>7 DEF DeleteInstance, FinalizeInstance
  <2>3. budget'["withdraw"] <= budget["withdraw"]
    BY <1>1, <2>2, SpendLess DEF Disturbances
  <2> QED BY <2>1, <2>3, <1>3
<1>8. ASSUME NEW w \in Workers, LoopStep(WorkerStep(w))
      PROVE  Kept
  <2>1. UNCHANGED <<made, task, budget, manifests, published>> /\ WorkerStep(w)
    BY <1>8 DEF LoopStep
  <2>2. pc[w] # "sync" /\ \A v \in Workers \ {w} : cur'[v] = cur[v]
    BY <2>1 DEF WorkerStep, Start, TakeKey, Stop, Forget, Done, CheckRequeues, When,
       AddAfter, Goto, TypeOK, LoopTypeOK
  <2>3. \A v \in Workers : \/ task'[v].found = <<>>
                           \/ task'[v].found = task[v].found /\ cur'[v] = cur[v]
    BY <1>1, <2>1, <2>2
  <2> QED BY <1>1, <2>1, <2>3, VersionsStill
<1>9. CASE LoopStep(Receive)
  <2>1. UNCHANGED <<cur, made, task, budget, manifests, published>>
    BY <1>9 DEF LoopStep, Receive
  <2> QED BY <1>1, <2>1, <1>3
<1>10. ASSUME NEW w \in Workers, NEW ok, Return(w, ok),
              UNCHANGED <<manifests, published, made, budget>>
       PROVE  Kept
  <2>1. task' = [task EXCEPT ![w] = NoTask] /\ cur' = cur
    BY <1>10 DEF Return, SyncOK, SyncErr
  <2>2. \A v \in Workers : \/ task'[v].found = <<>>
                           \/ task'[v].found = task[v].found /\ cur'[v] = cur[v]
    BY <1>1, <2>1 DEF TypeOK
  <2> QED BY <1>1, <1>10, <2>2, VersionsStill
<1>11. ASSUME NEW w \in Workers, UNCHANGED <<loopVars, manifests, published, made, budget>>,
              \A v \in Workers : task'[v].found = task[v].found
       PROVE  Kept
  <2>1. cur' = cur
    BY <1>11 DEF loopVars
  <2> QED BY <1>1, <1>11, <2>1, VersionsStill
<1>12. ASSUME NEW w \in Workers, Lookup(w)
       PROVE  Kept
  <2>1. UNCHANGED <<manifests, published, made, budget>>
    BY <1>12 DEF Lookup
  <2>2. CASE Return(w, TRUE) \/ Return(w, FALSE)
    BY <2>1, <2>2, <1>10
  <2>3. CASE ~(Return(w, TRUE) \/ Return(w, FALSE))
    <3>1. /\ UNCHANGED loopVars
          /\ \E shoot : task' = [task EXCEPT ![w].step = "extract", ![w].held = shoot,
                                             ![w].names = shoot.annotation]
      BY <1>12, <2>3 DEF Lookup
    <3>2. \A v \in Workers : task'[v].found = task[v].found
      BY <3>1 DEF TypeOK, Task
    <3> QED BY <2>1, <3>1, <3>2, <1>11
  <2> QED BY <2>2, <2>3
<1>13. ASSUME NEW w \in Workers, ExtractManifest(w)
       PROVE  Kept
  <2>1. UNCHANGED <<manifestVars, instanceVars, budget>> /\ pc[w] = "sync"
    BY <1>13 DEF ExtractManifest, At
  <2>2. CASE Return(w, FALSE)
    BY <2>1, <2>2, <1>10
  <2>3. CASE ~Return(w, FALSE)
    <3>1. PICK m \in Latest(Head(task[w].names)) :
            /\ task' = [task EXCEPT ![w].names = Tail(@), ![w].found = Append(@, m)]
            /\ UNCHANGED loopVars
      BY <1>13, <2>3 DEF ExtractManifest
    <3>2. m \in manifests /\ m.addon = Head(task[w].names)
      BY DEF Latest, Named
    <3>3. m \in Manifest /\ m \in Latest(m.addon)
      BY <3>2, ShootAssumption DEF TypeOK
    <3>4. task'[w].found = Append(task[w].found, m)
          /\ \A v \in Workers \ {w} : task'[v] = task[v]
      BY <3>1 DEF TypeOK, Task
    <3>5. cur[w] \in Keys
      BY <2>1, HasKey DEF TypeOK, Keyless
    <3> QED BY <2>1, <3>1, <3>3, <3>4, <3>5, VersionsFound
  <2> QED BY <2>2, <2>3
<1>14. ASSUME NEW w \in Workers, ExtractDone(w)
       PROVE  Kept
  <2>1. UNCHANGED <<loopVars, manifests, published, made, budget>>
        /\ task' = [task EXCEPT ![w].step = "ensure"]
    BY <1>14 DEF ExtractDone
  <2>2. \A v \in Workers : task'[v].found = task[v].found
    BY <2>1 DEF TypeOK, Task
  <2> QED BY <2>1, <2>2, <1>11
<1>15. ASSUME NEW w \in Workers, EnsureAddon(w)
       PROVE  Kept
  BY <1>15, VersionsEnsured
<1>16. ASSUME NEW w \in Workers, EnsureDone(w)
       PROVE  Kept
  <2>1. Return(w, ~task[w].erred) /\ UNCHANGED <<manifests, published, made, budget>>
    BY <1>16 DEF EnsureDone
  <2> QED BY <2>1, <1>10
<1>17. CASE RestartController
  <2>1. UNCHANGED <<made, manifests, published>> /\ Spend("restart")
        /\ task' = [w \in Workers |-> NoTask]
    BY <1>17 DEF RestartController
  <2>2. budget'["withdraw"] <= budget["withdraw"]
    BY <2>1, SpendLess DEF Disturbances
  <2>3. \A v \in Workers : task'[v].found = <<>>
    BY <1>1, <2>1
  <2> QED BY <1>1, <2>1, <2>2, <2>3, VersionsStill
<1>18. CASE UNCHANGED vars
  BY <1>2, <1>18 DEF vars
<1> QED BY <1>4, <1>5, <1>6, <1>7, <1>8, <1>9, <1>12, <1>13, <1>14, <1>15, <1>16, <1>17, <1>18
        DEF Next, SyncStep

\* Whatever annotations, workers, failures and restarts there are: as long as no
\* manifest is withdrawn, an instance does not come back with an older version.
\* No two workers create the instances of one Shoot at a time, and what one has
\* found is not older than what its instances were last made from.
THEOREM VersionsNeverFall == Spec => NoDowngrade
<1> DEFINE Before == TypeOK /\ ShootIInv /\ OneWorkerPerKey
<1>1. Init => VersionIInv
  <2> SUFFICES ASSUME Init PROVE VersionIInv
    OBVIOUS
  <2>1. \A w \in Workers : task[w].found = <<>>
    BY DEF Init, NoTask
  <2>2. ElementsOf(<<>>) = {} /\ InOrder(<<>>)
    BY DEF ElementsOf, InOrder
  <2>3. Budget["withdraw"] \in Nat
    BY ShootAssumption DEF Disturbances
  <2> QED BY <2>1, <2>2, <2>3 DEF Init, VersionIInv, MadeOfPublished
<1>2. Before /\ TypeOK' /\ VersionIInv /\ [Next]_vars => VersionIInv' /\ [NoneOlder]_vars
  BY VersionsStep
<1>3. Spec => []Before
  BY ShootInvariant, ShootQueueCorrect, PTL
<1>4. NoDowngrade <=> [][NoneOlder]_vars
  BY PTL DEF NoDowngrade, NoneOlder, NoneWithdrawn
<1> QED BY <1>1, <1>2, <1>3, <1>4, PTL DEF Spec
=============================================================================
