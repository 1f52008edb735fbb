--------------------------- MODULE ControllerLoop ---------------------------
(***************************************************************************)
(* The work queue and the worker loop both Bouquet controllers are built   *)
(* on.  instance.go and shoot.go hold the same loop twice: event handlers  *)
(* Add keys, `threadiness` goroutines take them with Get, call the sync    *)
(* handler, Forget a key that was synced, call Done, and re-add a key that *)
(* failed with a delay until it has been requeued maxRetries times.        *)
(*                                                                         *)
(* What a sync does is left open here: it takes any time and may succeed   *)
(* or fail.  InstanceController and ShootController extend this module and *)
(* put the real handlers between TakeKey and SyncOK / SyncErr.             *)
(*                                                                         *)
(* The atomic steps are the critical sections of the code: one per method  *)
(* of the queue (its mutex), of the rate limiter (failuresLock) and per    *)
(* operation on the channel waitingForAddCh.                               *)
(***************************************************************************)
EXTENDS Naturals, Sequences, FiniteSets

CONSTANTS Keys,        \* namespace/name keys of the watched objects
          Workers,     \* the goroutines Run starts (2 in cmd/main.go)
          NoKey,       \* no key held
          MaxRetries,  \* the constant maxRetries (15)
          ChanCap      \* capacity of waitingForAddCh (1000)

ASSUME LoopAssumption ==
    /\ NoKey \notin Keys
    /\ Workers # {} /\ IsFiniteSet(Workers)
    /\ MaxRetries \in Nat \ {0}
    /\ ChanCap \in Nat \ {0}

VARIABLES queue,           \* keys ready to be taken, in order
          dirty,           \* keys that need processing
          processing,      \* keys some worker holds
          failures,        \* the rate limiter's failure count per key
          waitingForAddCh, \* delayed re-adds on their way to waitingLoop
          waiting,         \* delayed re-adds whose time has not come
          stopCh,          \* the stop channel is closed
          shuttingDown,    \* the queue has been shut down
          pc,              \* where each worker is
          cur              \* the key each worker holds

queueVars == <<queue, dirty, processing>>
delayVars == <<failures, waitingForAddCh, waiting>>
stopVars == <<stopCh, shuttingDown>>
workerVars == <<pc, cur>>
loopVars == <<queueVars, delayVars, stopVars, workerVars>>

Labels == {"start",    \* the goroutine has not entered runWorker
           "get",      \* at Get
           "sync",     \* in syncHandler
           "forget",   \* synced, before Forget
           "synced",   \* after Forget, before Done
           "failed",   \* the sync failed, before Done
           "check",    \* after Done, before NumRequeues
           "requeue",  \* below maxRetries, before the limiter's When
           "add",      \* counted, before the send to waitingForAddCh
           "stopped",  \* Get reported shutdown, the goroutine returned
          "skipped"}  \* stopCh was closed before it entered runWorker

\* Outside of processNextWorkItem a worker has no key.
Keyless == {"start", "get", "stopped", "skipped"}

\* From Get to Done a worker holds its key.
Holding == {"sync", "forget", "synced", "failed"}

LoopTypeOK ==
    /\ queue \in Seq(Keys)
    /\ dirty \subseteq Keys
    /\ processing \subseteq Keys
    /\ failures \in [Keys -> Nat]
    /\ waitingForAddCh \in Seq(Keys)
    /\ waiting \subseteq Keys
    /\ stopCh \in BOOLEAN
    /\ shuttingDown \in BOOLEAN
    /\ pc \in [Workers -> Labels]
    /\ cur \in [Workers -> Keys \cup {NoKey}]
    /\ \A w \in Workers : cur[w] = NoKey <=> pc[w] \in Keyless

LoopInit ==
    /\ queue = <<>>
    /\ dirty = {}
    /\ processing = {}
    /\ failures = [k \in Keys |-> 0]
    /\ waitingForAddCh = <<>>
    /\ waiting = {}
    /\ stopCh = FALSE
    /\ shuttingDown = FALSE
    /\ pc = [w \in Workers |-> "start"]
    /\ cur = [w \in Workers |-> NoKey]

Goto(w, from, to) == pc[w] = from /\ pc' = [pc EXCEPT ![w] = to]

-----------------------------------------------------------------------------
(* The queue.                                                              *)

\* Mutant: Add queues a dirty key again.
AddTwice(k) ==
    /\ UNCHANGED processing
    /\ IF shuttingDown
         THEN UNCHANGED <<queue, dirty>>
         ELSE /\ dirty' = dirty \cup {k}
              /\ queue' = IF k \in processing THEN queue ELSE Append(queue, k)

\* Mutant: Add queues a key that a worker holds.
AddHeld(k) ==
    /\ UNCHANGED processing
    /\ IF shuttingDown \/ k \in dirty
         THEN UNCHANGED <<queue, dirty>>
         ELSE dirty' = dirty \cup {k} /\ queue' = Append(queue, k)

\* Add: ignored after ShutDown and for a key that is already dirty; a key a
\* worker holds is only marked, Done will queue it.
Add(k) ==
    /\ UNCHANGED processing
    /\ IF shuttingDown \/ k \in dirty
         THEN UNCHANGED <<queue, dirty>>
         ELSE /\ dirty' = dirty \cup {k}
              /\ queue' = IF k \in processing THEN queue ELSE Append(queue, k)

\* An informer event handler adds the key of the object it was called for.
Enqueue(k) ==
    /\ Add(k)
    /\ UNCHANGED <<delayVars, stopVars, workerVars>>

\* Get hands the oldest key to a worker.
TakeKey(w) ==
    /\ queue # <<>>
    /\ Goto(w, "get", "sync")
    /\ cur' = [cur EXCEPT ![w] = Head(queue)]
    /\ queue' = Tail(queue)
    /\ processing' = processing \cup {Head(queue)}
    /\ dirty' = dirty \ {Head(queue)}
    /\ UNCHANGED <<delayVars, stopVars>>

\* Mutant: Done leaves a key that became dirty out of the queue.
DoneDropsDirty(w) ==
    /\ \/ Goto(w, "synced", "get") /\ cur' = [cur EXCEPT ![w] = NoKey]
       \/ Goto(w, "failed", "check") /\ UNCHANGED cur
    /\ processing' = processing \ {cur[w]}
    /\ UNCHANGED <<queue, dirty, delayVars, stopVars>>

\* Done re-adds a key that became dirty while it was held.
Done(w) ==
    /\ \/ Goto(w, "synced", "get") /\ cur' = [cur EXCEPT ![w] = NoKey]
       \/ Goto(w, "failed", "check") /\ UNCHANGED cur
    /\ processing' = processing \ {cur[w]}
    /\ queue' = IF cur[w] \in dirty THEN Append(queue, cur[w]) ELSE queue
    /\ UNCHANGED <<dirty, delayVars, stopVars>>

-----------------------------------------------------------------------------
(* The worker.                                                             *)

\* wait.Until looks at stopCh once before it enters runWorker.
Start(w) ==
    /\ Goto(w, "start", IF stopCh THEN "skipped" ELSE "get")
    /\ UNCHANGED <<queueVars, delayVars, stopVars, cur>>

\* Mutant: Get reports shutdown although keys are queued.
StopAtOnce(w) ==
    /\ shuttingDown
    /\ Goto(w, "get", "stopped")
    /\ UNCHANGED <<queueVars, delayVars, stopVars, cur>>

\* Get reports shutdown once the queue is empty; the goroutine returns.
Stop(w) ==
    /\ shuttingDown /\ queue = <<>>
    /\ Goto(w, "get", "stopped")
    /\ UNCHANGED <<queueVars, delayVars, stopVars, cur>>

SyncOK(w) ==
    /\ Goto(w, "sync", "forget")
    /\ UNCHANGED <<queueVars, delayVars, stopVars, cur>>

SyncErr(w) ==
    /\ Goto(w, "sync", "failed")
    /\ UNCHANGED <<queueVars, delayVars, stopVars, cur>>

\* Mutant: Forget takes one failure back instead of clearing the count.
ForgetOne(w) ==
    /\ Goto(w, "forget", "synced")
    /\ failures' = [failures EXCEPT ![cur[w]] = @ - 1]
    /\ UNCHANGED <<queueVars, waitingForAddCh, waiting, stopVars, cur>>

\* Mutant: the worker does not call Forget.
ForgetNothing(w) ==
    /\ Goto(w, "forget", "synced")
    /\ UNCHANGED <<queueVars, delayVars, stopVars, cur>>

Forget(w) ==
    /\ Goto(w, "forget", "synced")
    /\ failures' = [failures EXCEPT ![cur[w]] = 0]
    /\ UNCHANGED <<queueVars, waitingForAddCh, waiting, stopVars, cur>>

\* Mutant: `<=` for `<` in the comparison with maxRetries.
CheckOneMore(w) ==
    /\ \/ /\ Goto(w, "check", "requeue")
          /\ failures[cur[w]] <= MaxRetries
          /\ UNCHANGED cur
       \/ /\ Goto(w, "check", "get")
          /\ failures[cur[w]] > MaxRetries
          /\ cur' = [cur EXCEPT ![w] = NoKey]
    /\ UNCHANGED <<queueVars, delayVars, stopVars>>

\* The key is no longer held here: another worker may be syncing it.
CheckRequeues(w) ==
    /\ \/ /\ Goto(w, "check", "requeue")
          /\ failures[cur[w]] < MaxRetries
          /\ UNCHANGED cur
       \/ /\ Goto(w, "check", "get")
          /\ failures[cur[w]] >= MaxRetries
          /\ cur' = [cur EXCEPT ![w] = NoKey]
    /\ UNCHANGED <<queueVars, delayVars, stopVars>>

\* AddRateLimited asks the limiter for the delay, which counts the failure.
When(w) ==
    /\ Goto(w, "requeue", "add")
    /\ failures' = [failures EXCEPT ![cur[w]] = @ + 1]
    /\ UNCHANGED <<queueVars, waitingForAddCh, waiting, stopVars, cur>>

\* Mutant: a full channel drops the key instead of blocking the worker.
AddAfterDrops(w) ==
    /\ Goto(w, "add", "get")
    /\ waitingForAddCh' = IF shuttingDown \/ Len(waitingForAddCh) = ChanCap
                            THEN waitingForAddCh
                            ELSE Append(waitingForAddCh, cur[w])
    /\ cur' = [cur EXCEPT ![w] = NoKey]
    /\ UNCHANGED <<queueVars, failures, waiting, stopVars>>

\* Mutant: AddAfter does not look for the shutdown.
AddAfterBlocks(w) ==
    /\ Goto(w, "add", "get")
    /\ Len(waitingForAddCh) < ChanCap
    /\ waitingForAddCh' = Append(waitingForAddCh, cur[w])
    /\ cur' = [cur EXCEPT ![w] = NoKey]
    /\ UNCHANGED <<queueVars, failures, waiting, stopVars>>

\* AddAfter sends to waitingLoop, blocks while the channel is full, and drops
\* the key once the queue is shut down.
AddAfter(w) ==
    /\ Goto(w, "add", "get")
    /\ \/ shuttingDown /\ UNCHANGED waitingForAddCh
       \/ /\ ~shuttingDown
          /\ Len(waitingForAddCh) < ChanCap
          /\ waitingForAddCh' = Append(waitingForAddCh, cur[w])
    /\ cur' = [cur EXCEPT ![w] = NoKey]
    /\ UNCHANGED <<queueVars, failures, waiting, stopVars>>

-----------------------------------------------------------------------------
(* waitingLoop and shutdown.                                               *)

\* A key from the channel joins the heap, where it is kept once, or is added
\* at once when its time has passed on the way.
Receive ==
    /\ ~shuttingDown /\ waitingForAddCh # <<>>
    /\ waitingForAddCh' = Tail(waitingForAddCh)
    /\ LET k == Head(waitingForAddCh) IN
         \/ waiting' = waiting \cup {k} /\ UNCHANGED queueVars
         \/ Add(k) /\ UNCHANGED waiting
    /\ UNCHANGED <<failures, stopVars, workerVars>>

\* The delay of a waiting key is over.
Fire(k) ==
    /\ ~shuttingDown /\ k \in waiting
    /\ waiting' = waiting \ {k}
    /\ Add(k)
    /\ UNCHANGED <<failures, waitingForAddCh, stopVars, workerVars>>

\* The signal handler closes stopCh; Run sees it and its deferred ShutDown
\* runs.
CloseStopCh ==
    /\ ~stopCh /\ stopCh' = TRUE
    /\ UNCHANGED <<queueVars, delayVars, shuttingDown, workerVars>>

ShutDown ==
    /\ stopCh /\ ~shuttingDown /\ shuttingDown' = TRUE
    /\ UNCHANGED <<queueVars, delayVars, stopCh, workerVars>>

\* The process dies (kill, second signal, panic re-raised by HandleCrash, or
\* main returns while workers run) and is started again: all of this is memory.
Restart ==
    /\ queue' = <<>> /\ dirty' = {} /\ processing' = {}
    /\ failures' = [k \in Keys |-> 0]
    /\ waitingForAddCh' = <<>> /\ waiting' = {}
    /\ stopCh' = FALSE /\ shuttingDown' = FALSE
    /\ pc' = [w \in Workers |-> "start"]
    /\ cur' = [w \in Workers |-> NoKey]

\* What a worker does besides syncing.
WorkerStep(w) == Start(w) \/ TakeKey(w) \/ Stop(w) \/ Forget(w) \/ Done(w)
                   \/ CheckRequeues(w) \/ When(w) \/ AddAfter(w)

LoopNext ==
    \/ \E k \in Keys : Enqueue(k) \/ Fire(k)
    \/ \E w \in Workers : WorkerStep(w) \/ SyncOK(w) \/ SyncErr(w)
    \/ Receive \/ CloseStopCh \/ ShutDown \/ Restart

LoopSpec == LoopInit /\ [][LoopNext]_loopVars

\* Goroutines are scheduled, timers fire, Run gets to its ShutDown, and a
\* sync returns (the API clients do not hang).  Strong fairness of AddAfter:
\* Go serves the goroutines blocked on a full channel in their order.
LoopFairness ==
    /\ \A w \in Workers : WF_loopVars(WorkerStep(w))
    /\ \A w \in Workers : SF_loopVars(AddAfter(w))
    /\ \A w \in Workers : WF_loopVars(SyncOK(w) \/ SyncErr(w))
    /\ \A k \in Keys : WF_loopVars(Fire(k))
    /\ WF_loopVars(Receive)
    /\ WF_loopVars(ShutDown)

LoopFairSpec == LoopSpec /\ LoopFairness
-----------------------------------------------------------------------------
(* Properties.                                                             *)

ElementsOf(s) == {s[n] : n \in DOMAIN s}

NoDuplicates(s) == \A m, n \in DOMAIN s : s[m] = s[n] => m = n

\* The queue holds each key that needs processing and that no worker holds,
\* exactly once (queue.go: "Every element of queue should be in the dirty set
\* and not in the processing set"; and none is lost).
QueueInv ==
    /\ NoDuplicates(queue)
    /\ ElementsOf(queue) = dirty \ processing

\* Two workers never sync one key at the same time, although Done is called
\* before the failure of the key has been counted and a key can be re-added
\* while it is held.
OneWorkerPerKey ==
    /\ \A v, w \in Workers :
         pc[v] \in Holding /\ pc[w] \in Holding /\ cur[v] = cur[w] => v = w
    /\ processing = {cur[w] : w \in {v \in Workers : pc[v] \in Holding}}

\* processNextWorkItem reads NumRequeues after Done, so workers that failed
\* one after the other on one key can all pass the check before any of them
\* counts: maxRetries is exceeded, by fewer than the number of workers.
RetryBound ==
    \A k \in Keys : failures[k] <= MaxRetries + Cardinality(Workers) - 1

\* A key whose failures are counted and whose retries are not used up is on
\* its way to another sync, in whichever structure it is at the moment.
OnItsWay(k) ==
    \/ k \in dirty \cup waiting
    \/ k \in ElementsOf(waitingForAddCh)
    \/ \E w \in Workers : cur[w] = k /\ pc[w] \notin {"synced", "get"}

NoRetryLost ==
    ~shuttingDown =>
      \A k \in Keys : failures[k] \in 1 .. MaxRetries - 1 => OnItsWay(k)

\* A worker returns from runWorker only after ShutDown, and when the last one
\* has returned nothing that had been added is left (queue.go: "As soon as the
\* worker goroutines have drained the existing items in the queue").
DrainedBeforeExit ==
    (/\ \E w \in Workers : pc[w] = "stopped"
     /\ \A w \in Workers : pc[w] \in {"stopped", "skipped"})
      => dirty = {} /\ processing = {}

\* What the queue promises its clients (workqueue/doc.go).
Tasks == INSTANCE KeyedTasks
           WITH pending <- dirty, active <- processing, down <- shuttingDown

\* Every key added before the shutdown is taken, one worker at a time.
ImplementsKeyedTasks == Tasks!Spec

\* Retrying ends: the key is synced and forgotten, or its retries are used up,
\* or the process goes down.
RetriesSettle ==
    \A k \in Keys : failures[k] \in 1 .. MaxRetries - 1
      ~> (failures[k] = 0 \/ failures[k] >= MaxRetries \/ shuttingDown)

\* Once stopCh is closed every worker returns; nothing blocks it, neither an
\* empty queue nor a full waitingForAddCh that waitingLoop no longer reads.
StopReachesWorkers ==
    stopCh ~> (~stopCh \/ \A w \in Workers : pc[w] \in {"stopped", "skipped"})
=============================================================================
